CONSTANTS
    Key = {1}
    Group = {go}
    GroupOf <- OneGroup
    Handler = {h1, h2}
    Admin = {a1}
    Weights = {0, 1}
    Threshold = 2
    Base = 1
    MaxCool = 3
    Overflow = 5
    QuotaReset = {2, 4}
    FailCap = 5
    CursorPeriod = 2
    Answers = {"success", "serverError", "unauthorized", "rateLimited", "deadline", "final"}
    AdminOps = {"toggle", "reset", "delete", "create", "edit"}
SPECIFICATION Spec
PROPERTY FailureCools
