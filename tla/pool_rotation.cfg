CONSTANTS
    Key = {1, 2, 3}
    Group <- MCGroup
    GroupOf <- MCGroupOf
    Handler = {h1, h2}
    Admin = {}
    Weights = {1, 2}
    Threshold = 2
    Base = 1
    MaxCool = 2
    Overflow = 3
    QuotaReset = {1}
    FailCap = 3
    CursorPeriod = 12
    Answers = {"success", "deadline"}
    AdminOps = {"delete"}
SYMMETRY Interchangeable
SPECIFICATION ShareSpec
INVARIANTS OnceEach WeightedShare
