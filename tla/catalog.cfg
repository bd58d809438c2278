SPECIFICATION CatalogSpec
CONSTANTS
    qwen = qwen
    glm = glm
    Models = {qwen, glm}
    MessagesModels = {qwen}
    Admins = {a1, a2}
    Catalogs <- SomeCatalogs
    Patches <- SomePatches
    MaxWork = 2
    MaxRestarts = 1
    Sources = {"", "a", "b"}
    Targets = {"", "x", "y"}
    Configured <- SomeConfigured
    MaxEdits = 3
    Callers = {c1, c2, c3}
    Key <- Proxies
INVARIANTS
    EditsKept
    RegistryAgrees
    FetchesDecide
    RightTarget
    OneClientPerProxy
PROPERTY RowsStay
CHECK_DEADLOCK FALSE
