CONSTANTS
    Environments = {"local", "dev", "uat", "prod", "test", "", "staging"}
    Machines <- MCMachines
    MaxStarts = 2
    Askers = {"k8s", "lb"}
    MaxFaults = 1
    Values <- MCValues
    Bodies <- MCBodies
    Forms <- MCFormsMeant
    Headers <- MCHeaders
    API_LOG_SENSITIVE_HEADERS <- MCSensitiveHeaders
    EXCLUDED_FIELDS = {"password"}
    SENSITIVE = {"password", "token"}
    MAX_DEPTH = 3
    MAX_DICT_KEYS = 2
    MAX_LIST_ITEMS = 3
    InitialRows = 4
    MaxRows = 5
    Orders <- MCOrders
    Limits = {0, 1, 2, 3, 4}
    max_page_size = 3
    MaxDeletes = 2
SPECIFICATION MCSpec
INVARIANTS BootedIsConfigured LayersKept AnswersAboutRequest SecretsMasked PagesFaithful OptInHonoured
PROPERTIES FallbackRecovers
CHECK_DEADLOCK FALSE
