CONSTANTS
    Threads = {t1, t2}
    Main = main
    Urls = {"u"}
    Queues = {"api_log", "mail"}
    MaxMade = 3
    MaxUses = 2
    MaxPending = 1
    Timeout = 2
    MaxClock = 3
    None = None
    Calls = {"a", "b", "c"}
    Mixes <- MCMixes
    MaxAttempts = 2
    FailMax = 2
    MaxRewrites = 1
    MaxResets = 1
SPECIFICATION MCSpec
INVARIANTS ObjectsAccountedFor DrainAllHonest AnswersTruthful AbsentNeverBlocks
CHECK_DEADLOCK FALSE
