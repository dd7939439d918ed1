SPECIFICATION MCSpec
CONSTANTS
    Conns = {a, b}
    NoConn = NoConn
    MaxSessions = 1
    Behaviours = {"reattach", "unregister"}
    MaxSids = 2
    MaxTasks = 3
    MaxCount = 2
    MboxCap = 2
    Fetchers = {f1, f2}
    Listed = {"last_known"}
    Total = 2
    Entries = 1
    max_attempts = 2
    MaxDeaths = 1
INVARIANTS  OnlyWholeZips
PROPERTIES SessionsDrain 
CHECK_DEADLOCK FALSE
