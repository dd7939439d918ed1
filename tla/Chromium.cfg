SPECIFICATION MCSpec
CONSTANTS
    Calls = {c1, c2}
    NoCall = NoCall
    Sessions = {root, page}
    Timed = {c1}
    Idempotent = {c2}
    MaxAttempts = 2
    MaxId = 2
    WriterCap = 1
    MaxRespawns = 2
    Window = 2
    Faults = {"crash", "bad_frame", "linger", "no_launch", "no_reattach"}
    MaxBrowsers = 3
    MaxTime = 2
    Agents = {"c1", "c2"}
    HISTORY_CAPACITY = 1
    CHANNEL_CAPACITY = 1
    Policies <- MCPolicies
    Texts = {"secret"}
    Trees <- MCTrees
    MaxCalls = 3
    MaxCopies = 1
    MaxPolicies = 1
    MaxEvents = 1
INVARIANTS
    NoOrphanWaiter NoStaleEntry OneFramePerAttempt RetriesExhausted OneChromiumPerProfile
    PolicyIsKept
PROPERTIES
    DrainFailsPending TimedCallsReturn   CallsReturn
CHECK_DEADLOCK FALSE
