SPECIFICATION Spec
CONSTANTS
    Calls = {c1, c2}
    NoCall = NoCall
    Sessions = {root, page}
    Timed = {}
    Idempotent = {}
    MaxAttempts = 1
    MaxId = 1
    WriterCap = 1
INVARIANTS RepliesReachTheirCaller
CHECK_DEADLOCK FALSE
