SPECIFICATION RecoverySpec
CONSTANTS
    MaxRespawns = 3
    Window = 2
    Faults = {}
    MaxBrowsers = 3
    MaxTime = 2
INVARIANTS NoRespawnAfterTeardown
CHECK_DEADLOCK FALSE
