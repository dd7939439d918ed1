CONSTANTS
    Tools = {t1, t2}
    Reg = reg
    MaxCrashes = 1
SPECIFICATION Spec
INVARIANTS ReconnectServes
CHECK_DEADLOCK FALSE
