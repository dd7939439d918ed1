SPECIFICATION Spec
CONSTANTS
    Tools = {t1, t2}
    Reg = reg
    MaxCrashes = 1
INVARIANTS RunsAtMostOnce
 
CHECK_DEADLOCK FALSE
