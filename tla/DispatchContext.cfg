CONSTANTS
    Workers = {w1, w2}
    Sessions = {s1, s2}
    None = none
SPECIFICATION Spec
INVARIANT ContextIsOwn
