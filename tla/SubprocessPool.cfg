SPECIFICATION Spec
CONSTANTS
    Workers = {w1, w2}
    Samples = {s1, s2}
    HasTimeout = TRUE
    Faults = {"start", "crash", "long"}
SYMMETRY PoolSymmetry
INVARIANTS TypeOK AnswerIsOwn ExclusiveUse
