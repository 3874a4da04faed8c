SPECIFICATION Spec
CONSTANTS
    Workers = {w1}
    Samples = {s1, s2}
    HasTimeout = TRUE
    Faults = {}
INVARIANTS FailedOnlyByChild
