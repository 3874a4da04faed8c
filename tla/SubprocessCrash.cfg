SPECIFICATION Spec
CONSTANTS
    Workers = {w1}
    Samples = {s1}
    HasTimeout = FALSE
    Faults = {}
INVARIANTS WatcherSurvives
