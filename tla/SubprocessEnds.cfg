SPECIFICATION FairSpec
CONSTANTS
    Workers = {w1}
    Samples = {s1, s2}
    HasTimeout = TRUE
    Faults = {"crash"}
PROPERTIES EndedContextEndsCall StopFreesWorkers ImplementsGraderCalls
