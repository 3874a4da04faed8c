SPECIFICATION Spec
CONSTANTS
    w1 = w1
    Workers = {w1}
    Rows = 1
    FailFast = FALSE
    GraderTimeout = TRUE
    Namings <- OwnOrShared
    Oversizes <- NoneOrOne
    PeersTried = {"http_judge", "http_grader", "stdio_judge", "stdio_grader"}
    GraderCodes = {}
    Faults = {}
INVARIANTS CutIsReported
