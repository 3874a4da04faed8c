SPECIFICATION FairSpec
CONSTANTS
    Workers = {w1, w2}
    MaxRows = 3
    FailFast = TRUE
    GraderTimeout = FALSE
    GraderMay = {"success", "fail", "canceled"}
    CallerMay = {"canceled"}
    Faults = {"write", "dataset", "spurious"}
PROPERTIES StopEndsRun
