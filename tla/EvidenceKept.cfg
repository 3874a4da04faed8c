SPECIFICATION Spec
CONSTANTS
    w1 = w1
    w2 = w2
    Workers = {w1, w2}
    Rows = 3
    FailFast = TRUE
    GraderTimeout = TRUE
    Namings <- OwnOrShared
    Oversizes <- NoneOrOne
    PeersTried = {"http_judge", "stdio_judge", "http_grader", "stdio_grader"}
    GraderCodes = {"timeout", "insufficient_evidence"}
    Faults = {"connection", "write", "mkdir", "log", "errors"}
SYMMETRY WorkerSymmetry
INVARIANTS TypeOK EvidenceIsKept OnlyFailuresAreKept RecorderIsBounded ArtifactsAreTrue VerdictsAreTrue AbandonedIsReported
PROPERTIES ImplementsLedger
