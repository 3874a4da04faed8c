SPECIFICATION Spec
CONSTANTS
    Workers = {w1, w2}
    MaxRows = 4
    FailFast = TRUE
    GraderTimeout = TRUE
    GraderMay = {"success", "fail", "error", "deadline", "canceled"}
    CallerMay = {"canceled", "deadline"}
    Faults = {"write", "dataset"}
SYMMETRY WorkerSymmetry
INVARIANTS TypeOK IInv OneRecordPerRow NoSendAfterClose NoLostRows ReasonIsTrue FailFastOvershoot OvertakesBounded
PROPERTIES EvaluatedIsKept ImplementsLedger
