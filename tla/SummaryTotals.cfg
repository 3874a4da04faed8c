SPECIFICATION Spec
CONSTANTS
    Scores <- SignedScores
    Floats <- ThreeBitFloats
    EvenFloats <- ThreeBitEvens
    MaxRecords = 3
INVARIANTS TypeOK ResultIdentities TotalsAreTheRecords
