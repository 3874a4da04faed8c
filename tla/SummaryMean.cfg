SPECIFICATION Spec
CONSTANTS
    Scores = {14}
    Floats <- FourBitFloats
    EvenFloats <- FourBitEvens
    MaxRecords = 3
INVARIANTS ResultIsAccepted
