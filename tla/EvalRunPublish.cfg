SPECIFICATION Spec
CONSTANTS
    p = p
    q = q
    a = a
    b = b
    Runs = {p, q}
    Ids = {a, b}
    SameIdOverlaps = FALSE
    Targets = {"absent", "empty", "full"}
    MaxEdits = 1
    Faults = {"check", "runtime", "output", "remove", "kill"}
SYMMETRY RunSymmetry
INVARIANTS TypeOK NoLitter
PROPERTIES ImplementsPublication
