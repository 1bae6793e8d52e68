SPECIFICATION Spec
CONSTANTS
    Threads = {t1, t2}
    Connections = {c1, c2, c3}
    NoConn = NoConn
    Faults = TRUE
SYMMETRY ThreadAndConnectionSymmetry
INVARIANT ConnInv HoldsWhatItUses NeverOutOfStep
PROPERTY OnlyKnownLeaks
