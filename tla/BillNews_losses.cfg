SPECIFICATION Spec
CONSTANTS
    Users = {u1, u2}
    Threads = {t1, t2}
    MaxBills = 2
    Limits = {1}
    Faults = TRUE
SYMMETRY UserAndThreadSymmetry
INVARIANT OnlyKnownLosses OnlyKnownStaleBills BillInv
