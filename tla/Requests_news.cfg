SPECIFICATION Spec
CONSTANTS
    Users = {u1, u2}
    Threads = {t1, t2}
    MaxRequests = 1
    MaxLogs = 2
    MaxDirect = 1
    Faults = TRUE
SYMMETRY UserAndThreadSymmetry
INVARIANT NoRequestLost LoggedOnce RequestInv RequestsAnnounced AnswersAnnounced NewsInv
