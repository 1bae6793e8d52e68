SPECIFICATION Spec
CONSTANTS
    Users = {u1, u2, u3}
    Threads = {t1, t2}
    MaxCalls = 4
    Faults = TRUE
SYMMETRY UserAndThreadSymmetry
INVARIANT FriendsInv FriendsHear TwiceOnlyByRace
