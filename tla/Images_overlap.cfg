SPECIFICATION Spec
CONSTANTS
    Threads = {t1, t2, t3}
    Names = {n1}
    Images = {i1, i2, i3}
    Long = {i1, i2}
    Nothing = Nothing
    Zeros = Zeros
    Garbage = Garbage
    Faults = TRUE
SYMMETRY ThreadAndImageSymmetry
INVARIANT ImageInv StoredWhole SentWhole
