SPECIFICATION Spec
CONSTANTS
    Threads = {t1, t2}
    Names = {n1, n2, n3}
    MaxUsers = 3
    Nobody = Nobody
    NoAnswer = NoAnswer
    Faults = TRUE
SYMMETRY ThreadAndNameSymmetry
INVARIANT TypeOK SharedOnlyByRace AnswersOwner
