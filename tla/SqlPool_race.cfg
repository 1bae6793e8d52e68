SPECIFICATION Spec
CONSTANTS
    Threads = {t1, t2}
    ConnNum = 3
    MaxHeld = 1
    NoThread = NoThread
INVARIANT ExhaustedOnlyByDemand
