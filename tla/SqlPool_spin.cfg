SPECIFICATION FairSpec
CONSTANTS
    Threads = {t1, t2}
    ConnNum = 2
    MaxHeld = 2
    NoThread = NoThread
PROPERTY GetReturnsWhenExhausted
