SPECIFICATION FairSpec
CONSTANTS
    Threads = {t1, t2}
    ConnNum = 3
    MaxHeld = 2
    NoThread = NoThread
INVARIANT ExclusiveLease NoLockLeak PoolInv
PROPERTY ImplementsConnectionPool GetReturnsIfFree
