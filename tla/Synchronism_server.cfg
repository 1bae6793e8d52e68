SPECIFICATION FairSpec
CONSTANTS
    Users = {u1, u2}
    ValidUsers = {u1}
    MaxCalls = 3
    Handlers = {h1}
    Absent = Absent
INVARIANT OneAcceptor NoDanglingEntry ContainersAgree SyncInv
PROPERTY ImplementsNewsStream ReapsOnlyCancelled EntryNotReplaced CancelledReaped FlaggedPushed
