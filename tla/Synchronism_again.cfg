SPECIFICATION FairSpec
CONSTANTS
    Users = {u1}
    ValidUsers = {u1}
    MaxCalls = 3
    Handlers = {h1}
    Absent = Absent
PROPERTY OpenStreamRegistered
