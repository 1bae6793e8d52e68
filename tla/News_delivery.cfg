SPECIFICATION NewsSpec
CONSTANTS
    Users = {u1}
    Threads = {t1, t2}
    MaxBills = 2
    Limits = {}
    Faults = TRUE
INVARIANT NewsTypeOK
PROPERTY BillArrives DeletedBillGoes
