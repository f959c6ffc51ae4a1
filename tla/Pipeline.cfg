\* Two threads; no bound on the jobs, the requests or the time.
SPECIFICATION Spec
CONSTANTS
    api = api
    worker = worker
    t1 = t1
    t2 = t2
    Procs <- MCProcs
    Api = api
    Threads <- MCThreads
    Homes <- MCHomes
    NoThread = NoThread
    Views = {"scanner"}
    Texts <- MCTexts
    TtlFast = 1
    TtlMedium = 2
    TtlDaily = 3
    LockWait = 1
    MaxBusy = 1
    MaxAge = 6
INVARIANTS TypeOK ServedAgeBounded LockHolderWorks FirstTextStandsForAll
SYMMETRY MCSymmetry
