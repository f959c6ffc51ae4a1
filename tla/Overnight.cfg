\* Two processes, two scans and a check.
SPECIFICATION Spec
CONSTANTS
    api = api
    worker = worker
    t1 = t1
    t2 = t2
    Procs <- MCProcs
    Api = api
    Threads <- MCThreads
    Home <- MCHome
    Stocks = {S}
    Coins = {C}
    TradingDays <- MCDays
    MaxTime = 2
    MaxLog = 2
    MaxScans = 2
    MaxChecks = 2
INVARIANTS TypeOK LogIsHistory AloneNothingLost
PROPERTY OutcomesStay
\* The bounds stop the model.
CHECK_DEADLOCK FALSE
