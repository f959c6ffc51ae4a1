\* A thread in each of two processes, a failing command, a restart.
SPECIFICATION Spec
CONSTANTS
    api = api
    worker = worker
    a1 = a1
    w1 = w1
    Procs = {api, worker}
    Threads = {a1, w1}
    Home <- HomeOf
    Second = 2
    Ttl = 2
    MaxBusy = 1
    MaxSets = 2
    MaxFaults = 1
    MaxRestarts = 1
SYMMETRY Mirror
INVARIANTS TypeOK ReadIsRegular ReadNotExpired
