\* One process, one ticker, days 0 to 2.
SPECIFICATION Spec
CONSTANTS
    Procs = {api}
    Universe = 1
    Hundred = 1
    Horizon = 2
    Keep = 1
    MinRows = 2
INVARIANT TableServes
