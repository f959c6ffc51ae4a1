\* Two processes, two tickers of which one is among the first hundred, days 0 to 2.
SPECIFICATION Spec
CONSTANTS
    Procs = {api, worker}
    Universe = 2
    Hundred = 1
    Horizon = 2
    Keep = 1
    MinRows = 2
SYMMETRY MCSymmetry
INVARIANTS
    TypeOK
    RowsOfCompletedRuns
    NothingOnlyAfterAll
