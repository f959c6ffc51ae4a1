\* All six jobs, no failing Redis command, one restart.
SPECIFICATION Spec
CONSTANTS
    Jobs <- AllJobs
    MaxRuns = 3
    MaxPct = 1
    MaxFaults = 0
    MaxRestarts = 1
INVARIANTS TypeOK OneActiveRun OutcomeVisible
PROPERTY RefinesScanJob
\* The bound on the number of scans stops the model.
CHECK_DEADLOCK FALSE
