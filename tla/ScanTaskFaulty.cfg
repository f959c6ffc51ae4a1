\* The jobs on TaskState, with two failing Redis commands.
SPECIFICATION SafeSpec
CONSTANTS
    Jobs <- TaskStateJobs
    MaxRuns = 2
    MaxPct = 0
    MaxFaults = 2
    MaxRestarts = 1
INVARIANTS ErrorHasText OfferedResultWasStored
\* The bound on the number of scans stops the model.
CHECK_DEADLOCK FALSE
