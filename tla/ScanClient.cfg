\* Two mounts, a press, another tab, a broken request or stream, an endpoint that forgets.
SPECIFICATION ClientSpec
CONSTANTS
    MaxMounts = 2
    MaxStarts = 1
    MaxOthers = 1
    MaxDrops = 1
    MaxForgets = 1
INVARIANTS ClientTypeOK NeverStranded DoneHasResult
PROPERTY ScanningEnds
\* The bounds stop the model.
CHECK_DEADLOCK FALSE
