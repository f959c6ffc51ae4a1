----------------------------- MODULE MCScanTask -----------------------------
(* Model checking ScanTask: all six jobs, three scans, one level of        *)
(* progress between 0 and 100.                                             *)
EXTENDS ScanTask

AllJobs == JobKinds
TaskStateJobs == {"scanner", "portfolio"}
=============================================================================
