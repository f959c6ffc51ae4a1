------------------------------ MODULE ScanJob ------------------------------
(***************************************************************************)
(* What a background scan endpoint promises its callers, whichever of the  *)
(* six jobs (scanner, analyzer, portfolio, swing, sectors, overnight) it   *)
(* belongs to: one scan at a time, every accepted start ends, and the      *)
(* result offered with "done" is the one of the scan that was started      *)
(* last.  Threads, Redis, expiry and restarts are the business of          *)
(* ScanTask, which implements this module.                                 *)
(***************************************************************************)
EXTENDS Naturals

CONSTANT MaxRuns    \* scans started in a behaviour, at most

VARIABLES
    status,         \* what the status endpoint reports
    latest,         \* the scan started last, 0 before the first
    shown           \* the scan whose result is offered, 0 when there is none

jobVars == <<status, latest, shown>>

Init ==
    /\ status = "idle"
    /\ latest = 0
    /\ shown = 0

\* A start is accepted whenever no scan is in progress.
Start ==
    /\ status # "scanning"
    /\ latest < MaxRuns
    /\ status' = "scanning"
    /\ latest' = latest + 1
    /\ shown' = 0

Succeed ==
    /\ status = "scanning"
    /\ status' = "done"
    /\ shown' = latest
    /\ UNCHANGED latest

Fail ==
    /\ status = "scanning"
    /\ status' = "error"
    /\ UNCHANGED <<latest, shown>>

\* Everything is forgotten: the state expires, or the process restarts.
Forget ==
    /\ status # "idle"
    /\ status' = "idle"
    /\ shown' = 0
    /\ UNCHANGED latest

\* Only the result is forgotten.
ForgetResult ==
    /\ status = "done"
    /\ shown' = 0
    /\ UNCHANGED <<status, latest>>

\* A result kept elsewhere is offered again after everything was forgotten.
Recall ==
    /\ status = "idle"
    /\ status' = "done"
    /\ shown' \in 1..latest
    /\ UNCHANGED latest

Next == Start \/ Succeed \/ Fail \/ Forget \/ ForgetResult \/ Recall

Ends == Succeed \/ Fail \/ Forget

SafeSpec == Init /\ [][Next]_jobVars

\* Every accepted scan ends, if only by being forgotten.
Spec == SafeSpec /\ WF_jobVars(Ends /\ status = "scanning")
=============================================================================
