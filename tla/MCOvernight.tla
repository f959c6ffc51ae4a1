---------------------------- MODULE MCOvernight -----------------------------
(* A thread in the API process and one in the worker; day 1 is closed.     *)
EXTENDS Overnight

CONSTANTS api, worker, t1, t2

MCProcs == {api, worker}
MCThreads == {t1, t2}
MCHome == [t \in MCThreads |-> IF t = t2 THEN worker ELSE api]
MCDays == {0, 2}
=============================================================================
