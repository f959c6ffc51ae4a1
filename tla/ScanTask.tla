------------------------------ MODULE ScanTask ------------------------------
(***************************************************************************)
(* One background scan endpoint of the API process: the start handler, the *)
(* thread that runs the scan, the progress tracker's pusher thread, the    *)
(* task state they share (TaskState: a Redis hash with a process-local     *)
(* dictionary behind it, or a plain module dictionary), expiry of the      *)
(* Redis keys, failing Redis commands and restarts of the process.         *)
(*                                                                         *)
(* The six endpoints share this structure; the job, chosen in Init, says   *)
(* where they differ.  Scans are numbered 1, 2, ... in the order in which  *)
(* they are accepted.  A result is the number of the scan that produced    *)
(* it, 0 when there is none.  Progress is one of a few levels: 0..MaxPct   *)
(* stand for the 0..99 of progress_pct, Full for the 100 of finish().      *)
(***************************************************************************)
EXTENDS Naturals

CONSTANTS
    Jobs,           \* the endpoints explored
    MaxRuns,        \* bound: scans accepted
    MaxPct,         \* bound: levels of progress_pct
    MaxFaults,      \* bound: Redis commands that fail
    MaxRestarts     \* bound: restarts of the API process

JobKinds == {"scanner", "analyzer", "portfolio", "swing", "sectors", "overnight"}

ASSUME JobsAssumption == Jobs \subseteq JobKinds
ASSUME BoundsAssumption ==
    /\ MaxRuns \in Nat
    /\ MaxPct \in Nat
    /\ MaxFaults \in Nat
    /\ MaxRestarts \in Nat

VARIABLES
    job,            \* the endpoint
    redis,          \* whether this process obtained a Redis client
    hash,           \* taskstate:<namespace> in Redis
    resKey,         \* taskresult:<namespace> in Redis
    mem,            \* the process-local dictionary
    cached,         \* <job>:last_result in the data cache
    started,        \* scans accepted so far
    pc,             \* where each scan's thread stands
    pct,            \* the tracker's _high_water, per scan
    alive,          \* whether the tracker's stop event is still clear
    pending,        \* what a pusher has computed and not yet written: {} or {p}
    faults,         \* Redis commands that have failed
    restarts        \* restarts so far

keys == <<hash, mem, faults>>               \* what TaskState.update writes
threads == <<pc, pct, alive, pending>>
vars == <<job, redis, hash, resKey, mem, cached, started,
          pc, pct, alive, pending, faults, restarts>>

Runs == 1..MaxRuns
Full == MaxPct + 1

Statuses == {"idle", "scanning", "done", "error"}
Fields == [set : BOOLEAN, status : Statuses, progress : 0..Full,
           error : BOOLEAN, result : 0..MaxRuns]

\* An absent hash or an empty dictionary reads as "idle", progress 0.
Blank == [set |-> FALSE, status |-> "idle", progress |-> 0,
          error |-> FALSE, result |-> 0]

----------------------------------------------------------------------------
(* How the endpoints differ.                                               *)

UsesTaskState == job \in {"scanner", "analyzer", "portfolio"}
Tracked == job # "overnight"                    \* has a ScanProgressTracker
StartClearsError == job \in {"portfolio", "overnight"}
KeepsLastResult == job # "analyzer"             \* writes <job>:last_result

----------------------------------------------------------------------------
(* The fields each update sets.                                            *)

StartFields(s) ==
    [s EXCEPT !.set = TRUE, !.status = "scanning", !.progress = 0, !.result = 0,
              !.error = IF StartClearsError THEN FALSE ELSE @]
BeginFields(s) == [s EXCEPT !.set = TRUE, !.status = "scanning", !.error = FALSE]
\* Mutant: a push re-asserts that the scan is running.
ProgressFieldAndStatus(s, p) ==
    [s EXCEPT !.set = TRUE, !.status = "scanning", !.progress = p]
ProgressField(s, p) == [s EXCEPT !.set = TRUE, !.progress = p]
DoneFields(s) == [s EXCEPT !.set = TRUE, !.status = "done"]
\* Mutant: the error handler forgets the text.
ErrorFieldsNoText(s) == [s EXCEPT !.set = TRUE, !.status = "error"]
ErrorFields(s) == [s EXCEPT !.set = TRUE, !.status = "error", !.error = TRUE]

(* TaskState.update: the hash when Redis answers, else the dictionary.  A  *)
(* command that fails may have taken effect.  Without a client (and for    *)
(* the jobs that keep a plain dictionary) the dictionary is all there is.  *)
RedisFault ==
    /\ redis
    /\ faults < MaxFaults
    /\ faults' = faults + 1

TwoRedisFaults ==
    /\ redis
    /\ faults + 1 < MaxFaults
    /\ faults' = faults + 2

Update(h, m) ==
    \/ /\ redis
       /\ hash' = h
       /\ UNCHANGED <<mem, faults>>
    \/ /\ ~redis
       /\ mem' = m
       /\ UNCHANGED <<hash, faults>>
    \/ /\ RedisFault
       /\ hash' \in {hash, h}
       /\ mem' = m

\* TaskState.get: the hash unless it is empty, else the dictionary.
View == IF redis /\ hash.set THEN hash ELSE mem

\* TaskState.get_result.
StoredResult == IF redis /\ resKey # 0 THEN resKey ELSE mem.result

\* The result the status and stream handlers offer with "done".
DoneResult ==
    CASE job = "analyzer" -> StoredResult
      [] job \in {"scanner", "portfolio"} ->
            IF View.result # 0 THEN View.result ELSE StoredResult
      [] OTHER -> mem.result

Shown == IF View.status = "done" THEN DoneResult ELSE 0

\* What the SSE generator yields next: when idle, the last result still cached.
StreamEvent ==
    IF View.status = "idle" /\ KeepsLastResult /\ cached # 0
    THEN [status |-> "done", result |-> cached]
    ELSE [status |-> View.status, result |-> Shown]

----------------------------------------------------------------------------
Init ==
    /\ job \in Jobs
    /\ redis \in IF UsesTaskState THEN BOOLEAN ELSE {FALSE}
    /\ hash = Blank
    /\ resKey = 0
    /\ mem = Blank
    /\ cached = 0
    /\ started = 0
    /\ pc = [r \in Runs |-> "none"]
    /\ pct = [r \in Runs |-> 0]
    /\ alive = [r \in Runs |-> FALSE]
    /\ pending = [r \in Runs |-> {}]
    /\ faults = 0
    /\ restarts = 0

\* Mutant: a start without the "already_scanning" guard.
StartHandlerUnguarded ==
    /\ started < MaxRuns
    /\ Update(StartFields(hash), StartFields(mem))
    /\ started' = started + 1
    /\ pc' = [pc EXCEPT ![started + 1] = "queued"]
    /\ UNCHANGED <<job, redis, resKey, cached, pct, alive, pending, restarts>>

(* The start handler runs on the event loop without awaiting between its   *)
(* read, its write and its submit (two handlers also hold a lock), so it   *)
(* is one step.  A failing read falls back to the dictionary; the write    *)
(* after it may fail as well.                                              *)
StartHandler ==
    /\ started < MaxRuns
    /\ \/ /\ View.status # "scanning"
          /\ Update(StartFields(hash), StartFields(mem))
       \/ /\ RedisFault
          /\ mem.status # "scanning"
          /\ hash' = StartFields(hash)
          /\ UNCHANGED mem
       \/ /\ TwoRedisFaults
          /\ mem.status # "scanning"
          /\ hash' \in {hash, StartFields(hash)}
          /\ mem' = StartFields(mem)
    /\ started' = started + 1
    /\ pc' = [pc EXCEPT ![started + 1] = "queued"]
    /\ UNCHANGED <<job, redis, resKey, cached, pct, alive, pending, restarts>>

\* The thread's first write; overnight also clears its progress here.
Begin(r) ==
    /\ pc[r] = "queued"
    /\ LET first(s) == IF Tracked THEN BeginFields(s)
                       ELSE ProgressField(BeginFields(s), 0)
       IN  Update(first(hash), first(mem))
    /\ pc' = [pc EXCEPT ![r] = "begun"]
    /\ UNCHANGED <<job, redis, resKey, cached, started, pct, alive, pending, restarts>>

(* start_phase and update_within_phase (overnight: _advance): progress is  *)
(* computed and written, and the pusher thread is started if none runs.    *)
Report(r) ==
    /\ \E p \in pct[r]..(IF Tracked THEN MaxPct ELSE Full) :
          /\ pct' = [pct EXCEPT ![r] = p]
          /\ Update(ProgressField(hash, p), ProgressField(mem, p))
    /\ alive' = [alive EXCEPT ![r] = Tracked]
    /\ UNCHANGED <<job, redis, resKey, cached, started, pending, restarts>>

EnterFirstPhase(r) ==
    /\ pc[r] = "begun"
    /\ pc' = [pc EXCEPT ![r] = "phase"]
    /\ Report(r)

Advance(r) ==
    /\ pc[r] = "phase"
    /\ UNCHANGED pc
    /\ Report(r)

(* tracker.finish(): the stop event is set, but the pusher is not joined.  *)
Finish(r) ==
    /\ pc[r] = "phase"
    /\ pc' = [pc EXCEPT ![r] = "finished"]
    /\ alive' = [alive EXCEPT ![r] = FALSE]
    /\ IF Tracked THEN Update(ProgressField(hash, Full), ProgressField(mem, Full))
                  ELSE UNCHANGED keys
    /\ UNCHANGED <<job, redis, resKey, cached, started, pct, pending, restarts>>

\* The portfolio build without candidates: an empty result, no finish().
LeaveEarly(r) ==
    /\ job = "portfolio"
    /\ pc[r] = "phase"
    /\ pc' = [pc EXCEPT ![r] = "early"]
    /\ UNCHANGED <<job, redis, hash, resKey, mem, cached, started,
                   pct, alive, pending, faults, restarts>>

(* An exception in the scan (or analyzer's and overnight's early return):  *)
(* the error is recorded and the thread ends, without finish().  Jobs that *)
(* keep a plain dictionary write the status and then the text.             *)
Fail(r) ==
    /\ pc[r] = "phase" \/ (job = "analyzer" /\ pc[r] = "finished")
    /\ IF UsesTaskState
       THEN /\ Update(ErrorFields(hash), ErrorFields(mem))
            /\ pc' = [pc EXCEPT ![r] = "failed"]
       ELSE /\ mem' = [mem EXCEPT !.status = "error"]
            /\ pc' = [pc EXCEPT ![r] = "failing"]
            /\ UNCHANGED <<hash, faults>>
    /\ UNCHANGED <<job, redis, resKey, cached, started, pct, alive, pending, restarts>>

FailText(r) ==
    /\ pc[r] = "failing"
    /\ mem' = [mem EXCEPT !.error = TRUE]
    /\ pc' = [pc EXCEPT ![r] = "failed"]
    /\ UNCHANGED <<job, redis, hash, resKey, cached, started,
                   pct, alive, pending, faults, restarts>>

\* Where a scan's thread goes once its outcome is published.
AfterPublish(at) ==
    IF at \in {"early", "earlyStored"} \/ ~KeepsLastResult THEN "ended" ELSE "reported"

\* Mutant: the fallback of set_result forgets the result.
MemDoneNoResult(r) == DoneFields(mem)

\* Mutant: the result is filed under the scan accepted last.
MemDoneOfLatest(r) == [DoneFields(mem) EXCEPT !.result = started]

\* set_result falling back to the dictionary: result and status in one lock.
MemDone(r) == [DoneFields(mem) EXCEPT !.result = r]

(* First half of set_result: SETEX of the result.  The dictionary of a job *)
(* without TaskState also gets its result before its status.               *)
StoreResult(r) ==
    /\ pc[r] \in {"finished", "early"}
    /\ LET stored == [pc EXCEPT ![r] = IF @ = "early" THEN "earlyStored" ELSE "stored"]
           done == [pc EXCEPT ![r] = AfterPublish(@)]
       IN  \/ /\ redis
              /\ resKey' = r
              /\ pc' = stored
              /\ UNCHANGED keys
           \/ /\ RedisFault
              /\ resKey' \in {resKey, r}
              /\ mem' = MemDone(r)
              /\ pc' = done
              /\ UNCHANGED hash
           \/ /\ ~redis /\ UsesTaskState
              /\ mem' = MemDone(r)
              /\ pc' = done
              /\ UNCHANGED <<hash, resKey, faults>>
           \/ /\ ~UsesTaskState
              /\ mem' = [mem EXCEPT !.result = r]
              /\ pc' = stored
              /\ UNCHANGED <<hash, resKey, faults>>
    /\ UNCHANGED <<job, redis, cached, started, pct, alive, pending, restarts>>

\* Second half: HSET of status "done".
Publish(r) ==
    /\ pc[r] \in {"stored", "earlyStored"}
    /\ pc' = [pc EXCEPT ![r] = AfterPublish(@)]
    /\ Update(DoneFields(hash), IF redis THEN MemDone(r) ELSE DoneFields(mem))
    /\ UNCHANGED <<job, redis, resKey, cached, started, pct, alive, pending, restarts>>

\* The thread's last act: the result also goes to the data cache.
KeepLastResult(r) ==
    /\ pc[r] = "reported"
    /\ cached' = r
    /\ pc' = [pc EXCEPT ![r] = "ended"]
    /\ UNCHANGED <<job, redis, hash, resKey, mem, started,
                   pct, alive, pending, faults, restarts>>

\* Mutant: progress_pct without its clamp at 99.
PusherComputeUnclamped(r) ==
    /\ alive[r]
    /\ pending[r] = {}
    /\ \E p \in pct[r]..Full :
          /\ pct' = [pct EXCEPT ![r] = p]
          /\ pending' = [pending EXCEPT ![r] = {p}]
    /\ UNCHANGED <<job, redis, hash, resKey, mem, cached, started,
                   pc, alive, faults, restarts>>

(* The pusher thread, every two seconds while the stop event is clear:     *)
(* compute the progress (synthetic ticks may raise it), then write it.     *)
PusherCompute(r) ==
    /\ alive[r]
    /\ pending[r] = {}
    /\ \E p \in pct[r]..MaxPct :
          /\ pct' = [pct EXCEPT ![r] = p]
          /\ pending' = [pending EXCEPT ![r] = {p}]
    /\ UNCHANGED <<job, redis, hash, resKey, mem, cached, started,
                   pc, alive, faults, restarts>>

PusherWrite(r) ==
    /\ \E p \in pending[r] : Update(ProgressField(hash, p), ProgressField(mem, p))
    /\ pending' = [pending EXCEPT ![r] = {}]
    /\ UNCHANGED <<job, redis, resKey, cached, started, pc, pct, alive, restarts>>

\* GET /recs-status of the sectors job: an idle state adopts the cached result.
RecsStatus ==
    /\ job = "sectors"
    /\ mem.status = "idle"
    /\ cached # 0
    /\ mem' = [mem EXCEPT !.status = "done", !.result = cached]
    /\ UNCHANGED <<job, redis, hash, resKey, cached, started,
                   threads, faults, restarts>>

----------------------------------------------------------------------------
(* The environment.                                                        *)

Idle(r) == pc[r] \in {"none", "failed", "ended", "killed"}

(* 3600 seconds pass with nothing but pushes: the result key expires, and  *)
(* so does the hash unless a pusher keeps refreshing it.                   *)
QuietHour ==
    /\ \A r \in Runs : Idle(r)
    /\ hash.set \/ resKey # 0
    /\ resKey' = 0
    /\ hash' = IF redis /\ \E r \in Runs : alive[r] THEN hash ELSE Blank
    /\ UNCHANGED <<job, redis, mem, cached, started, threads, faults, restarts>>

\* The data cache drops the last result (24 hours).
CacheExpires ==
    /\ cached # 0
    /\ cached' = 0
    /\ UNCHANGED <<job, redis, hash, resKey, mem, started, threads, faults, restarts>>

(* The API process dies and comes back: its threads and its dictionary are *)
(* lost, Redis keeps its keys, and so may the data cache.  Whether a Redis *)
(* client is obtained is decided anew.                                     *)
Restart ==
    /\ restarts < MaxRestarts
    /\ restarts' = restarts + 1
    /\ pc' = [r \in Runs |-> IF Idle(r) THEN pc[r] ELSE "killed"]
    /\ alive' = [r \in Runs |-> FALSE]
    /\ pending' = [r \in Runs |-> {}]
    /\ mem' = Blank
    /\ cached' \in {cached, 0}
    /\ \/ UNCHANGED <<redis, faults>>
       \/ /\ UsesTaskState
          /\ faults < MaxFaults
          /\ faults' = faults + 1
          /\ redis' = ~redis
    /\ UNCHANGED <<job, hash, resKey, started, pct>>

----------------------------------------------------------------------------
Conclude(r) == Finish(r) \/ LeaveEarly(r) \/ Fail(r)

Scan(r) ==
    \/ Begin(r) \/ EnterFirstPhase(r) \/ Advance(r) \/ Conclude(r) \/ FailText(r)
    \/ StoreResult(r) \/ Publish(r) \/ KeepLastResult(r)

Pusher(r) == PusherCompute(r) \/ PusherWrite(r)

Next ==
    \/ StartHandler
    \/ \E r \in Runs : Scan(r) \/ Pusher(r)
    \/ RecsStatus
    \/ QuietHour
    \/ CacheExpires
    \/ Restart

(* The scheduler runs every thread, every phase of a scan ends (its calls  *)
(* have timeouts), and time passes.  Nothing obliges a user to start a     *)
(* scan, a process to restart, or a phase to report progress.              *)
Fairness ==
    /\ \A r \in Runs :
          /\ WF_vars(Begin(r)) /\ WF_vars(EnterFirstPhase(r)) /\ WF_vars(Conclude(r))
          /\ WF_vars(FailText(r)) /\ WF_vars(StoreResult(r)) /\ WF_vars(Publish(r))
          /\ WF_vars(KeepLastResult(r))
    /\ WF_vars(QuietHour)

SafeSpec == Init /\ [][Next]_vars
Spec == SafeSpec /\ Fairness

----------------------------------------------------------------------------
(* Properties.                                                             *)

PcValues ==
    {"none", "queued", "begun", "phase", "finished", "early", "stored",
     "earlyStored", "failing", "failed", "reported", "ended", "killed"}

TypeOK ==
    /\ job \in Jobs
    /\ redis \in BOOLEAN
    /\ ~UsesTaskState => ~redis
    /\ hash \in Fields
    /\ resKey \in 0..MaxRuns
    /\ mem \in Fields
    /\ cached \in 0..MaxRuns
    /\ started \in 0..MaxRuns
    /\ pc \in [Runs -> PcValues]
    /\ pct \in [Runs -> 0..Full]
    /\ alive \in [Runs -> BOOLEAN]
    /\ pending \in [Runs -> SUBSET (0..MaxPct)]
    /\ faults \in 0..MaxFaults
    /\ restarts \in 0..MaxRestarts

\* A scan that was accepted and has not yet reported its outcome.
Active(r) ==
    pc[r] \in {"queued", "begun", "phase", "finished", "early", "stored", "earlyStored"}

(* The guard of the start handlers (status = "scanning") admits one scan   *)
(* at a time: an unreported scan is always the one accepted last, and its  *)
(* status is visible, so no second thread writes the same state, whatever  *)
(* pushers of failed scans, restarts and expiry do in between.             *)
OneActiveRun ==
    \A r \in Runs : Active(r) => r = started /\ View.status = "scanning"

(* A scan that has reported its outcome is never shown as still running:   *)
(* the start handler would refuse every later scan.                        *)
OutcomeVisible ==
    started # 0 /\ pc[started] \in {"failing", "failed", "reported", "ended"}
        => View.status # "scanning"

(* The jobs on TaskState publish the status "error" and its text in one    *)
(* HSET: no reader sees an error without text, also after a scan before.   *)
ErrorHasText == UsesTaskState /\ View.status = "error" => View.error

(* Whatever commands fail, and even when a failing read has let two scans  *)
(* run at once: a result offered by the stream was stored by the scan it   *)
(* is the result of: never one that failed, never before it was ready.     *)
OfferedResultWasStored ==
    LET r == StreamEvent.result
    IN  r # 0 => pc[r] \in {"stored", "earlyStored", "reported", "ended", "killed"}

(* The endpoint implements its abstract specification: one scan at a time, *)
(* the result offered is the latest scan's, and every scan ends.           *)
Abs == INSTANCE ScanJob WITH
            status <- View.status, latest <- started, shown <- Shown
RefinesScanJob == Abs!Spec
=============================================================================
