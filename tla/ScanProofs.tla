----------------------------- MODULE ScanProofs -----------------------------
(***************************************************************************)
(* Proofs about the two sides of a scan, for any bounds.  The endpoint     *)
(* (ScanTask), for any set of jobs: the types whatever Redis does, without *)
(* failing Redis commands the guarantees of the start guard, and with them *)
(* the texts of errors and the origin of what is offered.  The page        *)
(* (ScanClient), for any number of mounts, presses, scans of other tabs,   *)
(* lost requests, broken streams and forgotten results: its safety.        *)
(***************************************************************************)
EXTENDS ScanTask, ScanClient, TLAPS

(* Every field update keeps a record of fields a record of fields.         *)
LEMMA UpdateTypes ==
    ASSUME NEW s \in Fields, NEW p \in 0..Full, NEW n \in 0..MaxRuns
    PROVE  /\ StartFields(s) \in Fields
           /\ BeginFields(s) \in Fields
           /\ ProgressField(s, p) \in Fields
           /\ DoneFields(s) \in Fields
           /\ ErrorFields(s) \in Fields
           /\ [s EXCEPT !.status = "error"] \in Fields
           /\ [s EXCEPT !.error = TRUE] \in Fields
           /\ [s EXCEPT !.result = n] \in Fields
           /\ [s EXCEPT !.status = "done", !.result = n] \in Fields
<1>1. 0 \in 0..Full /\ 0 \in 0..MaxRuns
  BY BoundsAssumption DEF Full
<1>2. QED
  BY <1>1 DEF Fields, Statuses, StartFields, BeginFields, ProgressField,
              DoneFields, ErrorFields

LEMMA BlankType == Blank \in Fields
  BY BoundsAssumption DEF Blank, Fields, Statuses, Full

(* TaskState.update keeps the types of what it writes.                     *)
LEMMA UpdateKeepsTypes ==
    ASSUME TypeOK, NEW h \in Fields, NEW m \in Fields, Update(h, m)
    PROVE  hash' \in Fields /\ mem' \in Fields /\ faults' \in 0..MaxFaults
  BY BoundsAssumption DEF TypeOK, Update, RedisFault

(* Type correctness is kept by every step.                                 *)
LEMMA TypeStep == TypeOK /\ [Next]_vars => TypeOK'
<1> SUFFICES ASSUME TypeOK, [Next]_vars PROVE TypeOK'
  OBVIOUS
<1> USE BoundsAssumption
<1>b. /\ Full \in Nat /\ MaxPct < Full
      /\ 0 \in 0..Full /\ 0 \in 0..MaxRuns
  BY DEF Full
<1>1. CASE StartHandler
  <2>1. started + 1 \in Runs /\ started' \in 0..MaxRuns
    BY <1>1 DEF StartHandler, TypeOK, Runs
  <2>2. StartFields(hash) \in Fields /\ StartFields(mem) \in Fields
    BY <1>b, UpdateTypes DEF TypeOK
  <2>3. hash' \in Fields /\ mem' \in Fields /\ faults' \in 0..MaxFaults
    <3>1. CASE Update(StartFields(hash), StartFields(mem))
      BY <3>1, <2>2, UpdateKeepsTypes
    <3>2. CASE RedisFault /\ hash' = StartFields(hash) /\ UNCHANGED mem
      BY <3>2, <2>2 DEF RedisFault, TypeOK
    <3>3. CASE /\ TwoRedisFaults /\ mem' = StartFields(mem)
               /\ hash' \in {hash, StartFields(hash)}
      BY <3>3, <2>2, BoundsAssumption DEF TwoRedisFaults, TypeOK
    <3>4. QED
      BY <3>1, <3>2, <3>3, <1>1 DEF StartHandler
  <2>4. pc' \in [Runs -> PcValues]
    BY <2>1, <1>1 DEF StartHandler, TypeOK, PcValues
  <2>5. QED
    BY <1>1, <2>1, <2>3, <2>4 DEF StartHandler, TypeOK, UsesTaskState, PcValues
<1>2. ASSUME NEW r \in Runs, Begin(r) PROVE TypeOK'
  <2>1. /\ BeginFields(hash) \in Fields /\ BeginFields(mem) \in Fields
        /\ ProgressField(BeginFields(hash), 0) \in Fields
        /\ ProgressField(BeginFields(mem), 0) \in Fields
    <3>1. BeginFields(hash) \in Fields /\ BeginFields(mem) \in Fields
      BY <1>b, UpdateTypes DEF TypeOK
    <3>2. QED
      BY <1>b, <3>1, UpdateTypes
  <2>2. hash' \in Fields /\ mem' \in Fields /\ faults' \in 0..MaxFaults
    <3>1. CASE Tracked
      BY <1>2, <2>1, <3>1, UpdateKeepsTypes DEF Begin
    <3>2. CASE ~Tracked
      BY <1>2, <2>1, <3>2, UpdateKeepsTypes DEF Begin
    <3>3. QED
      BY <3>1, <3>2
  <2>3. QED
    BY <1>2, <2>2 DEF Begin, TypeOK, UsesTaskState, PcValues
<1>3. ASSUME NEW r \in Runs, Report(r), pc' \in [Runs -> PcValues] PROVE TypeOK'
  <2>1. PICK p \in pct[r]..(IF Tracked THEN MaxPct ELSE Full) :
            /\ pct' = [pct EXCEPT ![r] = p]
            /\ Update(ProgressField(hash, p), ProgressField(mem, p))
    BY <1>3 DEF Report
  <2>2. p \in 0..Full
    BY <2>1, <1>b DEF TypeOK, Full
  <2>3. hash' \in Fields /\ mem' \in Fields /\ faults' \in 0..MaxFaults
    <3>1. ProgressField(hash, p) \in Fields /\ ProgressField(mem, p) \in Fields
      BY <1>b, <2>2, UpdateTypes DEF TypeOK
    <3>2. QED
      BY <2>1, <3>1, UpdateKeepsTypes
  <2>4. QED
    BY <1>3, <2>1, <2>2, <2>3 DEF Report, TypeOK, UsesTaskState, Tracked
<1>4. ASSUME NEW r \in Runs, EnterFirstPhase(r) PROVE TypeOK'
  <2>1. Report(r)
    BY <1>4 DEF EnterFirstPhase
  <2>2. pc' \in [Runs -> PcValues]
    BY <1>4 DEF EnterFirstPhase, TypeOK, PcValues
  <2>3. QED
    BY <2>1, <2>2, <1>3
<1>5. ASSUME NEW r \in Runs, Advance(r) PROVE TypeOK'
  BY <1>5, <1>3 DEF Advance, TypeOK
<1>6. ASSUME NEW r \in Runs, Finish(r) PROVE TypeOK'
  <2>1. /\ ProgressField(hash, Full) \in Fields
        /\ ProgressField(mem, Full) \in Fields
    <3>1. Full \in 0..Full
      BY <1>b
    <3>2. QED
      BY <1>b, <3>1, UpdateTypes DEF TypeOK
  <2>2. hash' \in Fields /\ mem' \in Fields /\ faults' \in 0..MaxFaults
    <3>1. CASE Tracked
      BY <1>6, <2>1, <3>1, UpdateKeepsTypes DEF Finish
    <3>2. CASE ~Tracked
      BY <1>6, <3>2 DEF Finish, keys, TypeOK
    <3>3. QED
      BY <3>1, <3>2
  <2>3. QED
    BY <1>6, <2>2 DEF Finish, TypeOK, PcValues, UsesTaskState
<1>7. ASSUME NEW r \in Runs, LeaveEarly(r) PROVE TypeOK'
  BY <1>7 DEF LeaveEarly, TypeOK, PcValues, UsesTaskState
<1>8. ASSUME NEW r \in Runs, Fail(r) PROVE TypeOK'
  <2>1. /\ ErrorFields(hash) \in Fields
        /\ ErrorFields(mem) \in Fields
        /\ [mem EXCEPT !.status = "error"] \in Fields
    BY <1>b, UpdateTypes DEF TypeOK
  <2>2. hash' \in Fields /\ mem' \in Fields /\ faults' \in 0..MaxFaults
    <3>1. CASE UsesTaskState
      BY <1>8, <2>1, <3>1, UpdateKeepsTypes DEF Fail
    <3>2. CASE ~UsesTaskState
      BY <1>8, <2>1, <3>2 DEF Fail, TypeOK
    <3>3. QED
      BY <3>1, <3>2
  <2>3. pc' \in [Runs -> PcValues]
    BY <1>8 DEF Fail, TypeOK, PcValues
  <2>4. QED
    BY <1>8, <2>2, <2>3 DEF Fail, TypeOK, UsesTaskState
<1>9. ASSUME NEW r \in Runs, FailText(r) PROVE TypeOK'
  <2>1. mem' \in Fields
    BY <1>9, <1>b, UpdateTypes DEF FailText, TypeOK
  <2>2. QED
    BY <1>9, <2>1 DEF FailText, TypeOK, PcValues, UsesTaskState
<1>10. ASSUME NEW r \in Runs PROVE MemDone(r) \in Fields
  <2>1. r \in 0..MaxRuns
    BY DEF Runs
  <2>2. MemDone(r) = [mem EXCEPT !.set = TRUE, !.status = "done", !.result = r]
    BY DEF MemDone, DoneFields, TypeOK, Fields
  <2>3. QED
    BY <2>1, <2>2 DEF TypeOK, Fields, Statuses
<1>11. ASSUME NEW r \in Runs, StoreResult(r) PROVE TypeOK'
  <2>1. r \in 0..MaxRuns
    BY DEF Runs
  <2>2. [mem EXCEPT !.result = r] \in Fields
    BY <1>b, <2>1, UpdateTypes DEF TypeOK
  <2>3. hash' \in Fields /\ mem' \in Fields /\ faults' \in 0..MaxFaults
    BY <1>11, <1>10, <2>2 DEF StoreResult, TypeOK, keys, RedisFault
  <2>4. resKey' \in 0..MaxRuns
    BY <1>11, <2>1 DEF StoreResult, TypeOK
  <2>5. AfterPublish(pc[r]) \in PcValues
    BY DEF AfterPublish, PcValues
  <2>6. pc' \in [Runs -> PcValues]
    BY <1>11, <2>5 DEF StoreResult, TypeOK, PcValues
  <2>7. QED
    BY <1>11, <2>3, <2>4, <2>6 DEF StoreResult, TypeOK, UsesTaskState
<1>12. ASSUME NEW r \in Runs, Publish(r) PROVE TypeOK'
  <2>1. DoneFields(hash) \in Fields /\ DoneFields(mem) \in Fields
    BY <1>b, UpdateTypes DEF TypeOK
  <2>2. (IF redis THEN MemDone(r) ELSE DoneFields(mem)) \in Fields
    BY <1>10, <2>1
  <2>3. hash' \in Fields /\ mem' \in Fields /\ faults' \in 0..MaxFaults
    BY <1>12, <2>1, <2>2, UpdateKeepsTypes DEF Publish
  <2>4. AfterPublish(pc[r]) \in PcValues
    BY DEF AfterPublish, PcValues
  <2>5. QED
    BY <1>12, <2>3, <2>4 DEF Publish, TypeOK, UsesTaskState
<1>13. ASSUME NEW r \in Runs, KeepLastResult(r) PROVE TypeOK'
  BY <1>13 DEF KeepLastResult, TypeOK, PcValues, Runs, UsesTaskState
<1>14. ASSUME NEW r \in Runs, PusherCompute(r) PROVE TypeOK'
  <2>1. PICK p \in pct[r]..MaxPct :
            /\ pct' = [pct EXCEPT ![r] = p]
            /\ pending' = [pending EXCEPT ![r] = {p}]
    BY <1>14 DEF PusherCompute
  <2>2. p \in 0..MaxPct /\ p \in 0..Full
    BY <2>1, <1>b DEF TypeOK, Full
  <2>3. QED
    BY <1>14, <2>1, <2>2 DEF PusherCompute, TypeOK, UsesTaskState
<1>15. ASSUME NEW r \in Runs, PusherWrite(r) PROVE TypeOK'
  <2>1. PICK p \in pending[r] : Update(ProgressField(hash, p), ProgressField(mem, p))
    BY <1>15 DEF PusherWrite
  <2>2. p \in 0..Full
    BY <2>1, <1>b DEF TypeOK, Full
  <2>3. ProgressField(hash, p) \in Fields /\ ProgressField(mem, p) \in Fields
    BY <1>b, <2>2, UpdateTypes DEF TypeOK
  <2>4. hash' \in Fields /\ mem' \in Fields /\ faults' \in 0..MaxFaults
    BY <2>1, <2>3, UpdateKeepsTypes
  <2>5. QED
    BY <1>15, <2>4 DEF PusherWrite, TypeOK, UsesTaskState
<1>16. CASE RecsStatus
  <2>1. mem' \in Fields
    BY <1>16, <1>b, UpdateTypes DEF RecsStatus, TypeOK
  <2>2. QED
    BY <1>16, <2>1 DEF RecsStatus, TypeOK, threads, UsesTaskState
<1>17. CASE QuietHour
  BY <1>17, <1>b, BlankType DEF QuietHour, TypeOK, threads, UsesTaskState
<1>18. CASE CacheExpires
  BY <1>18, <1>b DEF CacheExpires, TypeOK, threads, UsesTaskState
<1>19. CASE Restart
  <2>1. pc' \in [Runs -> PcValues]
    BY <1>19 DEF Restart, TypeOK, PcValues
  <2>2. /\ restarts' \in 0..MaxRestarts
        /\ cached' \in 0..MaxRuns
        /\ faults' \in 0..MaxFaults
    BY <1>19, <1>b DEF Restart, TypeOK
  <2>3. redis' \in BOOLEAN
    BY <1>19 DEF Restart, TypeOK
  <2>4. ~UsesTaskState => ~redis'
    BY <1>19 DEF Restart, TypeOK
  <2>5. QED
    BY <1>19, <2>1, <2>2, <2>3, <2>4, BlankType DEF Restart, TypeOK, UsesTaskState
<1>20. CASE UNCHANGED vars
  BY <1>20 DEF vars, TypeOK, UsesTaskState
<1>21. QED
  BY <1>1, <1>2, <1>4, <1>5, <1>6, <1>7, <1>8, <1>9, <1>11, <1>12, <1>13, <1>14,
     <1>15, <1>16, <1>17, <1>18, <1>19, <1>20
     DEF Next, Scan, Conclude, Pusher

(* Whatever the jobs, the bounds and the behaviour of Redis, every         *)
(* variable keeps its type: a progress between 0 and 100, a known status.  *)
THEOREM TypesCorrect == SafeSpec => []TypeOK
<1>1. Init => TypeOK
  <2> SUFFICES ASSUME Init PROVE TypeOK
    OBVIOUS
  <2>1. 0 \in 0..MaxRuns /\ 0 \in 0..Full /\ 0 \in 0..MaxFaults /\ 0 \in 0..MaxRestarts
    BY BoundsAssumption DEF Full
  <2>2. QED
    BY <2>1, BlankType DEF Init, TypeOK, PcValues
<1>2. QED
  BY <1>1, TypeStep, PTL DEF SafeSpec

----------------------------------------------------------------------------
(* Without failing Redis commands.                                         *)

(* The inductive invariant behind the guarantees of the start guard.       *)

\* Redis and the dictionary are never both in use.
Placement ==
    /\ redis => mem = Blank
    /\ ~redis => hash = Blank /\ resKey = 0
    /\ ~hash.set => hash = Blank
    /\ hash.result = 0

\* Scans are numbered in the order in which they were accepted.
Numbering == \A r \in Runs : pc[r] = "none" <=> r > started

\* A scan about to publish "done" has stored its own result.
ResultStored ==
    \A r \in Runs : pc[r] \in {"stored", "earlyStored"}
        => IF redis THEN resKey = r ELSE mem.result = r

\* Early exits, "failing" and the data cache belong to the jobs that have them.
PerJob ==
    /\ \A r \in Runs : pc[r] \in {"stored", "earlyStored"} /\ UsesTaskState => redis
    /\ \A r \in Runs : pc[r] = "failing" => ~UsesTaskState

IInv ==
    /\ TypeOK
    /\ Placement
    /\ Numbering
    /\ ResultStored
    /\ PerJob
    /\ cached <= started
    /\ OneActiveRun
    /\ OutcomeVisible
    /\ ErrorHasText

(* What each update leaves in the fields the invariant speaks of.          *)
LEMMA FieldValues ==
    ASSUME NEW s \in Fields, NEW p \in 0..Full
    PROVE  /\ LET t == StartFields(s)
              IN  t.set /\ t.status = "scanning" /\ t.result = 0
           /\ LET t == BeginFields(s)
              IN  t.set /\ t.status = "scanning" /\ t.result = s.result
           /\ LET t == ProgressField(s, p)
              IN  /\ t.set /\ t.status = s.status
                  /\ t.error = s.error /\ t.result = s.result
           /\ LET t == DoneFields(s)
              IN  t.set /\ t.status = "done" /\ t.result = s.result
           /\ LET t == ErrorFields(s)
              IN  t.set /\ t.status = "error" /\ t.error /\ t.result = s.result
  BY DEF Fields, StartFields, BeginFields, ProgressField, DoneFields, ErrorFields

(* Without failing commands one of the two places holds the state.         *)
LEMMA OnePlace ==
    ASSUME TypeOK, Placement
    PROVE  View = IF redis THEN hash ELSE mem
  BY DEF TypeOK, Placement, View

(* ... and an update writes there and nowhere else.                        *)
LEMMA UpdateInPlace ==
    ASSUME TypeOK, Placement, MaxFaults = 0,
           NEW h \in Fields, NEW m \in Fields, Update(h, m),
           h.set, h.result = 0, redis' = redis, resKey' = resKey
    PROVE  /\ Placement'
           /\ View' = IF redis THEN h ELSE m
           /\ redis => hash' = h /\ mem' = mem
           /\ ~redis => hash' = hash /\ mem' = m
           /\ faults' = faults
<1>1. ~RedisFault
  BY DEF RedisFault, TypeOK
<1>2. CASE redis /\ hash' = h /\ UNCHANGED <<mem, faults>>
  BY <1>2 DEF Placement, View
<1>3. CASE ~redis /\ mem' = m /\ UNCHANGED <<hash, faults>>
  BY <1>3 DEF Placement, View
<1>4. QED
  BY <1>1, <1>2, <1>3 DEF Update

(* A push, or a report of progress, disturbs neither status nor result.    *)
LEMMA PushInPlace ==
    ASSUME TypeOK, Placement, MaxFaults = 0, NEW p \in 0..Full,
           Update(ProgressField(hash, p), ProgressField(mem, p)),
           redis' = redis, resKey' = resKey
    PROVE  /\ Placement'
           /\ View'.status = View.status
           /\ View'.error = View.error
           /\ mem'.result = mem.result
<1>1. hash \in Fields /\ mem \in Fields /\ 0 \in 0..MaxRuns
  BY BoundsAssumption DEF TypeOK
<1>2. ProgressField(hash, p) \in Fields /\ ProgressField(mem, p) \in Fields
  BY <1>1, UpdateTypes
<1>3. /\ ProgressField(hash, p).set
      /\ ProgressField(hash, p).result = 0
      /\ ProgressField(hash, p).status = hash.status
      /\ ProgressField(hash, p).error = hash.error
      /\ ProgressField(mem, p).status = mem.status
      /\ ProgressField(mem, p).error = mem.error
      /\ ProgressField(mem, p).result = mem.result
  BY <1>1, FieldValues DEF Placement
<1>4. /\ Placement'
      /\ View' = IF redis THEN ProgressField(hash, p) ELSE ProgressField(mem, p)
      /\ redis => mem' = mem
      /\ ~redis => mem' = ProgressField(mem, p)
  BY <1>2, <1>3, UpdateInPlace
<1>5. QED
  BY <1>3, <1>4, OnePlace

(* No two scans are unreported at once.                                    *)
LEMMA OnlyOne ==
    ASSUME IInv, NEW r \in Runs, Active(r)
    PROVE  /\ r = started
           /\ View.status = "scanning"
           /\ \A q \in Runs : q # r => ~Active(q)
  BY DEF IInv, OneActiveRun

(* The step of a thread that reports progress, starts a phase or finishes: *)
(* it stays the one unreported scan.                                       *)
LEMMA ReportStep ==
    ASSUME IInv, TypeOK', MaxFaults = 0, NEW r \in Runs, NEW x,
           Active(r), pc[r] \notin {"stored", "earlyStored"},
           x \in {"phase", "finished", "early"}, pc' = [pc EXCEPT ![r] = x],
           Placement', View'.status = View.status, View'.error = View.error,
           UNCHANGED <<job, redis, cached, started>>
    PROVE  IInv'
<1>1. r = started /\ \A q \in Runs : q # r => ~Active(q)
  BY OnlyOne
<1>2. pc'[r] = x /\ \A q \in Runs : q # r => pc'[q] = pc[q]
  BY DEF IInv, TypeOK
<1>3. Numbering'
  BY <1>2 DEF IInv, Numbering, Active
<1>4. ResultStored' /\ PerJob'
  BY <1>1, <1>2 DEF IInv, ResultStored, PerJob, Active, UsesTaskState
<1>5. OneActiveRun' /\ OutcomeVisible'
  BY <1>1, <1>2, OnlyOne DEF OneActiveRun, OutcomeVisible, Active
<1>6. ErrorHasText'
  BY DEF IInv, ErrorHasText, UsesTaskState
<1>7. QED
  BY <1>3, <1>4, <1>5, <1>6 DEF IInv

(* The step of a thread that ends the scan: its outcome becomes visible.   *)
LEMMA OutcomeStep ==
    ASSUME IInv, TypeOK', MaxFaults = 0, NEW r \in Runs, NEW x,
           Active(r), x \in {"failing", "failed", "reported", "ended"},
           x = "failing" => ~UsesTaskState,
           pc' = [pc EXCEPT ![r] = x],
           Placement', View'.status \in {"done", "error"}, ErrorHasText',
           UNCHANGED <<job, redis, cached, started>>
    PROVE  IInv'
<1>1. r = started /\ \A q \in Runs : q # r => ~Active(q)
  BY OnlyOne
<1>2. pc'[r] = x /\ \A q \in Runs : q # r => pc'[q] = pc[q]
  BY DEF IInv, TypeOK
<1>3. Numbering'
  BY <1>2 DEF IInv, Numbering, Active
<1>4. ResultStored' /\ PerJob'
  BY <1>1, <1>2 DEF IInv, ResultStored, PerJob, Active, UsesTaskState
<1>5. OneActiveRun' /\ OutcomeVisible'
  BY <1>1, <1>2 DEF OneActiveRun, OutcomeVisible, Active
<1>6. QED
  BY <1>3, <1>4, <1>5 DEF IInv

(* A step that moves no thread and no result, and keeps what is visible.   *)
LEMMA QuietStep ==
    ASSUME IInv, TypeOK', Placement', pc' = pc,
           View'.status = View.status, View'.error = View.error,
           cached' <= started, resKey' = resKey, mem'.result = mem.result,
           UNCHANGED <<job, redis, started>>
    PROVE  IInv'
<1>1. Numbering' /\ ResultStored' /\ PerJob'
  BY DEF IInv, Numbering, ResultStored, PerJob, UsesTaskState
<1>2. OneActiveRun' /\ OutcomeVisible' /\ ErrorHasText'
  BY DEF IInv, OneActiveRun, OutcomeVisible, ErrorHasText, Active, UsesTaskState
<1>3. QED
  BY <1>1, <1>2 DEF IInv

(* Every step keeps the invariant.                                         *)
LEMMA IInvStep ==
    ASSUME MaxFaults = 0, IInv, [Next]_vars
    PROVE  IInv'
<1>t. TypeOK /\ TypeOK' /\ Placement /\ faults = 0 /\ ~RedisFault /\ ~TwoRedisFaults
  BY TypeStep DEF IInv, TypeOK, RedisFault, TwoRedisFaults
<1>f. hash \in Fields /\ mem \in Fields /\ hash.result = 0
  BY <1>t DEF TypeOK, Placement
<1>n. 0 \in 0..Full /\ 0 \in 0..MaxRuns /\ Full \in 0..Full /\ MaxPct < Full
  BY BoundsAssumption DEF Full
<1>1. CASE StartHandler
  <2>1. \A q \in Runs : ~Active(q)
    BY <1>1, <1>t, OnePlace DEF StartHandler, IInv, OneActiveRun
  <2>2. /\ Placement'
        /\ View' = IF redis THEN StartFields(hash) ELSE StartFields(mem)
    <3>1. StartFields(hash) \in Fields /\ StartFields(mem) \in Fields
      BY <1>f, <1>n, UpdateTypes
    <3>2. StartFields(hash).set /\ StartFields(hash).result = 0
      BY <1>f, <1>n, FieldValues
    <3>3. QED
      BY <1>1, <1>t, <3>1, <3>2, UpdateInPlace DEF StartHandler
  <2>3. View'.status = "scanning"
    BY <1>f, <1>n, <2>2, FieldValues
  <2>4. /\ started' = started + 1 /\ started' \in Runs
        /\ pc'[started'] = "queued"
        /\ \A q \in Runs : q # started' => pc'[q] = pc[q]
    BY <1>1, <1>t DEF StartHandler, TypeOK, Runs
  <2>5. Numbering'
    BY <2>4, <1>t DEF IInv, Numbering, TypeOK, Runs
  <2>6. ResultStored' /\ PerJob'
    BY <1>1, <2>1, <2>4 DEF StartHandler, IInv, ResultStored, PerJob, Active, UsesTaskState
  <2>7. OneActiveRun' /\ OutcomeVisible' /\ ErrorHasText'
    BY <2>1, <2>3, <2>4 DEF OneActiveRun, OutcomeVisible, ErrorHasText, Active
  <2>8. cached' <= started'
    BY <1>1, <1>t, <2>4 DEF StartHandler, IInv, TypeOK
  <2>9. QED
    BY <1>t, <2>2, <2>5, <2>6, <2>7, <2>8 DEF IInv
<1>2. ASSUME NEW r \in Runs, Begin(r) PROVE IInv'
  <2>0. PICK h \in Fields, m \in Fields :
            /\ Update(h, m)
            /\ h.set /\ h.result = 0 /\ h.status = "scanning" /\ m.status = "scanning"
    <3>1. /\ BeginFields(hash) \in Fields /\ BeginFields(mem) \in Fields
          /\ BeginFields(hash).set /\ BeginFields(hash).result = 0
          /\ BeginFields(hash).status = "scanning" /\ BeginFields(mem).status = "scanning"
      BY <1>f, <1>n, UpdateTypes, FieldValues
    <3>2. /\ ProgressField(BeginFields(hash), 0) \in Fields
          /\ ProgressField(BeginFields(mem), 0) \in Fields
      BY <3>1, <1>n, UpdateTypes
    <3>2a. LET h == ProgressField(BeginFields(hash), 0)
               m == ProgressField(BeginFields(mem), 0)
           IN  h.set /\ h.result = 0 /\ h.status = "scanning" /\ m.status = "scanning"
      BY <3>1, <1>n, FieldValues
    <3>3. CASE Tracked
      BY <1>2, <3>1, <3>3 DEF Begin
    <3>4. CASE ~Tracked
      BY <1>2, <3>2, <3>2a, <3>4 DEF Begin
    <3>5. QED
      BY <3>3, <3>4
  <2>1. Placement' /\ View'.status = "scanning"
    BY <1>2, <1>t, <2>0, UpdateInPlace DEF Begin
  <2>2. r = started /\ \A q \in Runs : q # r => ~Active(q)
    BY <1>2, OnlyOne DEF Begin, Active
  <2>3. pc'[r] = "begun" /\ \A q \in Runs : q # r => pc'[q] = pc[q]
    BY <1>2, <1>t DEF Begin, TypeOK
  <2>4. Numbering'
    BY <1>2, <2>3 DEF Begin, IInv, Numbering
  <2>5. ResultStored' /\ PerJob'
    BY <1>2, <2>2, <2>3 DEF Begin, IInv, ResultStored, PerJob, Active, UsesTaskState
  <2>6. OneActiveRun' /\ OutcomeVisible' /\ ErrorHasText'
    BY <1>2, <2>1, <2>2, <2>3
       DEF Begin, OneActiveRun, OutcomeVisible, ErrorHasText, Active
  <2>7. QED
    BY <1>2, <1>t, <2>1, <2>4, <2>5, <2>6 DEF Begin, IInv
<1>3. ASSUME NEW r \in Runs, NEW p \in 0..Full, pc[r] \in {"begun", "phase"},
             Update(ProgressField(hash, p), ProgressField(mem, p)),
             NEW x \in {"phase", "finished"}, pc' = [pc EXCEPT ![r] = x],
             UNCHANGED <<job, redis, resKey, cached, started>>
      PROVE  IInv'
  <2>1. Placement' /\ View'.status = View.status /\ View'.error = View.error
    BY <1>3, <1>t, PushInPlace
  <2>2. QED
    BY <1>3, <1>t, <2>1, ReportStep DEF Active
<1>4. ASSUME NEW r \in Runs, EnterFirstPhase(r) \/ Advance(r) PROVE IInv'
  <2>1. PICK p \in pct[r]..(IF Tracked THEN MaxPct ELSE Full) :
            Update(ProgressField(hash, p), ProgressField(mem, p))
    BY <1>4 DEF EnterFirstPhase, Advance, Report
  <2>2. p \in 0..Full
    BY <2>1, <1>t, BoundsAssumption DEF TypeOK, Full
  <2>3. pc[r] \in {"begun", "phase"} /\ pc' = [pc EXCEPT ![r] = "phase"]
    BY <1>4, <1>t DEF EnterFirstPhase, Advance, TypeOK
  <2>4. UNCHANGED <<job, redis, resKey, cached, started>>
    BY <1>4 DEF EnterFirstPhase, Advance, Report
  <2>5. QED
    BY <2>1, <2>2, <2>3, <2>4, <1>3
<1>5. ASSUME NEW r \in Runs, Finish(r) PROVE IInv'
  <2>1. CASE Tracked
    BY <1>5, <1>n, <2>1, <1>3 DEF Finish
  <2>2. CASE ~Tracked
    <3>1. Placement' /\ View' = View
      BY <1>5, <1>t, <2>2 DEF Finish, keys, Placement, View
    <3>2. QED
      BY <1>5, <1>t, <3>1, ReportStep DEF Finish, Active
  <2>3. QED
    BY <2>1, <2>2
<1>6. ASSUME NEW r \in Runs, LeaveEarly(r) PROVE IInv'
  <2>1. Placement' /\ View' = View
    BY <1>6, <1>t DEF LeaveEarly, Placement, View
  <2>2. QED
    BY <1>6, <1>t, <2>1, ReportStep DEF LeaveEarly, Active
<1>7. ASSUME NEW r \in Runs, Fail(r) PROVE IInv'
  <2>1. Active(r)
    BY <1>7 DEF Fail, Active
  <2>2. CASE UsesTaskState
    <3>1. /\ ErrorFields(hash) \in Fields /\ ErrorFields(mem) \in Fields
          /\ ErrorFields(hash).set /\ ErrorFields(hash).result = 0
          /\ ErrorFields(hash).status = "error" /\ ErrorFields(mem).status = "error"
          /\ ErrorFields(hash).error /\ ErrorFields(mem).error
      BY <1>f, <1>n, UpdateTypes, FieldValues
    <3>2. Placement' /\ View'.status = "error" /\ View'.error
      BY <1>7, <1>t, <2>2, <3>1, UpdateInPlace DEF Fail
    <3>3. ErrorHasText'
      BY <3>2 DEF ErrorHasText
    <3>4. QED
      BY <1>7, <1>t, <2>1, <2>2, <3>2, <3>3, OutcomeStep DEF Fail
  <2>3. CASE ~UsesTaskState
    <3>1. ~redis /\ ~redis'
      BY <1>7, <1>t, <2>3 DEF TypeOK, Fail
    <3>2. Placement' /\ View'.status = "error"
      BY <1>7, <1>t, <1>f, <2>3, <3>1 DEF Fail, Placement, View, Fields
    <3>3. ErrorHasText'
      BY <1>7, <2>3 DEF Fail, ErrorHasText, UsesTaskState
    <3>4. QED
      BY <1>7, <1>t, <2>1, <2>3, <3>2, <3>3, OutcomeStep DEF Fail
  <2>4. QED
    BY <2>2, <2>3
<1>8. ASSUME NEW r \in Runs, FailText(r) PROVE IInv'
  <2>1. ~UsesTaskState /\ ~redis /\ ~redis'
    BY <1>8, <1>t DEF FailText, IInv, PerJob, TypeOK
  <2>2. Placement' /\ View'.status = View.status
    BY <1>8, <1>t, <1>f, <2>1 DEF FailText, Placement, View, Fields
  <2>3. pc[r] = "failing" /\ pc'[r] = "failed"
        /\ \A q \in Runs : q # r => pc'[q] = pc[q]
    BY <1>8, <1>t DEF FailText, TypeOK
  <2>4. Numbering'
    BY <1>8, <2>3 DEF FailText, IInv, Numbering
  <2>5. ResultStored' /\ PerJob'
    <3>1. mem'.result = mem.result
      BY <1>8, <1>f DEF FailText, Fields
    <3>2. QED
      BY <1>8, <2>3, <3>1 DEF FailText, IInv, ResultStored, PerJob, UsesTaskState
  <2>6. OneActiveRun' /\ OutcomeVisible' /\ ErrorHasText'
    BY <1>8, <2>1, <2>2, <2>3
       DEF FailText, IInv, OneActiveRun, OutcomeVisible, ErrorHasText, Active, UsesTaskState
  <2>7. QED
    BY <1>8, <1>t, <2>2, <2>4, <2>5, <2>6 DEF FailText, IInv
<1>9. ASSUME NEW r \in Runs PROVE /\ MemDone(r) \in Fields
                                  /\ MemDone(r).status = "done"
                                  /\ MemDone(r).result = r
  <2>1. r \in 0..MaxRuns
    BY DEF Runs
  <2>2. QED
    BY <1>f, <2>1 DEF MemDone, DoneFields, Fields, Statuses
<1>10. ASSUME NEW r \in Runs, StoreResult(r) PROVE IInv'
  <2>1. Active(r)
    BY <1>10 DEF StoreResult, Active
  <2>2. CASE ~redis /\ UsesTaskState
    <3>1. mem' = MemDone(r) /\ UNCHANGED <<hash, resKey, redis>>
      BY <1>10, <1>t, <2>2 DEF StoreResult
    <3>2. Placement' /\ View'.status = "done"
      BY <1>t, <1>9, <2>2, <3>1 DEF Placement, View
    <3>3. ErrorHasText'
      BY <3>2 DEF ErrorHasText
    <3>4. pc' = [pc EXCEPT ![r] = AfterPublish(pc[r])]
      BY <1>10, <1>t, <2>2 DEF StoreResult, TypeOK
    <3>5. AfterPublish(pc[r]) \in {"failing", "failed", "reported", "ended"}
          /\ AfterPublish(pc[r]) # "failing"
      BY DEF AfterPublish
    <3>6. QED
      BY <1>10, <1>t, <2>1, <3>2, <3>3, <3>4, <3>5, OutcomeStep DEF StoreResult
  <2>3. CASE redis \/ ~UsesTaskState
    <3>1. /\ pc[r] \in {"finished", "early"}
          /\ pc'[r] \in {"stored", "earlyStored"}
          /\ \A q \in Runs : q # r => pc'[q] = pc[q]
          /\ redis => resKey' = r /\ hash' = hash /\ mem' = mem
          /\ ~redis => /\ hash' = hash /\ resKey' = resKey
                       /\ mem' = [mem EXCEPT !.result = r]
          /\ UNCHANGED <<job, redis, cached, started>>
      BY <1>10, <1>t, <2>3 DEF StoreResult, TypeOK, keys
    <3>2. Placement' /\ View'.status = View.status /\ View'.error = View.error
      BY <1>t, <1>f, <3>1 DEF Placement, View, Fields
    <3>3. r = started /\ \A q \in Runs : q # r => ~Active(q)
      BY <2>1, OnlyOne
    <3>4. IF redis THEN resKey' = r ELSE mem'.result = r
      BY <1>f, <3>1 DEF Fields
    <3>5. Numbering'
      BY <3>1 DEF IInv, Numbering
    <3>6. ResultStored'
      BY <3>1, <3>3, <3>4 DEF ResultStored, Active
    <3>7. PerJob'
      BY <2>3, <3>1 DEF IInv, PerJob, UsesTaskState
    <3>8. OneActiveRun' /\ OutcomeVisible' /\ ErrorHasText'
      BY <2>1, <3>1, <3>2, <3>3, OnlyOne
         DEF IInv, OneActiveRun, OutcomeVisible, ErrorHasText, Active, UsesTaskState
    <3>9. QED
      BY <1>t, <3>1, <3>2, <3>5, <3>6, <3>7, <3>8 DEF IInv
  <2>4. QED
    BY <2>2, <2>3
<1>11. ASSUME NEW r \in Runs, Publish(r) PROVE IInv'
  <2>1. Active(r)
    BY <1>11 DEF Publish, Active
  <2>2. /\ DoneFields(hash) \in Fields /\ DoneFields(mem) \in Fields
        /\ DoneFields(hash).set /\ DoneFields(hash).result = 0
        /\ DoneFields(hash).status = "done" /\ DoneFields(mem).status = "done"
    BY <1>f, <1>n, UpdateTypes, FieldValues
  <2>3. (IF redis THEN MemDone(r) ELSE DoneFields(mem)) \in Fields
    BY <1>9, <2>2
  <2>4. Placement' /\ View'.status = "done"
    BY <1>11, <1>t, <2>2, <2>3, UpdateInPlace DEF Publish
  <2>5. ErrorHasText'
    BY <2>4 DEF ErrorHasText
  <2>6. pc' = [pc EXCEPT ![r] = AfterPublish(pc[r])]
    BY <1>11, <1>t DEF Publish, TypeOK
  <2>7. AfterPublish(pc[r]) \in {"failing", "failed", "reported", "ended"}
        /\ AfterPublish(pc[r]) # "failing"
    BY DEF AfterPublish
  <2>8. QED
    BY <1>11, <1>t, <2>1, <2>4, <2>5, <2>6, <2>7, OutcomeStep DEF Publish
<1>12. ASSUME NEW r \in Runs, KeepLastResult(r) PROVE IInv'
  <2>1. /\ pc[r] = "reported" /\ pc'[r] = "ended"
        /\ \A q \in Runs : q # r => pc'[q] = pc[q]
        /\ UNCHANGED <<job, redis, hash, resKey, mem, started>>
    BY <1>12, <1>t DEF KeepLastResult, TypeOK
  <2>2. cached' <= started
    BY <1>12, <1>t DEF KeepLastResult, IInv, Numbering, TypeOK, Runs
  <2>3. Placement' /\ View' = View
    BY <1>t, <2>1 DEF Placement, View
  <2>4. Numbering' /\ ResultStored' /\ PerJob'
    BY <2>1 DEF IInv, Numbering, ResultStored, PerJob, UsesTaskState
  <2>5. OneActiveRun' /\ OutcomeVisible' /\ ErrorHasText'
    <3>1. started # 0 => started \in Runs
      BY <1>t DEF TypeOK, Runs
    <3>2. OneActiveRun' /\ ErrorHasText'
      BY <2>1, <2>3 DEF IInv, OneActiveRun, ErrorHasText, Active, UsesTaskState
    <3>3. OutcomeVisible'
      BY <2>1, <2>3, <3>1 DEF IInv, OutcomeVisible
    <3>4. QED
      BY <3>2, <3>3
  <2>6. QED
    BY <1>t, <2>1, <2>2, <2>3, <2>4, <2>5 DEF IInv
<1>13. ASSUME NEW r \in Runs, PusherCompute(r) PROVE IInv'
  <2>1. Placement' /\ View' = View
    BY <1>13, <1>t DEF PusherCompute, Placement, View
  <2>2. QED
    BY <1>13, <1>t, <2>1, QuietStep DEF PusherCompute, IInv
<1>14. ASSUME NEW r \in Runs, PusherWrite(r) PROVE IInv'
  <2>1. PICK p \in pending[r] : Update(ProgressField(hash, p), ProgressField(mem, p))
    BY <1>14 DEF PusherWrite
  <2>2. p \in 0..Full
    BY <2>1, <1>t, BoundsAssumption DEF TypeOK, Full
  <2>3. /\ Placement' /\ View'.status = View.status /\ View'.error = View.error
        /\ mem'.result = mem.result
    BY <1>14, <1>t, <2>1, <2>2, PushInPlace DEF PusherWrite
  <2>4. QED
    BY <1>14, <1>t, <2>3, QuietStep DEF PusherWrite, IInv
<1>15. CASE RecsStatus
  <2>1. ~UsesTaskState /\ ~redis /\ ~redis'
    BY <1>15, <1>t DEF RecsStatus, TypeOK, UsesTaskState
  <2>2. View.status = "idle"
    BY <1>15, <1>t, <2>1, OnePlace DEF RecsStatus
  <2>3. Placement' /\ View'.status = "done"
    BY <1>15, <1>t, <1>f, <2>1 DEF RecsStatus, Placement, View, Fields
  <2>4. \A q \in Runs : ~Active(q)
    BY <2>2 DEF IInv, OneActiveRun
  <2>5. Numbering' /\ ResultStored' /\ PerJob'
    BY <1>15, <2>4
       DEF RecsStatus, threads, IInv, Numbering, ResultStored, PerJob, Active, UsesTaskState
  <2>6. OneActiveRun' /\ OutcomeVisible' /\ ErrorHasText'
    BY <1>15, <2>3, <2>4
       DEF RecsStatus, threads, OneActiveRun, OutcomeVisible, ErrorHasText, Active
  <2>7. QED
    BY <1>15, <1>t, <2>3, <2>5, <2>6 DEF RecsStatus, IInv
<1>16. CASE QuietHour
  <2>1. \A q \in Runs : ~Active(q) /\ pc[q] # "failing"
    BY <1>16 DEF QuietHour, Idle, Active
  <2>2. Placement' /\ (View' = View \/ View'.status = "idle")
    <3>1. ~Blank.set /\ Blank.status = "idle" /\ Blank.result = 0
      BY DEF Blank
    <3>2. CASE hash' = hash
      BY <1>16, <1>t, <3>2 DEF QuietHour, Placement, View
    <3>3. CASE hash' = Blank
      BY <1>16, <1>t, <3>1, <3>3 DEF QuietHour, Placement, View
    <3>4. QED
      BY <1>16, <3>2, <3>3 DEF QuietHour
  <2>3. Numbering' /\ ResultStored' /\ PerJob'
    BY <1>16, <2>1
       DEF QuietHour, threads, IInv, Numbering, ResultStored, PerJob, Active, UsesTaskState
  <2>4. OneActiveRun' /\ OutcomeVisible' /\ ErrorHasText'
    BY <1>16, <2>1, <2>2
       DEF QuietHour, threads, IInv, OneActiveRun, OutcomeVisible, ErrorHasText, Active,
           UsesTaskState
  <2>5. QED
    BY <1>16, <1>t, <2>2, <2>3, <2>4 DEF QuietHour, IInv
<1>17. CASE CacheExpires
  <2>1. Placement' /\ View' = View /\ cached' <= started
    BY <1>17, <1>t DEF CacheExpires, Placement, View, TypeOK
  <2>2. QED
    BY <1>17, <1>t, <2>1, QuietStep DEF CacheExpires, threads
<1>18. CASE Restart
  <2>1. UNCHANGED <<job, redis, hash, resKey, started>> /\ mem' = Blank
    BY <1>18, <1>t DEF Restart, TypeOK
  <2>2. \A q \in Runs : IF Idle(q) THEN pc'[q] = pc[q] ELSE pc'[q] = "killed"
    BY <1>18, <1>t DEF Restart, TypeOK
  <2>3. Placement' /\ (View' = View \/ View'.status = "idle")
    BY <1>t, <2>1 DEF Placement, View, Blank
  <2>4. Numbering' /\ ResultStored' /\ PerJob'
    BY <2>1, <2>2 DEF IInv, Numbering, ResultStored, PerJob, Idle, UsesTaskState
  <2>5. OneActiveRun' /\ OutcomeVisible' /\ ErrorHasText'
    <3>1. \A q \in Runs : ~Active(q)'
      BY <2>2 DEF Active, Idle
    <3>2. started \in Runs /\ pc'[started] \in {"failing", "failed", "reported", "ended"}
            => pc[started] \in {"failed", "ended"}
      BY <2>2 DEF Idle
    <3>3. started # 0 => started \in Runs
      BY <1>t DEF TypeOK, Runs
    <3>4. QED
      BY <2>1, <2>3, <3>1, <3>2, <3>3
         DEF IInv, OneActiveRun, OutcomeVisible, ErrorHasText, UsesTaskState
  <2>6. cached' <= started
    BY <1>18, <1>t DEF Restart, IInv, TypeOK
  <2>7. QED
    BY <1>t, <2>1, <2>3, <2>4, <2>5, <2>6 DEF IInv
<1>19. CASE UNCHANGED vars
  <2>1. Placement' /\ View' = View
    BY <1>19, <1>t DEF vars, Placement, View
  <2>2. QED
    BY <1>19, <1>t, <2>1, QuietStep DEF vars, IInv
<1>20. QED
  BY <1>1, <1>2, <1>4, <1>5, <1>6, <1>7, <1>8, <1>10, <1>11, <1>12, <1>13, <1>14,
     <1>15, <1>16, <1>17, <1>18, <1>19
     DEF Next, Scan, Conclude, Pusher

LEMMA IInvInit == Init => IInv
<1> SUFFICES ASSUME Init PROVE IInv
  OBVIOUS
<1>1. TypeOK
  <2>1. 0 \in 0..MaxRuns /\ 0 \in 0..Full /\ 0 \in 0..MaxFaults /\ 0 \in 0..MaxRestarts
    BY BoundsAssumption DEF Full
  <2>2. QED
    BY <2>1, BlankType DEF Init, TypeOK, PcValues
<1>2. /\ \A r \in Runs : pc[r] = "none" /\ r > 0 /\ ~Active(r)
      /\ View = Blank /\ started = 0
  BY BoundsAssumption DEF Init, Runs, Active, View, Blank
<1>3. Placement /\ Numbering /\ ResultStored /\ PerJob /\ cached <= started
  BY <1>2 DEF Init, Placement, Numbering, ResultStored, PerJob, Blank
<1>4. OneActiveRun /\ OutcomeVisible /\ ErrorHasText
  BY <1>2 DEF OneActiveRun, OutcomeVisible, ErrorHasText, Blank
<1>5. QED
  BY <1>1, <1>3, <1>4 DEF IInv

LEMMA Invariance == MaxFaults = 0 => (SafeSpec => []IInv)
<1> SUFFICES ASSUME MaxFaults = 0 PROVE SafeSpec => []IInv
  OBVIOUS
<1>1. IInv /\ [Next]_vars => IInv'
  BY IInvStep
<1>2. QED
  BY <1>1, IInvInit, PTL DEF SafeSpec

(* As long as Redis commands do not fail, the start guard of every job     *)
(* admits one scan at a time, through restarts, expiry and the pushers of  *)
(* scans that failed.                                                      *)
THEOREM OneScanAtATime == MaxFaults = 0 => (SafeSpec => []OneActiveRun)
<1>1. IInv => OneActiveRun
  BY DEF IInv
<1>2. QED
  BY <1>1, Invariance, PTL

(* ... no reported outcome leaves the endpoint saying "scanning", which    *)
(* would refuse every later start.                                         *)
THEOREM OutcomesAreVisible == MaxFaults = 0 => (SafeSpec => []OutcomeVisible)
<1>1. IInv => OutcomeVisible
  BY DEF IInv
<1>2. QED
  BY <1>1, Invariance, PTL

----------------------------------------------------------------------------
(* Refinement of ScanJob.                                                  *)

(* What is offered as the result, told from where it is kept.              *)
LEMMA ShownInPlace ==
    ASSUME TypeOK, Placement
    PROVE  Shown = IF View.status = "done"
                   THEN IF redis THEN resKey ELSE mem.result
                   ELSE 0
<1>1. CASE redis
  <2>1. UsesTaskState /\ mem.result = 0 /\ hash.result = 0
    BY <1>1 DEF TypeOK, Placement, Blank
  <2>2. View.result = 0 /\ StoredResult = resKey
    BY <1>1, <2>1, OnePlace DEF StoredResult
  <2>3. DoneResult = resKey
    BY <2>1, <2>2 DEF DoneResult, UsesTaskState
  <2>4. QED
    BY <1>1, <2>3 DEF Shown
<1>2. CASE ~redis
  <2>1. View = mem /\ StoredResult = mem.result
    BY <1>2, OnePlace DEF StoredResult
  <2>2. DoneResult = mem.result
    BY <2>1 DEF DoneResult
  <2>3. QED
    BY <1>2, <2>2 DEF Shown
<1>3. QED
  BY <1>1, <1>2

(* The same two facts as one formula, for the state after a step.          *)
LEMMA InPlace ==
    TypeOK /\ Placement
        => /\ View = IF redis THEN hash ELSE mem
           /\ Shown = IF View.status = "done"
                      THEN IF redis THEN resKey ELSE mem.result
                      ELSE 0
  BY OnePlace, ShownInPlace

LEMMA InPlaceNext ==
    (TypeOK /\ Placement)'
        => (/\ View = IF redis THEN hash ELSE mem
            /\ Shown = IF View.status = "done"
                       THEN IF redis THEN resKey ELSE mem.result
                       ELSE 0)'
  BY InPlace, PTL

(* A step that keeps the status, and offers no result, is a stutter.       *)
LEMMA Stutter ==
    ASSUME TypeOK, Placement, TypeOK', Placement', started' = started,
           View'.status = View.status,
           View.status = "done" => redis' = redis /\ resKey' = resKey
                                             /\ mem'.result = mem.result
    PROVE  UNCHANGED Abs!jobVars
<1>1. Shown' = Shown
  BY ShownInPlace, InPlaceNext
<1>2. QED
  BY <1>1 DEF Abs!jobVars

(* Every step of the endpoint is a step of ScanJob or a stutter.           *)
LEMMA RefinementStep ==
    ASSUME MaxFaults = 0, IInv, [Next]_vars
    PROVE  [Abs!Next]_(Abs!jobVars)
<1>i. IInv'
  BY IInvStep
<1>t. /\ TypeOK /\ TypeOK' /\ Placement /\ Placement' /\ faults = 0 /\ ~RedisFault /\ ~TwoRedisFaults
      /\ View = IF redis THEN hash ELSE mem
      /\ View' = IF redis' THEN hash' ELSE mem'
  <2>1. TypeOK /\ TypeOK' /\ Placement /\ Placement' /\ faults = 0 /\ ~RedisFault /\ ~TwoRedisFaults
    BY <1>i DEF IInv, TypeOK, RedisFault, TwoRedisFaults
  <2>2. QED
    BY <2>1, OnePlace, InPlaceNext
<1>f. /\ hash \in Fields /\ mem \in Fields /\ 0 \in 0..Full /\ 0 \in 0..MaxRuns
      /\ Full \in 0..Full /\ MaxPct < Full
  BY <1>t, BoundsAssumption DEF TypeOK, Full
<1>s. /\ Shown = IF View.status = "done" THEN IF redis THEN resKey ELSE mem.result ELSE 0
      /\ Shown' = IF View'.status = "done" THEN IF redis' THEN resKey' ELSE mem'.result ELSE 0
  BY <1>t, ShownInPlace, InPlaceNext
<1>1. CASE StartHandler
  <2>1. View.status # "scanning" /\ Update(StartFields(hash), StartFields(mem))
    BY <1>1, <1>t DEF StartHandler
  <2>2. View' = IF redis THEN StartFields(hash) ELSE StartFields(mem)
    BY <1>1, <1>t, <2>1 DEF StartHandler, Update
  <2>3. View'.status = "scanning"
    BY <1>f, <2>2, FieldValues
  <2>4. Abs!Start
    BY <1>1, <1>s, <2>1, <2>3 DEF StartHandler, Abs!Start
  <2>5. QED
    BY <2>4 DEF Abs!Next
<1>2. ASSUME NEW r \in Runs, Begin(r) PROVE [Abs!Next]_(Abs!jobVars)
  <2>1. View.status = "scanning" /\ r = started
    BY <1>2, OnlyOne DEF Begin, Active
  <2>2. r \in Runs /\ Active(r)'
    BY <1>2, <1>t DEF Begin, Active, TypeOK
  <2>3. View'.status = "scanning"
    BY <2>2, <1>i DEF IInv, OneActiveRun
  <2>4. QED
    BY <1>2, <1>t, <2>1, <2>3, Stutter DEF Begin
<1>3. ASSUME NEW r \in Runs, Active(r), Active(r)', started' = started
      PROVE  [Abs!Next]_(Abs!jobVars)
  <2>1. View.status = "scanning"
    BY <1>3, OnlyOne
  <2>2. View'.status = "scanning"
    BY <1>3, <1>i DEF IInv, OneActiveRun
  <2>3. QED
    BY <1>3, <1>t, <2>1, <2>2, Stutter
<1>4. ASSUME NEW r \in Runs,
             EnterFirstPhase(r) \/ Advance(r) \/ Finish(r) \/ LeaveEarly(r)
      PROVE  [Abs!Next]_(Abs!jobVars)
  <2>1. Active(r) /\ started' = started
    BY <1>4 DEF EnterFirstPhase, Advance, Report, Finish, LeaveEarly, Active
  <2>2. Active(r)'
    BY <1>4, <1>t DEF EnterFirstPhase, Advance, Finish, LeaveEarly, Active, TypeOK
  <2>3. QED
    BY <2>1, <2>2, <1>3
<1>5. ASSUME NEW r \in Runs, Fail(r) PROVE [Abs!Next]_(Abs!jobVars)
  <2>1. View.status = "scanning"
    BY <1>5, OnlyOne DEF Fail, Active
  <2>2. View'.status = "error"
    <3>1. CASE UsesTaskState
      <4>1. View' = IF redis THEN ErrorFields(hash) ELSE ErrorFields(mem)
        BY <1>5, <1>t, <3>1 DEF Fail, Update
      <4>2. QED
        BY <4>1, <1>f, FieldValues
    <3>2. CASE ~UsesTaskState
      BY <1>5, <1>t, <1>f, <3>2 DEF Fail, TypeOK, Fields
    <3>3. QED
      BY <3>1, <3>2
  <2>3. Abs!Fail
    BY <1>5, <1>s, <2>1, <2>2 DEF Fail, Abs!Fail
  <2>4. QED
    BY <2>3 DEF Abs!Next
<1>6. ASSUME NEW r \in Runs, FailText(r) PROVE [Abs!Next]_(Abs!jobVars)
  <2>1. ~redis
    BY <1>6, <1>t DEF FailText, IInv, PerJob, TypeOK
  <2>2. mem'.status = mem.status /\ mem'.result = mem.result
    BY <1>6, <1>f DEF FailText, Fields
  <2>3. QED
    BY <1>6, <1>t, <2>1, <2>2, Stutter DEF FailText
<1>7. ASSUME NEW r \in Runs, StoreResult(r) PROVE [Abs!Next]_(Abs!jobVars)
  <2>1. CASE redis \/ ~UsesTaskState
    <3>1. Active(r) /\ started' = started
      BY <1>7 DEF StoreResult, Active
    <3>2. pc'[r] \in {"stored", "earlyStored"}
      BY <1>7, <1>t, <2>1 DEF StoreResult, TypeOK
    <3>3. QED
      BY <3>1, <3>2, <1>3 DEF Active
  <2>2. CASE ~redis /\ UsesTaskState
    <3>1. View.status = "scanning" /\ r = started
      BY <1>7, OnlyOne DEF StoreResult, Active
    <3>2. mem' = MemDone(r) /\ redis' = redis /\ started' = started
      BY <1>7, <1>t, <2>2 DEF StoreResult
    <3>3. View'.status = "done" /\ mem'.result = r
      BY <1>t, <1>f, <2>2, <3>2 DEF MemDone, DoneFields, Fields
    <3>4. Abs!Succeed
      BY <1>s, <2>2, <3>1, <3>2, <3>3 DEF Abs!Succeed
    <3>5. QED
      BY <3>4 DEF Abs!Next
  <2>3. QED
    BY <2>1, <2>2
<1>8. ASSUME NEW r \in Runs, Publish(r) PROVE [Abs!Next]_(Abs!jobVars)
  <2>1. View.status = "scanning" /\ r = started
    BY <1>8, OnlyOne DEF Publish, Active
  <2>2. /\ UNCHANGED <<redis, resKey, started>>
        /\ IF redis THEN hash' = DoneFields(hash) ELSE mem' = DoneFields(mem)
    BY <1>8, <1>t DEF Publish, Update
  <2>3. View'.status = "done"
    BY <1>t, <1>f, <2>2, FieldValues
  <2>4. IF redis THEN resKey' = r ELSE mem'.result = r
    <3>1. IF redis THEN resKey = r ELSE mem.result = r
      BY <1>8 DEF Publish, IInv, ResultStored
    <3>2. DoneFields(mem).result = mem.result
      BY <1>f, FieldValues
    <3>3. QED
      BY <2>2, <3>1, <3>2
  <2>5. Abs!Succeed
    BY <1>s, <2>1, <2>2, <2>3, <2>4 DEF Abs!Succeed
  <2>6. QED
    BY <2>5 DEF Abs!Next
<1>9. ASSUME NEW r \in Runs, KeepLastResult(r) \/ PusherCompute(r)
      PROVE  [Abs!Next]_(Abs!jobVars)
  BY <1>9, <1>t, Stutter DEF KeepLastResult, PusherCompute
<1>10. ASSUME NEW r \in Runs, PusherWrite(r) PROVE [Abs!Next]_(Abs!jobVars)
  <2>1. PICK p \in pending[r] : Update(ProgressField(hash, p), ProgressField(mem, p))
    BY <1>10 DEF PusherWrite
  <2>2. p \in 0..Full
    BY <2>1, <1>t, BoundsAssumption DEF TypeOK, Full
  <2>3. View'.status = View.status /\ mem'.result = mem.result
        /\ UNCHANGED <<redis, resKey, started>>
    BY <1>10, <1>t, <2>1, <2>2, PushInPlace DEF PusherWrite
  <2>4. QED
    BY <1>t, <2>3, Stutter
<1>11. CASE RecsStatus
  <2>1. ~redis /\ redis' = redis
    BY <1>11, <1>t DEF RecsStatus, TypeOK, UsesTaskState
  <2>2. mem'.status = "done" /\ mem'.result = cached
    BY <1>11, <1>f DEF RecsStatus, Fields
  <2>3. cached \in 1..started
    BY <1>11, <1>t DEF RecsStatus, IInv, TypeOK
  <2>4. Abs!Recall
    BY <1>11, <1>t, <1>s, <2>1, <2>2, <2>3 DEF RecsStatus, Abs!Recall
  <2>5. QED
    BY <2>4 DEF Abs!Next
<1>12. CASE QuietHour
  <2>1. /\ UNCHANGED <<job, redis, mem, started>>
        /\ resKey' = 0
        /\ hash' = hash \/ hash' = Blank
    BY <1>12 DEF QuietHour
  <2>2. Blank.status = "idle"
    BY DEF Blank
  <2>3. CASE \/ ~redis
             \/ View.status \notin {"idle", "done"} /\ hash' = hash
    <3>1. ~redis => hash' = hash /\ resKey' = resKey
      BY <1>t, <2>1 DEF Placement
    <3>2. QED
      BY <1>t, <2>1, <2>3, <3>1, Stutter
  <2>4. CASE redis /\ View.status = "idle"
    <3>1. View'.status = "idle"
      BY <1>t, <2>1, <2>2, <2>4
    <3>2. QED
      BY <1>t, <2>1, <2>4, <3>1, Stutter
  <2>5. CASE redis /\ View.status = "done" /\ hash' = hash
    <3>1. View' = View
      BY <1>t, <2>1, <2>5
    <3>2. Abs!ForgetResult
      BY <1>s, <2>1, <2>5, <3>1 DEF Abs!ForgetResult
    <3>3. QED
      BY <3>2 DEF Abs!Next
  <2>6. CASE redis /\ View.status # "idle" /\ hash' = Blank
    <3>1. View'.status = "idle"
      BY <1>t, <2>1, <2>2, <2>6
    <3>2. Abs!Forget
      BY <1>s, <2>1, <2>6, <3>1 DEF Abs!Forget
    <3>3. QED
      BY <3>2 DEF Abs!Next
  <2>7. QED
    BY <2>1, <2>3, <2>4, <2>5, <2>6
<1>13. CASE CacheExpires
  BY <1>13, <1>t, Stutter DEF CacheExpires
<1>14. CASE Restart
  <2>1. UNCHANGED <<redis, hash, resKey, started>> /\ mem' = Blank
    BY <1>14, <1>t DEF Restart
  <2>2. CASE redis
    BY <1>t, <2>1, <2>2, Stutter DEF Placement
  <2>3. CASE ~redis
    <3>1. View'.status = "idle"
      BY <1>t, <2>1, <2>3 DEF Blank
    <3>2. CASE View.status = "idle"
      BY <1>t, <2>1, <3>1, <3>2, Stutter
    <3>3. CASE View.status # "idle"
      BY <1>s, <2>1, <3>1, <3>3 DEF Abs!Forget, Abs!Next
    <3>4. QED
      BY <3>2, <3>3
  <2>4. QED
    BY <2>2, <2>3
<1>15. CASE UNCHANGED vars
  BY <1>15, <1>t, Stutter DEF vars
<1>16. QED
  BY <1>1, <1>2, <1>4, <1>5, <1>6, <1>7, <1>8, <1>9, <1>10, <1>11, <1>12, <1>13,
     <1>14, <1>15
     DEF Next, Scan, Conclude, Pusher

(* As long as Redis commands do not fail, every job implements the safety  *)
(* part of ScanJob: a caller sees one scan at a time, "done" with the      *)
(* result of the scan accepted last (or with none), and never an outcome   *)
(* taken back except by forgetting it.                                     *)
THEOREM ImplementsScanJob == MaxFaults = 0 => (SafeSpec => Abs!SafeSpec)
<1> SUFFICES ASSUME MaxFaults = 0 PROVE SafeSpec => Abs!SafeSpec
  OBVIOUS
<1>1. Init => Abs!Init
  BY DEF Init, View, Shown, Blank, Abs!Init
<1>2. IInv /\ [Next]_vars => [Abs!Next]_(Abs!jobVars)
  BY RefinementStep
<1>3. QED
  BY <1>1, <1>2, Invariance, PTL DEF SafeSpec, Abs!SafeSpec

----------------------------------------------------------------------------
(* However many Redis commands fail: errors have their text, and a result  *)
(* offered was stored by its own scan.                                     *)

(* The inductive invariant.                                                *)

\* Scans that have not been accepted have no thread.
Unstarted == \A r \in Runs : r > started => pc[r] = "none"

\* Where the thread of a scan may stand once it has stored its result.
StoredPcs == {"stored", "earlyStored", "reported", "ended", "killed"}
Stored(x) == x # 0 => pc[x] \in StoredPcs

\* Every place a result can be read from holds one that was stored.
Sources == hash.result = 0 /\ Stored(resKey) /\ Stored(mem.result) /\ Stored(cached)

\* The hash and the dictionary, each by itself, have the text of their error.
Text(s) == UsesTaskState => (s.status = "error" => s.error)

FInv ==
    /\ TypeOK
    /\ Unstarted
    /\ Sources
    /\ Text(hash) /\ Text(mem)
    /\ \A r \in Runs : pc[r] = "failing" => ~UsesTaskState

\* A thread that has stored its result is never one that has not.
Kept == \A x \in Runs : pc[x] \in StoredPcs => pc'[x] \in StoredPcs

(* An update, failing or not, writes nothing but its two records.          *)
LEMMA UpdateWrites ==
    ASSUME NEW h, NEW m, Update(h, m)
    PROVE  hash' \in {hash, h} /\ mem' \in {mem, m}
  BY DEF Update

(* A step that stores no result keeps the sources.                         *)
LEMMA KeepSources ==
    ASSUME FInv, Kept, UNCHANGED <<resKey, cached>>,
           hash'.result = 0, mem'.result \in {0, mem.result}
    PROVE  Sources'
<1>1. resKey \in 0..MaxRuns /\ mem.result \in 0..MaxRuns /\ cached \in 0..MaxRuns
  BY DEF FInv, TypeOK, Fields
<1>2. ASSUME NEW x \in 0..MaxRuns, Stored(x) PROVE x # 0 => pc'[x] \in StoredPcs
  BY <1>2, BoundsAssumption DEF Stored, Kept, Runs
<1> QED BY <1>1, <1>2 DEF FInv, Sources, Stored

(* A step that only updates the state with a field update that keeps the   *)
(* result (or clears it) and the text keeps the invariant.                 *)
LEMMA FieldStep ==
    ASSUME FInv, TypeOK', Kept, Unstarted',
           UNCHANGED <<job, resKey, cached>>,
           \A r \in Runs : pc'[r] = "failing" => ~UsesTaskState,
           NEW h \in Fields, NEW m \in Fields,
           hash' \in {hash, h}, mem' \in {mem, m},
           h.result = 0, m.result \in {0, mem.result},
           Text(h), Text(m)
    PROVE  FInv'
<1>1. Sources'
  BY KeepSources DEF FInv, Sources
<1>2. Text(hash)' /\ Text(mem)'
  BY DEF FInv, Text, UsesTaskState
<1> QED BY <1>1, <1>2 DEF FInv, UsesTaskState

(* The field updates keep the text.                                        *)
LEMMA FieldText ==
    ASSUME NEW s \in Fields, Text(s), NEW p \in 0..Full
    PROVE  /\ Text(StartFields(s)) /\ Text(BeginFields(s)) /\ Text(ProgressField(s, p))
           /\ Text(DoneFields(s)) /\ Text(ErrorFields(s))
  BY FieldValues DEF Text

(* Every step preserves the invariant.                                     *)
LEMMA FInvStep == FInv /\ [Next]_vars => FInv'
<1> SUFFICES ASSUME FInv, [Next]_vars PROVE FInv'
  OBVIOUS
<1>t. TypeOK /\ TypeOK'
  BY TypeStep DEF FInv
<1>f. /\ hash \in Fields /\ mem \in Fields /\ hash.result = 0 /\ mem.result \in 0..MaxRuns
      /\ Text(hash) /\ Text(mem)
      /\ 0 \in 0..Full /\ Full \in 0..Full
  BY BoundsAssumption DEF FInv, Sources, TypeOK, Fields, Full
<1>1. CASE StartHandler
  <2>1. /\ hash' \in {hash, StartFields(hash)} /\ mem' \in {mem, StartFields(mem)}
        /\ started' = started + 1 /\ started + 1 \in Runs
        /\ pc' = [pc EXCEPT ![started + 1] = "queued"]
        /\ UNCHANGED <<job, resKey, cached>>
    <3>1. started + 1 \in Runs
      BY <1>1, <1>t DEF StartHandler, TypeOK, Runs
    <3> QED BY <1>1, <3>1, UpdateWrites DEF StartHandler
  <2>2. pc[started + 1] = "none"
    BY <2>1, <1>t DEF FInv, Unstarted, TypeOK
  <2>3. Kept
    BY <2>1, <2>2, <1>t DEF Kept, TypeOK, StoredPcs
  <2>4. Unstarted'
    BY <2>1, <1>t DEF FInv, Unstarted, TypeOK, Runs
  <2>5. \A r \in Runs : pc'[r] = "failing" => ~UsesTaskState
    BY <2>1, <1>t DEF FInv, TypeOK
  <2>6. StartFields(hash) \in Fields /\ StartFields(mem) \in Fields
    BY <1>f, UpdateTypes
  <2>7. StartFields(hash).result = 0 /\ StartFields(mem).result = 0
    BY <1>f, FieldValues
  <2> QED BY <1>t, <1>f, <2>1, <2>3, <2>4, <2>5, <2>6, <2>7, FieldText, FieldStep
<1>2. ASSUME NEW r \in Runs, NEW l,
             pc[r] \notin StoredPcs \cup {"none"} \/ l \in StoredPcs,
             pc[r] # "none", l = "failing" => ~UsesTaskState,
             pc' = [pc EXCEPT ![r] = l], UNCHANGED started
      PROVE  Kept /\ Unstarted' /\ \A x \in Runs : pc'[x] = "failing" => ~UsesTaskState
  <2>1. Kept
    BY <1>2, <1>t DEF Kept, TypeOK
  <2>2. Unstarted'
    BY <1>2, <1>t DEF FInv, Unstarted, TypeOK
  <2>3. \A x \in Runs : pc'[x] = "failing" => ~UsesTaskState
    BY <1>2, <1>t DEF FInv, TypeOK
  <2> QED BY <2>1, <2>2, <2>3
<1>3. ASSUME pc' = pc, UNCHANGED started
      PROVE  Kept /\ Unstarted' /\ \A x \in Runs : pc'[x] = "failing" => ~UsesTaskState
  BY <1>3 DEF Kept, FInv, Unstarted
<1>4. ASSUME NEW p \in 0..Full,
             hash' \in {hash, ProgressField(hash, p)},
             mem' \in {mem, ProgressField(mem, p)},
             Kept, Unstarted', \A x \in Runs : pc'[x] = "failing" => ~UsesTaskState,
             UNCHANGED <<job, resKey, cached>>
      PROVE  FInv'
  <2>1. ProgressField(hash, p) \in Fields /\ ProgressField(mem, p) \in Fields
    BY <1>f, UpdateTypes, BoundsAssumption
  <2>2. ProgressField(hash, p).result = 0 /\ ProgressField(mem, p).result = mem.result
    BY <1>f, FieldValues
  <2> QED BY <1>4, <1>t, <1>f, <2>1, <2>2, FieldText, FieldStep
<1>5. ASSUME NEW r \in Runs, Begin(r) PROVE FInv'
  <2>1. UNCHANGED <<job, resKey, cached, started>> /\ pc[r] = "queued" /\ pc' = [pc EXCEPT ![r] = "begun"]
    BY <1>5 DEF Begin
  <2>2. Kept /\ Unstarted' /\ \A x \in Runs : pc'[x] = "failing" => ~UsesTaskState
    BY <2>1, <1>2 DEF StoredPcs
  <2>3. ASSUME NEW s \in Fields, Text(s)
        PROVE  LET first(u) == IF Tracked THEN BeginFields(u)
                               ELSE ProgressField(BeginFields(u), 0)
               IN  first(s) \in Fields /\ first(s).result = s.result /\ Text(first(s))
    <3>1. BeginFields(s) \in Fields /\ BeginFields(s).result = s.result /\ Text(BeginFields(s))
      BY <1>f, <2>3, UpdateTypes, FieldValues, FieldText, BoundsAssumption
    <3>2. /\ ProgressField(BeginFields(s), 0) \in Fields
          /\ ProgressField(BeginFields(s), 0).result = s.result
          /\ Text(ProgressField(BeginFields(s), 0))
      BY <1>f, <3>1, UpdateTypes, FieldValues, FieldText, BoundsAssumption
    <3> QED BY <3>1, <3>2
  <2> DEFINE first(u) == IF Tracked THEN BeginFields(u) ELSE ProgressField(BeginFields(u), 0)
  <2>4. hash' \in {hash, first(hash)} /\ mem' \in {mem, first(mem)}
    BY <1>5, UpdateWrites DEF Begin
  <2>5. /\ first(hash) \in Fields /\ first(hash).result = 0 /\ Text(first(hash))
        /\ first(mem) \in Fields /\ first(mem).result = mem.result /\ Text(first(mem))
    BY <1>f, <2>3
  <2> HIDE DEF first
  <2> QED BY <1>t, <2>1, <2>2, <2>4, <2>5, FieldStep
<1>6. ASSUME NEW r \in Runs, EnterFirstPhase(r) \/ Advance(r) PROVE FInv'
  <2>1. PICK p \in pct[r]..(IF Tracked THEN MaxPct ELSE Full) :
            Update(ProgressField(hash, p), ProgressField(mem, p))
    BY <1>6 DEF EnterFirstPhase, Advance, Report
  <2>2. p \in 0..Full
    BY <2>1, <1>t, BoundsAssumption DEF TypeOK, Full
  <2>3. UNCHANGED <<job, resKey, cached, started>>
    BY <1>6 DEF EnterFirstPhase, Advance, Report
  <2>4. (pc[r] = "begun" /\ pc' = [pc EXCEPT ![r] = "phase"]) \/ pc' = pc
    BY <1>6 DEF EnterFirstPhase, Advance
  <2>5. Kept /\ Unstarted' /\ \A x \in Runs : pc'[x] = "failing" => ~UsesTaskState
    <3>1. CASE pc' = pc
      BY <2>3, <3>1, <1>3
    <3>2. CASE pc[r] = "begun" /\ pc' = [pc EXCEPT ![r] = "phase"]
      BY <2>3, <3>2, <1>2 DEF StoredPcs
    <3> QED BY <2>4, <3>1, <3>2
  <2> QED BY <1>4, <2>1, <2>2, <2>3, <2>5, UpdateWrites
<1>7. ASSUME NEW r \in Runs, Finish(r) PROVE FInv'
  <2>1. UNCHANGED <<job, resKey, cached, started>> /\ pc[r] = "phase" /\ pc' = [pc EXCEPT ![r] = "finished"]
    BY <1>7 DEF Finish
  <2>2. Kept /\ Unstarted' /\ \A x \in Runs : pc'[x] = "failing" => ~UsesTaskState
    BY <2>1, <1>2 DEF StoredPcs
  <2>3. hash' \in {hash, ProgressField(hash, Full)} /\ mem' \in {mem, ProgressField(mem, Full)}
    BY <1>7, UpdateWrites DEF Finish, keys
  <2> QED BY <1>4, <1>f, <2>1, <2>2, <2>3
<1>8. ASSUME NEW r \in Runs, LeaveEarly(r) PROVE FInv'
  <2>1. /\ UNCHANGED <<job, hash, mem, resKey, cached, started>>
        /\ pc[r] = "phase" /\ pc' = [pc EXCEPT ![r] = "early"]
    BY <1>8 DEF LeaveEarly
  <2>2. Kept /\ Unstarted' /\ \A x \in Runs : pc'[x] = "failing" => ~UsesTaskState
    BY <2>1, <1>2 DEF StoredPcs
  <2> QED BY <1>4, <1>f, <2>1, <2>2
<1>9. ASSUME NEW r \in Runs, Fail(r) PROVE FInv'
  <2>1. /\ UNCHANGED <<job, resKey, cached, started>>
        /\ pc[r] = "phase" \/ pc[r] = "finished"
    BY <1>9 DEF Fail
  <2>2. CASE UsesTaskState
    <3>1. pc' = [pc EXCEPT ![r] = "failed"] /\ Update(ErrorFields(hash), ErrorFields(mem))
      BY <1>9, <2>2 DEF Fail
    <3>2. Kept /\ Unstarted' /\ \A x \in Runs : pc'[x] = "failing" => ~UsesTaskState
      BY <2>1, <3>1, <1>2 DEF StoredPcs
    <3>3. /\ ErrorFields(hash) \in Fields /\ ErrorFields(hash).result = 0
          /\ ErrorFields(mem) \in Fields /\ ErrorFields(mem).result = mem.result
          /\ Text(ErrorFields(hash)) /\ Text(ErrorFields(mem))
      BY <1>f, UpdateTypes, FieldValues, FieldText, BoundsAssumption
    <3> QED BY <1>t, <2>1, <3>1, <3>2, <3>3, UpdateWrites, FieldStep
  <2>3. CASE ~UsesTaskState
    <3>1. /\ pc' = [pc EXCEPT ![r] = "failing"]
          /\ hash' = hash /\ mem' = [mem EXCEPT !.status = "error"]
      BY <1>9, <2>3 DEF Fail
    <3>2. Kept /\ Unstarted' /\ \A x \in Runs : pc'[x] = "failing" => ~UsesTaskState
      BY <2>1, <2>3, <3>1, <1>2 DEF StoredPcs
    <3> DEFINE m == [mem EXCEPT !.status = "error"]
    <3>3. m \in Fields /\ m.result = mem.result
      BY <1>f DEF Fields, Statuses
    <3>4. Text(m)
      BY <2>3 DEF Text
    <3>5. mem' = m
      BY <3>1
    <3> HIDE DEF m
    <3> QED BY <1>t, <1>f, <2>1, <3>1, <3>2, <3>3, <3>4, <3>5, FieldStep
  <2> QED BY <2>2, <2>3
<1>10. ASSUME NEW r \in Runs, FailText(r) PROVE FInv'
  <2>1. /\ UNCHANGED <<job, hash, resKey, cached, started>>
        /\ pc[r] = "failing" /\ pc' = [pc EXCEPT ![r] = "failed"]
        /\ mem' = [mem EXCEPT !.error = TRUE]
    BY <1>10 DEF FailText
  <2>2. Kept /\ Unstarted' /\ \A x \in Runs : pc'[x] = "failing" => ~UsesTaskState
    BY <2>1, <1>2 DEF StoredPcs
  <2> DEFINE m == [mem EXCEPT !.error = TRUE]
  <2>3. m \in Fields /\ m.result = mem.result /\ m.error
    BY <1>f DEF Fields, Statuses
  <2>4. Text(m) /\ mem' = m
    BY <2>1, <2>3 DEF Text
  <2> HIDE DEF m
  <2> QED BY <1>t, <1>f, <2>1, <2>2, <2>3, <2>4, FieldStep
<1>11. ASSUME NEW r \in Runs, StoreResult(r) PROVE FInv'
  <2>1. /\ UNCHANGED <<job, cached, started>>
        /\ pc[r] \in {"finished", "early"}
        /\ \E l \in {"stored", "earlyStored", "ended", "reported"} : pc' = [pc EXCEPT ![r] = l]
        /\ hash' = hash
        /\ resKey' \in {resKey, r}
        /\ mem' = mem \/ mem' = [mem EXCEPT !.result = r]
              \/ mem' = [DoneFields(mem) EXCEPT !.result = r]
    BY <1>11 DEF StoreResult, AfterPublish, keys, MemDone
  <2>2. Kept /\ Unstarted' /\ \A x \in Runs : pc'[x] = "failing" => ~UsesTaskState
    BY <2>1, <1>2 DEF StoredPcs
  <2>3. pc'[r] \in StoredPcs
    BY <2>1, <1>t DEF TypeOK, StoredPcs
  <2>4. \/ mem' = mem
        \/ mem'.result = r /\ (mem'.status = "error" => mem'.status = mem.status /\ mem'.error = mem.error)
    BY <2>1, <1>f DEF DoneFields, Fields
  <2>5. Sources'
    <3>1. ASSUME NEW x \in 0..MaxRuns, Stored(x) PROVE x # 0 => pc'[x] \in StoredPcs
      BY <2>2, <3>1, BoundsAssumption DEF Stored, Kept, Runs
    <3>2. resKey \in 0..MaxRuns /\ cached \in 0..MaxRuns
      BY <1>t DEF TypeOK
    <3> QED BY <1>f, <2>1, <2>3, <2>4, <3>1, <3>2 DEF FInv, Sources, Stored
  <2>6. Text(hash)' /\ Text(mem)'
    BY <1>f, <2>1, <2>4 DEF Text, UsesTaskState
  <2> QED BY <1>t, <2>1, <2>2, <2>5, <2>6 DEF FInv, UsesTaskState
<1>12. ASSUME NEW r \in Runs, Publish(r) PROVE FInv'
  <2>1. /\ UNCHANGED <<job, resKey, cached, started>>
        /\ pc[r] \in {"stored", "earlyStored"}
        /\ \E l \in {"ended", "reported"} : pc' = [pc EXCEPT ![r] = l]
    BY <1>12 DEF Publish, AfterPublish
  <2>2. Kept /\ Unstarted' /\ \A x \in Runs : pc'[x] = "failing" => ~UsesTaskState
    BY <2>1, <1>2 DEF StoredPcs
  <2>3. pc'[r] \in StoredPcs
    BY <2>1, <1>t DEF TypeOK, StoredPcs
  <2>4. /\ hash' = hash \/ hash' = DoneFields(hash)
        /\ mem' = mem \/ mem' = DoneFields(mem) \/ mem' = [DoneFields(mem) EXCEPT !.result = r]
    BY <1>12, UpdateWrites DEF Publish, MemDone
  <2>5. /\ hash'.result = 0
        /\ mem'.result \in {mem.result, r}
        /\ hash' = hash \/ hash'.status = "done"
        /\ mem' = mem \/ mem'.status = "done"
    BY <1>f, <2>4 DEF DoneFields, Fields
  <2>6. Sources'
    <3>1. ASSUME NEW x \in 0..MaxRuns, Stored(x) PROVE x # 0 => pc'[x] \in StoredPcs
      BY <2>2, <3>1, BoundsAssumption DEF Stored, Kept, Runs
    <3>2. resKey \in 0..MaxRuns /\ cached \in 0..MaxRuns
      BY <1>t DEF TypeOK
    <3> QED BY <1>f, <2>1, <2>3, <2>5, <3>1, <3>2 DEF FInv, Sources, Stored
  <2>7. Text(hash)' /\ Text(mem)'
    BY <1>f, <2>1, <2>5 DEF Text, UsesTaskState
  <2> QED BY <1>t, <2>1, <2>2, <2>6, <2>7 DEF FInv, UsesTaskState
<1>13. ASSUME NEW r \in Runs, KeepLastResult(r) PROVE FInv'
  <2>1. /\ UNCHANGED <<job, hash, resKey, mem, started>> /\ cached' = r
        /\ pc[r] = "reported" /\ pc' = [pc EXCEPT ![r] = "ended"]
    BY <1>13 DEF KeepLastResult
  <2>2. Kept /\ Unstarted' /\ \A x \in Runs : pc'[x] = "failing" => ~UsesTaskState
    BY <2>1, <1>2 DEF StoredPcs
  <2>3. pc'[r] \in StoredPcs
    BY <2>1, <1>t DEF TypeOK, StoredPcs
  <2>4. Sources'
    <3>1. ASSUME NEW x \in 0..MaxRuns, Stored(x) PROVE x # 0 => pc'[x] \in StoredPcs
      BY <2>2, <3>1, BoundsAssumption DEF Stored, Kept, Runs
    <3>2. resKey \in 0..MaxRuns
      BY <1>t DEF TypeOK
    <3> QED BY <1>f, <2>1, <2>3, <3>1, <3>2 DEF FInv, Sources, Stored
  <2> QED BY <1>t, <1>f, <2>1, <2>2, <2>4 DEF FInv, Text, UsesTaskState
<1>14. ASSUME NEW r \in Runs, Pusher(r) PROVE FInv'
  <2>1. UNCHANGED <<job, resKey, cached, started, pc>>
    BY <1>14 DEF Pusher, PusherCompute, PusherWrite
  <2>2. Kept /\ Unstarted' /\ \A x \in Runs : pc'[x] = "failing" => ~UsesTaskState
    BY <2>1, <1>3
  <2>3. \E p \in 0..Full : /\ hash' \in {hash, ProgressField(hash, p)}
                           /\ mem' \in {mem, ProgressField(mem, p)}
    <3>1. CASE PusherCompute(r)
      BY <1>f, <3>1 DEF PusherCompute
    <3>2. CASE PusherWrite(r)
      <4>1. PICK p \in pending[r] : Update(ProgressField(hash, p), ProgressField(mem, p))
        BY <3>2 DEF PusherWrite
      <4>2. p \in 0..Full
        BY <1>t, BoundsAssumption DEF TypeOK, Full
      <4> QED BY <4>1, <4>2, UpdateWrites
    <3> QED BY <1>14, <3>1, <3>2 DEF Pusher
  <2> QED BY <1>4, <2>1, <2>2, <2>3
<1>15. CASE RecsStatus
  <2>1. /\ UNCHANGED <<job, hash, resKey, cached, started, pc>> /\ job = "sectors"
        /\ mem' = [mem EXCEPT !.status = "done", !.result = cached]
    BY <1>15 DEF RecsStatus, threads
  <2>2. mem'.result = cached /\ mem'.status = "done"
    BY <1>f, <2>1 DEF Fields
  <2> QED BY <1>t, <2>1, <2>2 DEF FInv, Unstarted, Sources, Stored, Text, UsesTaskState
<1>16. CASE QuietHour
  <2>1. UNCHANGED <<job, mem, cached, started, pc>> /\ resKey' = 0 /\ hash' \in {hash, Blank}
    BY <1>16 DEF QuietHour, threads
  <2>2. Blank.result = 0 /\ Text(Blank)
    BY DEF Blank, Text
  <2> QED BY <1>t, <2>1, <2>2 DEF FInv, Unstarted, Sources, Stored, Text, UsesTaskState
<1>17. CASE CacheExpires
  BY <1>17, <1>t DEF CacheExpires, threads, FInv, Unstarted, Sources, Stored, Text, UsesTaskState
<1>18. CASE Restart
  <2>1. /\ UNCHANGED <<job, hash, resKey, started>> /\ cached' \in {cached, 0} /\ mem' = Blank
        /\ pc' = [r \in Runs |-> IF Idle(r) THEN pc[r] ELSE "killed"]
    BY <1>18 DEF Restart
  <2>2. Kept /\ \A x \in Runs : pc'[x] = "failing" => ~UsesTaskState
    BY <2>1 DEF Kept, StoredPcs, FInv
  <2>3. Unstarted'
    BY <2>1 DEF FInv, Unstarted, Idle
  <2>4. Blank.result = 0 /\ Text(Blank)
    BY DEF Blank, Text
  <2>5. Sources'
    <3>1. ASSUME NEW x \in 0..MaxRuns, Stored(x) PROVE x # 0 => pc'[x] \in StoredPcs
      BY <2>2, <3>1, BoundsAssumption DEF Stored, Kept, Runs
    <3>2. resKey \in 0..MaxRuns /\ cached \in 0..MaxRuns
      BY <1>t DEF TypeOK
    <3> QED BY <1>f, <2>1, <2>4, <3>1, <3>2 DEF FInv, Sources, Stored
  <2> QED BY <1>t, <1>f, <2>1, <2>2, <2>3, <2>4, <2>5 DEF FInv, Text, UsesTaskState
<1>19. CASE UNCHANGED vars
  BY <1>19, <1>t DEF vars, FInv, Unstarted, Sources, Stored, Text, UsesTaskState
<1> QED BY <1>1, <1>5, <1>6, <1>7, <1>8, <1>9, <1>10, <1>11, <1>12, <1>13, <1>14,
           <1>15, <1>16, <1>17, <1>18, <1>19 DEF Next, Scan, Conclude

(* The initial states satisfy the invariant.                               *)
LEMMA FInvInit == Init => FInv
<1> SUFFICES ASSUME Init PROVE FInv
  OBVIOUS
<1>1. TypeOK
  <2>1. 0 \in 0..MaxRuns /\ 0 \in 0..Full /\ 0 \in 0..MaxFaults /\ 0 \in 0..MaxRestarts
    BY BoundsAssumption DEF Full
  <2> QED BY <2>1, BlankType DEF Init, TypeOK, PcValues
<1>2. Unstarted /\ \A r \in Runs : pc[r] = "failing" => ~UsesTaskState
  BY DEF Init, Unstarted
<1>3. Sources /\ Text(hash) /\ Text(mem)
  BY DEF Init, Sources, Stored, Text, Blank
<1> QED BY <1>1, <1>2, <1>3 DEF FInv

(* The jobs on TaskState never show an error without its text (one HSET of *)
(* status and error; the dictionary is updated under its lock), however    *)
(* many commands fail and however the two places are mixed.                *)
THEOREM ErrorsHaveText == SafeSpec => []ErrorHasText
<1>1. FInv => ErrorHasText
  BY DEF FInv, Text, View, ErrorHasText
<1> QED BY <1>1, FInvInit, FInvStep, PTL DEF SafeSpec

(* A result offered by a stream was stored by the scan it belongs to,      *)
(* whatever fails and even when scans overlap.                             *)
THEOREM OfferedResultsWereStored == SafeSpec => []OfferedResultWasStored
<1>1. FInv => OfferedResultWasStored
  <2> SUFFICES ASSUME FInv PROVE OfferedResultWasStored
    OBVIOUS
  <2>1. Shown \in {0, hash.result, mem.result, resKey}
    BY DEF Shown, DoneResult, View, StoredResult
  <2>2. StreamEvent.result \in {0, hash.result, mem.result, resKey, cached}
    BY <2>1 DEF StreamEvent
  <2> QED BY <2>2 DEF FInv, Sources, Stored, StoredPcs, OfferedResultWasStored
<1> QED BY <1>1, FInvInit, FInvStep, PTL DEF SafeSpec

----------------------------------------------------------------------------
(* The page.                                                               *)

\* Whatever is left behind belongs to an instance that was mounted.
Numbered ==
    /\ es <= mounts
    /\ es = 0 => wire = {}
    /\ \A i \in Instances : get[i] # {} \/ i \in retryTimers => i <= mounts
    /\ \A n \in Presses : post[n] # "none" => owner[n] \in 1..mounts
    /\ \A n \in startTimers : post[n] = "over"
    /\ mounts = 0 => view.status = "idle"

\* The first instance has pressed start, and the request or its timer runs.
Starting(n) == owner[n] = 1 /\ (post[n] \in {"sent", "accepted"} \/ n \in startTimers)

\* Until a scan is accepted, all that is read is "idle".
NothingStarted ==
    status = "idle" /\ forgets = 0 =>
        /\ latest = 0
        /\ \A a \in wire : a.status = "idle"
        /\ \A i \in Instances : \A a \in get[i] : a.status \in {"idle", "pending"}
        /\ \A n \in Presses : post[n] # "accepted"
        /\ startTimers = {}
        /\ inst = 1 /\ view.status = "scanning"
               => \E n \in Presses : owner[n] = 1 /\ post[n] = "sent"

\* "idle" closes the stream of a page that shows a scan: only while it starts.
IdleUnread ==
    inst = 1 /\ view.status = "scanning" /\ forgets = 0 /\ (\E a \in wire : a.status = "idle")
        => \E n \in Presses : Starting(n)

CInv ==
    /\ ClientTypeOK
    /\ Numbered
    /\ NothingStarted
    /\ IdleUnread
    /\ DoneHasResult
    /\ NeverStranded
----------------------------------------------------------------------------

\* Setting the status of what is shown leaves its result alone.
LEMMA StatusSet ==
    ASSUME NEW v \in Messages, NEW s \in Statuses
    PROVE  /\ [v EXCEPT !.status = s] \in Messages
           /\ [v EXCEPT !.status = s].status = s
           /\ [v EXCEPT !.status = s].result = v.result
BY DEF Messages, Statuses

LEMMA NothingShown ==
    ASSUME NEW s \in Statuses
    PROVE  /\ [status |-> s, result |-> 0] \in Messages
           /\ [status |-> s, result |-> 0].status = s
           /\ [status |-> s, result |-> 0].result = 0
BY ClientBounds DEF Messages, MaxScans, Statuses

LEMMA PendingStatus == Pending.status = "pending" /\ Pending \notin Messages
BY DEF Pending, Messages

\* Only an idle endpoint whose scans are over has a result to recall.
LEMMA AnswerFacts ==
    ASSUME ClientTypeOK, NEW a \in Answers
    PROVE  /\ a \in Messages
           /\ status # "idle" => a.status = status
           /\ status = "idle" /\ latest = 0 => a.status = "idle"
<1>1. CASE status = "idle" /\ a = [status |-> "idle", result |-> 0]
  BY <1>1, NothingShown DEF Statuses
<1>2. CASE status = "idle" /\ \E r \in 1..latest : a = [status |-> "done", result |-> r]
  BY <1>2, ClientBounds DEF ClientTypeOK, Messages, MaxScans
<1>3. CASE status # "idle"
  BY <1>3, ClientBounds DEF ClientTypeOK, Answers, Messages, MaxScans
<1> QED BY <1>1, <1>2, <1>3 DEF Answers

LEMMA CInvInit == ClientInit => CInv
<1> SUFFICES ASSUME ClientInit PROVE CInv
  OBVIOUS
<1>1. view \in Messages /\ view.status = "idle" /\ view.result = 0
  BY NothingShown DEF ClientInit, Statuses
<1>2. ClientTypeOK
  <2>1. get \in [Instances -> SUBSET (Messages \cup {Pending})]
    BY DEF ClientInit
  <2>2. post \in [Presses -> {"none", "sent", "accepted", "over"}] /\ owner \in [Presses -> 0..MaxMounts]
    BY ClientBounds DEF ClientInit
  <2>3. 0 \in 0..MaxScans /\ 0 \in 0..MaxMounts /\ 0 \in 0..MaxOthers /\ 0 \in 0..MaxDrops /\ 0 \in 0..MaxForgets
    BY ClientBounds DEF MaxScans
  <2> QED BY <1>1, <2>1, <2>2, <2>3 DEF ClientInit, Job!Init, ClientTypeOK
<1>3. Numbered /\ NothingStarted
  BY <1>1 DEF ClientInit, Job!Init, Numbered, NothingStarted
<1>4. IdleUnread /\ DoneHasResult /\ NeverStranded
  BY <1>1 DEF ClientInit, IdleUnread, DoneHasResult, NeverStranded
<1> QED BY <1>2, <1>3, <1>4 DEF CInv

LEMMA MountStep ==
    ASSUME CInv, Mount
    PROVE  CInv'
<1> USE ClientBounds DEF CInv, Mount, ConnectSSE, server, stream, requests, timers, bounds
<1>1. ClientTypeOK'
  <2>1. mounts + 1 \in Instances /\ mounts' \in 0..MaxMounts /\ es' \in 0..MaxMounts
    BY DEF ClientTypeOK, Instances
  <2>2. get' \in [Instances -> SUBSET (Messages \cup {Pending})]
    BY <2>1 DEF ClientTypeOK
  <2> QED BY <2>1, <2>2 DEF ClientTypeOK, MaxScans
<1>2. Numbered'
  BY DEF ClientTypeOK, Numbered, Instances
<1>3. NothingStarted'
  BY DEF ClientTypeOK, Numbered, NothingStarted, Pending
<1>4. IdleUnread'
  BY DEF ClientTypeOK, Numbered, NothingStarted, IdleUnread, Starting
<1>5. DoneHasResult'
  BY DEF DoneHasResult
<1>6. NeverStranded'
  BY DEF ClientTypeOK, Numbered, NeverStranded, Followed
<1> QED BY <1>1, <1>2, <1>3, <1>4, <1>5, <1>6

LEMMA UnmountStep ==
    ASSUME CInv, Unmount
    PROVE  CInv'
<1> USE ClientBounds DEF CInv, Unmount, server, stream, requests, timers, bounds
<1>1. ClientTypeOK'
  BY DEF ClientTypeOK, MaxScans
<1>2. Numbered'
  BY DEF Numbered
<1>3. NothingStarted'
  BY DEF NothingStarted
<1>4. IdleUnread'
  BY DEF IdleUnread, Starting
<1>5. DoneHasResult'
  BY DEF DoneHasResult
<1>6. NeverStranded'
  BY DEF NeverStranded, Followed
<1> QED BY <1>1, <1>2, <1>3, <1>4, <1>5, <1>6

LEMMA PressStartStep ==
    ASSUME CInv, NEW n \in Presses, PressStart(n)
    PROVE  CInv'
<1> USE ClientBounds DEF CInv, PressStart, CloseSSE, server, stream, requests, timers, bounds
<1>1. ClientTypeOK'
  <2>1. view' \in Messages
    BY NothingShown DEF Statuses
  <2>2. post' \in [Presses -> {"none", "sent", "accepted", "over"}]
    BY DEF ClientTypeOK
  <2>3. owner' \in [Presses -> 0..MaxMounts] /\ es' \in 0..MaxMounts
    BY DEF ClientTypeOK
  <2> QED BY <2>1, <2>2, <2>3 DEF ClientTypeOK, MaxScans
<1>2. Numbered'
  BY DEF ClientTypeOK, Numbered
<1>3. NothingStarted'
  BY DEF ClientTypeOK, NothingStarted
<1>4. IdleUnread'
  BY DEF IdleUnread, Starting
<1>5. DoneHasResult'
  BY DEF DoneHasResult
<1>6. NeverStranded'
  BY DEF ClientTypeOK, NeverStranded, Followed
<1> QED BY <1>1, <1>2, <1>3, <1>4, <1>5, <1>6

LEMMA ServePostStep ==
    ASSUME CInv, NEW n \in Presses, ServePost(n)
    PROVE  CInv'
<1> USE ClientBounds DEF CInv, ServePost, Job!Start, server, stream, requests, timers, bounds
<1>1. ClientTypeOK'
  BY DEF ClientTypeOK, MaxScans
<1>2. Numbered'
  BY DEF Numbered
<1>3. NothingStarted'
  BY DEF NothingStarted
<1>4. IdleUnread'
  BY DEF IdleUnread, Starting
<1>5. DoneHasResult'
  BY DEF DoneHasResult
<1>6. NeverStranded'
  BY DEF NeverStranded, Followed
<1> QED BY <1>1, <1>2, <1>3, <1>4, <1>5, <1>6

LEMMA PostReplyStep ==
    ASSUME CInv, NEW n \in Presses, PostReply(n)
    PROVE  CInv'
<1> USE ClientBounds DEF CInv, PostReply, server, stream, requests, timers, bounds
<1>1. ClientTypeOK'
  BY DEF ClientTypeOK, MaxScans
<1>2. Numbered'
  BY DEF ClientTypeOK, Numbered
<1>3. NothingStarted'
  BY DEF NothingStarted
<1>4. IdleUnread'
  BY DEF IdleUnread, Starting
<1>5. DoneHasResult'
  BY DEF DoneHasResult
<1>6. NeverStranded'
  BY DEF NeverStranded, Followed
<1> QED BY <1>1, <1>2, <1>3, <1>4, <1>5, <1>6

LEMMA PostFailureStep ==
    ASSUME CInv, NEW n \in Presses, PostFailure(n)
    PROVE  CInv'
<1> USE ClientBounds DEF CInv, PostFailure, SetView, server, stream, requests, timers, bounds
<1> DEFINE failed == [view EXCEPT !.status = "error"]
<1>a. failed \in Messages /\ failed.status = "error" /\ failed.result = view.result
  BY StatusSet DEF ClientTypeOK, Statuses
<1>b. view' \in {view, failed} /\ (inst = owner[n] => view' = failed)
  OBVIOUS
<1> HIDE DEF failed
<1>c. view'.status # "error" => view' = view /\ inst # owner[n]
  BY <1>a, <1>b
<1>1. ClientTypeOK'
  <2>1. post' \in [Presses -> {"none", "sent", "accepted", "over"}]
    BY DEF ClientTypeOK
  <2> QED BY <1>a, <1>b, <2>1 DEF ClientTypeOK, MaxScans
<1>2. Numbered'
  BY DEF Numbered
<1>3. NothingStarted'
  <2>1. status = "idle" /\ forgets = 0 /\ inst = 1 /\ view'.status = "scanning"
            => \E m \in Presses : owner[m] = 1 /\ post'[m] = "sent"
    BY <1>c DEF ClientTypeOK, NothingStarted
  <2> QED BY <2>1 DEF ClientTypeOK, NothingStarted
<1>4. IdleUnread'
  BY <1>c DEF ClientTypeOK, IdleUnread, Starting
<1>5. DoneHasResult'
  BY <1>c DEF DoneHasResult
<1>6. NeverStranded'
  BY <1>c DEF ClientTypeOK, NeverStranded, Followed
<1> QED BY <1>1, <1>2, <1>3, <1>4, <1>5, <1>6

LEMMA ServeGetStep ==
    ASSUME CInv, NEW i \in Instances, ServeGet(i)
    PROVE  CInv'
<1> USE ClientBounds DEF CInv, ServeGet, server, stream, requests, timers, bounds
<1>1. ClientTypeOK'
  BY AnswerFacts DEF ClientTypeOK, MaxScans
<1>2. Numbered'
  BY DEF Numbered
<1>3. NothingStarted'
  BY AnswerFacts DEF ClientTypeOK, Numbered, NothingStarted
<1>4. IdleUnread'
  BY DEF IdleUnread, Starting
<1>5. DoneHasResult'
  BY DEF DoneHasResult
<1>6. NeverStranded'
  BY DEF NeverStranded, Followed
<1> QED BY <1>1, <1>2, <1>3, <1>4, <1>5, <1>6

LEMMA GetReplyStep ==
    ASSUME CInv, NEW i \in Instances, GetReply(i)
    PROVE  CInv'
<1> USE ClientBounds DEF CInv, GetReply, ConnectSSE, server, stream, requests, timers, bounds
<1> PICK a \in get[i] :
        /\ a # Pending
        /\ get' = [get EXCEPT ![i] = {}]
        /\ IF inst = i /\ a.status = "done" /\ a.result # 0
           THEN view' = a /\ UNCHANGED stream
           ELSE IF inst = i /\ a.status = "scanning"
           THEN view' = [view EXCEPT !.status = "scanning"] /\ ConnectSSE(i)
           ELSE UNCHANGED <<view, stream>>
  OBVIOUS
<1> DEFINE scanning == [view EXCEPT !.status = "scanning"]
<1>a. scanning \in Messages /\ scanning.status = "scanning"
  BY StatusSet DEF ClientTypeOK, Statuses
<1>b. \/ inst = i /\ a.status = "done" /\ a.result # 0 /\ view' = a /\ UNCHANGED stream
      \/ inst = i /\ a.status = "scanning" /\ view' = scanning /\ ConnectSSE(i)
      \/ UNCHANGED <<view, stream>>
  OBVIOUS
<1>c. a \in Messages /\ i \in 0..MaxMounts
  BY DEF ClientTypeOK, Instances
<1> HIDE DEF scanning
<1>1. ClientTypeOK'
  <2>1. view' \in Messages /\ es' \in 0..MaxMounts /\ wire' \in SUBSET Messages /\ ended' \in BOOLEAN
    BY <1>a, <1>b, <1>c DEF ClientTypeOK
  <2> QED BY <2>1 DEF ClientTypeOK, MaxScans
<1>2. Numbered'
  BY DEF ClientTypeOK, Numbered, Instances
<1>3. NothingStarted'
  BY DEF NothingStarted
<1>4. IdleUnread'
  BY DEF IdleUnread, Starting
<1>5. DoneHasResult'
  BY <1>a, <1>b DEF DoneHasResult
<1>6. NeverStranded'
  BY DEF NeverStranded, Followed
<1> QED BY <1>1, <1>2, <1>3, <1>4, <1>5, <1>6

LEMMA GetFailureStep ==
    ASSUME CInv, NEW i \in Instances, GetFailure(i)
    PROVE  CInv'
<1> USE ClientBounds DEF CInv, GetFailure, server, stream, requests, timers, bounds
<1>1. ClientTypeOK'
  BY DEF ClientTypeOK, MaxScans
<1>2. Numbered'
  BY DEF Numbered
<1>3. NothingStarted'
  BY DEF NothingStarted
<1>4. IdleUnread'
  BY DEF IdleUnread, Starting
<1>5. DoneHasResult'
  BY DEF DoneHasResult
<1>6. NeverStranded'
  BY DEF NeverStranded, Followed
<1> QED BY <1>1, <1>2, <1>3, <1>4, <1>5, <1>6

LEMMA StartTimerStep ==
    ASSUME CInv, NEW n \in Presses, StartTimer(n)
    PROVE  CInv'
<1> USE ClientBounds DEF CInv, StartTimer, ConnectSSE, server, stream, requests, timers, bounds
<1>1. ClientTypeOK'
  BY DEF ClientTypeOK, MaxScans
<1>2. Numbered'
  BY DEF Numbered
<1>3. NothingStarted'
  BY DEF NothingStarted
<1>4. IdleUnread'
  BY DEF IdleUnread, Starting
<1>5. DoneHasResult'
  BY DEF DoneHasResult
<1>6. NeverStranded'
  BY DEF ClientTypeOK, Numbered, NeverStranded, Followed
<1> QED BY <1>1, <1>2, <1>3, <1>4, <1>5, <1>6

LEMMA RetryTimerStep ==
    ASSUME CInv, NEW i \in Instances, RetryTimer(i)
    PROVE  CInv'
<1> USE ClientBounds DEF CInv, RetryTimer, ConnectSSE, server, stream, requests, timers, bounds
<1>1. ClientTypeOK'
  <2>1. \/ es' = i /\ wire' = {} /\ ended' = FALSE
        \/ UNCHANGED <<es, wire, ended>>
    OBVIOUS
  <2>2. es' \in 0..MaxMounts /\ wire' \in SUBSET Messages
    BY <2>1 DEF ClientTypeOK, Instances
  <2>3. ended' \in BOOLEAN
    BY <2>1 DEF ClientTypeOK
  <2> QED BY <2>2, <2>3 DEF ClientTypeOK, MaxScans
<1>2. Numbered'
  BY DEF Numbered
<1>3. NothingStarted'
  BY DEF NothingStarted
<1>4. IdleUnread'
  BY DEF IdleUnread, Starting
<1>5. DoneHasResult'
  BY DEF DoneHasResult
<1>6. NeverStranded'
  BY DEF NeverStranded, Followed
<1> QED BY <1>1, <1>2, <1>3, <1>4, <1>5, <1>6

LEMMA StreamSendStep ==
    ASSUME CInv, StreamSend
    PROVE  CInv'
<1> USE ClientBounds DEF CInv, StreamSend, server, stream, requests, timers, bounds
<1>1. ClientTypeOK'
  BY AnswerFacts DEF ClientTypeOK, MaxScans
<1>2. Numbered'
  BY DEF Numbered
<1>3. NothingStarted'
  BY AnswerFacts DEF ClientTypeOK, NothingStarted
<1>4. IdleUnread'
  BY AnswerFacts DEF ClientTypeOK, NothingStarted, IdleUnread, Starting
<1>5. DoneHasResult'
  BY DEF DoneHasResult
<1>6. NeverStranded'
  BY DEF NeverStranded, Followed
<1> QED BY <1>1, <1>2, <1>3, <1>4, <1>5, <1>6

LEMMA OnMessageStep ==
    ASSUME CInv, OnMessage
    PROVE  CInv'
<1> USE ClientBounds DEF CInv, OnMessage, server, stream, requests, timers, bounds
<1> PICK a \in wire :
        IF inst = es THEN Message(a) ELSE wire' = {} /\ UNCHANGED <<view, es, ended>>
  OBVIOUS
<1> DEFINE shows(s) == [view EXCEPT !.status = s]
<1>a. \A s \in {"error", "scanning"} :
          shows(s) \in Messages /\ shows(s).status = s /\ shows(s).result = view.result
  BY StatusSet DEF ClientTypeOK, Statuses
<1>b. \/ inst = es /\ a.status = "done" /\ a.result # 0 /\ CloseSSE /\ view' = a
      \/ inst = es /\ a.status = "error" /\ CloseSSE /\ view' = shows("error")
      \/ inst = es /\ a.status = "idle" /\ CloseSSE /\ UNCHANGED view
      \/ inst = es /\ a.status = "scanning" /\ wire' = {} /\ view' = shows("scanning") /\ UNCHANGED <<es, ended>>
      \/ wire' = {} /\ UNCHANGED <<view, es, ended>>
  BY DEF Message
<1>c. a \in Messages /\ wire' = {}
  BY DEF ClientTypeOK, Message, CloseSSE
<1> HIDE DEF shows
<1>1. ClientTypeOK'
  <2>1. \/ es' = 0 /\ ended' = FALSE
        \/ UNCHANGED <<es, ended>>
    BY <1>b DEF CloseSSE
  <2>2. view' \in Messages
    BY <1>a, <1>b, <1>c DEF ClientTypeOK
  <2>3. es' \in 0..MaxMounts
    BY <2>1 DEF ClientTypeOK
  <2>4. ended' \in BOOLEAN
    BY <2>1 DEF ClientTypeOK
  <2> QED BY <1>c, <2>2, <2>3, <2>4 DEF ClientTypeOK, MaxScans
<1>2. Numbered'
  <2>1. es' <= mounts
    BY <1>b DEF ClientTypeOK, Numbered, CloseSSE
  <2>2. mounts = 0 => view'.status = "idle"
    <3> SUFFICES ASSUME mounts = 0 PROVE view'.status = "idle"
      OBVIOUS
    <3>1. es = 0 /\ wire = {}
      BY DEF ClientTypeOK, Numbered
    <3> QED BY <3>1
  <2> QED BY <1>c, <2>1, <2>2 DEF ClientTypeOK, Numbered
<1>3. NothingStarted'
  BY <1>b, <1>c DEF ClientTypeOK, Numbered, NothingStarted
<1>4. IdleUnread'
  BY <1>c DEF IdleUnread
<1>5. DoneHasResult'
  BY <1>a, <1>b DEF DoneHasResult
<1>6. NeverStranded'
  <2> SUFFICES ASSUME inst = 1, view'.status = "scanning", forgets = 0 PROVE Followed(1)'
    BY DEF NeverStranded
  <2>1. CASE a.status = "idle" /\ inst = es /\ CloseSSE /\ UNCHANGED view
    BY <2>1 DEF IdleUnread, Starting, Followed, CloseSSE
  <2>2. CASE a.status = "scanning" /\ inst = es /\ UNCHANGED es
    BY <2>2 DEF Followed
  <2>3. CASE UNCHANGED <<view, es>>
    BY <2>3 DEF NeverStranded, Followed
  <2>4. view' # shows("error") /\ (a.status = "done" => view' # a)
    BY <1>a
  <2> QED BY <1>b, <2>1, <2>2, <2>3, <2>4
<1> QED BY <1>1, <1>2, <1>3, <1>4, <1>5, <1>6

LEMMA OnErrorStep ==
    ASSUME CInv, OnError
    PROVE  CInv'
<1> USE ClientBounds DEF CInv, OnError, CloseSSE, server, stream, requests, timers, bounds
<1>1. ClientTypeOK'
  <2>1. drops' \in 0..MaxDrops
    BY DEF ClientTypeOK
  <2>2. retryTimers' \in SUBSET Instances /\ es' \in 0..MaxMounts
    BY DEF ClientTypeOK, Instances
  <2> QED BY <2>1, <2>2 DEF ClientTypeOK, MaxScans
<1>2. Numbered'
  BY DEF ClientTypeOK, Numbered
<1>3. NothingStarted'
  BY DEF NothingStarted
<1>4. IdleUnread'
  BY DEF IdleUnread, Starting
<1>5. DoneHasResult'
  BY DEF DoneHasResult
<1>6. NeverStranded'
  BY DEF NeverStranded, Followed
<1> QED BY <1>1, <1>2, <1>3, <1>4, <1>5, <1>6

LEMMA VisibleStep ==
    ASSUME CInv, Visible
    PROVE  CInv'
<1> USE ClientBounds DEF CInv, Visible, ConnectSSE, server, stream, requests, timers, bounds
<1>1. ClientTypeOK'
  BY DEF ClientTypeOK, MaxScans
<1>2. Numbered'
  BY DEF ClientTypeOK, Numbered
<1>3. NothingStarted'
  BY DEF NothingStarted
<1>4. IdleUnread'
  BY DEF IdleUnread, Starting
<1>5. DoneHasResult'
  BY DEF DoneHasResult
<1>6. NeverStranded'
  BY DEF NeverStranded, Followed
<1> QED BY <1>1, <1>2, <1>3, <1>4, <1>5, <1>6

LEMMA ScanEndsStep ==
    ASSUME CInv, ScanEnds
    PROVE  CInv'
<1> USE ClientBounds DEF CInv, ScanEnds, Job!Succeed, Job!Fail, client, server, stream, requests, timers, bounds
<1>1. ClientTypeOK'
  BY DEF ClientTypeOK, MaxScans
<1>2. Numbered'
  BY DEF Numbered
<1>3. NothingStarted'
  BY DEF NothingStarted
<1>4. IdleUnread'
  BY DEF IdleUnread, Starting
<1>5. DoneHasResult'
  BY DEF DoneHasResult
<1>6. NeverStranded'
  BY DEF NeverStranded, Followed
<1> QED BY <1>1, <1>2, <1>3, <1>4, <1>5, <1>6

LEMMA OtherStartStep ==
    ASSUME CInv, OtherStart
    PROVE  CInv'
<1> USE ClientBounds DEF CInv, OtherStart, Job!Start, client, server, stream, requests, timers, bounds
<1>1. ClientTypeOK'
  BY DEF ClientTypeOK, MaxScans
<1>2. Numbered'
  BY DEF Numbered
<1>3. NothingStarted'
  BY DEF NothingStarted
<1>4. IdleUnread'
  BY DEF IdleUnread, Starting
<1>5. DoneHasResult'
  BY DEF DoneHasResult
<1>6. NeverStranded'
  BY DEF NeverStranded, Followed
<1> QED BY <1>1, <1>2, <1>3, <1>4, <1>5, <1>6

LEMMA ForgetsStep ==
    ASSUME CInv, Forgets
    PROVE  CInv'
<1> USE ClientBounds DEF CInv, Forgets, Job!Forget, Job!ForgetResult, client, server, stream, requests, timers, bounds
<1>1. ClientTypeOK'
  BY DEF ClientTypeOK, MaxScans
<1>2. Numbered'
  BY DEF Numbered
<1>3. NothingStarted'
  BY DEF ClientTypeOK, NothingStarted
<1>4. IdleUnread'
  BY DEF ClientTypeOK, IdleUnread, Starting
<1>5. DoneHasResult'
  BY DEF DoneHasResult
<1>6. NeverStranded'
  BY DEF ClientTypeOK, NeverStranded, Followed
<1> QED BY <1>1, <1>2, <1>3, <1>4, <1>5, <1>6

LEMMA CInvStep == CInv /\ [ClientNext]_clientVars => CInv'
<1> SUFFICES ASSUME CInv, [ClientNext]_clientVars PROVE CInv'
  OBVIOUS
<1>1. CASE User
  BY <1>1, MountStep, UnmountStep, VisibleStep, PressStartStep DEF User
<1>2. CASE Network
  BY <1>2, StreamSendStep, ServePostStep, PostFailureStep, ServeGetStep, GetFailureStep DEF Network
<1>3. CASE Handlers
  BY <1>3, OnMessageStep, OnErrorStep, PostReplyStep, StartTimerStep, GetReplyStep, RetryTimerStep
     DEF Handlers
<1>4. CASE ScanEnds \/ OtherStart \/ Forgets
  BY <1>4, ScanEndsStep, OtherStartStep, ForgetsStep
<1>5. CASE UNCHANGED clientVars
  BY <1>5 DEF clientVars, server, stream, requests, timers, bounds, CInv, ClientTypeOK, Numbered, NothingStarted,
     IdleUnread, Starting, DoneHasResult, NeverStranded, Followed
<1> QED BY <1>1, <1>2, <1>3, <1>4, <1>5 DEF ClientNext

(* The hook, composed with an endpoint that answers as ScanJob, keeps the  *)
(* invariant through every mount, press, message, timer and failure.       *)
LEMMA CInvHolds == ClientSafeSpec => []CInv
<1> QED BY CInvInit, CInvStep, PTL DEF ClientSafeSpec

(* Whatever the endpoint has forgotten, and whichever instance a late      *)
(* reply or message reaches, a page that shows "done" has a result to show.*)
THEOREM DoneAlwaysHasResult == ClientSafeSpec => []DoneHasResult
<1>1. CInv => DoneHasResult
  BY DEF CInv
<1> QED BY CInvHolds, <1>1, PTL

(* The page mounted first never shows a running scan that nothing of it    *)
(* follows, unless the endpoint has forgotten the scan.                    *)
THEOREM FirstMountNotStranded == ClientSafeSpec => []NeverStranded
<1>1. CInv => NeverStranded
  BY DEF CInv
<1> QED BY CInvHolds, <1>1, PTL

\* The types of the hook's state, whatever the bounds.
THEOREM ClientTypes == ClientSafeSpec => []ClientTypeOK
<1>1. CInv => ClientTypeOK
  BY DEF CInv
<1> QED BY CInvHolds, <1>1, PTL
=============================================================================
