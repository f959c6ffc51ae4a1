--------------------------- MODULE PipelineProofs ---------------------------
(***************************************************************************)
(* For any number of processes and threads, any views and texts and any    *)
(* times to live.  LInv: the regime lock is held by a thread of its        *)
(* process that is computing the regime, or by nobody.  AInv: the steps of *)
(* a job come in an order (Ordered) that bounds the age of what each step  *)
(* carries (Sound), and with it the age of what is cached (Fresh).  FInv:  *)
(* where the first text is cached a job will come to the missing ones.     *)
(***************************************************************************)
EXTENDS Pipeline, TLAPS

\* The fields of a job this is about.
Shape(r) == {"at", "todo", "calls"} \subseteq DOMAIN r

LInv ==
    /\ home \in [Threads -> Procs]
    /\ lock \in [Procs -> Threads \cup {NoThread}]
    /\ DOMAIN job = Threads
    /\ \A t \in Threads :
         /\ Shape(job[t])
         /\ job[t].calls # <<>> => \E s \in {"dashboard", "prewarm"} : Step(t, s)
    /\ LockHolderWorks

\* A job that waits for no text.
Quiet(r) == Shape(r) /\ r.at # "holding" /\ r.calls = <<>>

LEMMA NoJobQuiet == Quiet(NoJob) /\ NoJob.at = "idle"
  BY DEF NoJob, Quiet, Shape

LEMMA InitialLock == Init => LInv
<1> SUFFICES ASSUME Init PROVE LInv
  OBVIOUS
<1>1. home \in [Threads -> Procs]
  BY PipelineBounds DEF Init
<1>2. lock \in [Procs -> Threads \cup {NoThread}] /\ \A p \in Procs : lock[p] = NoThread
  BY DEF Init
<1>3. DOMAIN job = Threads /\ \A t \in Threads : job[t] = NoJob
  BY DEF Init
<1>4. LockHolderWorks
  BY <1>2, <1>3, NoJobQuiet, PipelineBounds DEF LockHolderWorks, Quiet
<1> QED BY <1>1, <1>2, <1>3, <1>4, NoJobQuiet DEF LInv, Quiet

----------------------------------------------------------------------------
(* How a job goes on.                                                      *)

LEMMA GoOnFacts ==
    ASSUME NEW t, NEW j, NEW todo, Shape(j), j.calls = <<>>, GoOn(t, j, todo)
    PROVE  \E r : Quiet(r) /\ job' = [job EXCEPT ![t] = r]
<1> DEFINE next == [j EXCEPT !.todo = todo, !.at = "step", !.spent = 0,
                             !.got = IF Head(todo) = "full" THEN @ ELSE None,
                             !.obs = IF Head(todo) \in {"regime"} \cup Prefetched THEN @ ELSE None]
           r == IF todo = <<>> THEN NoJob ELSE next
<1>1. job' = [job EXCEPT ![t] = r]
  BY DEF GoOn
<1>2. Quiet(next)
  BY DEF Quiet, Shape
<1>3. Quiet(r)
  BY <1>2, NoJobQuiet
<1> QED BY <1>1, <1>3

LEMMA ContinueFacts ==
    ASSUME NEW t, NEW j, Shape(j), j.calls = <<>>, Continue(t, j)
    PROVE  \E r : Quiet(r) /\ job' = [job EXCEPT ![t] = r]
  BY GoOnFacts DEF Continue

LEMMA AfterRegimeFacts ==
    ASSUME NEW t, NEW got, Shape(job[t]), job[t].calls = <<>>, AfterRegime(t, got)
    PROVE  \E r : Quiet(r) /\ job' = [job EXCEPT ![t] = r]
<1> DEFINE j == [job[t] EXCEPT !.got = got]
<1>1. \E todo : GoOn(t, j, todo)
  BY DEF AfterRegime
<1>2. Shape(j) /\ j.calls = <<>>
  BY DEF Shape
<1> HIDE DEF j
<1> QED BY <1>1, <1>2, GoOnFacts

\* A thread without the lock goes on; the locks stay.
LEMMA JobStep ==
    ASSUME LInv, NEW t \in Threads, NEW r, Quiet(r), job[t].at # "holding",
           job' = [job EXCEPT ![t] = r], UNCHANGED <<home, lock>>
    PROVE  LInv'
<1>1. job'[t] = r /\ DOMAIN job' = Threads /\ \A u \in Threads \ {t} : job'[u] = job[u]
  BY DEF LInv
<1>2. \A u \in Threads :
        /\ Shape(job'[u])
        /\ job'[u].calls # <<>> => \E s \in {"dashboard", "prewarm"} : Step(u, s)'
  BY <1>1 DEF LInv, Quiet, Step
<1>3. LockHolderWorks'
  BY <1>1 DEF LInv, LockHolderWorks, Quiet
<1> QED BY <1>1, <1>2, <1>3 DEF LInv

LEMMA BeginFacts ==
    ASSUME LInv, NEW t \in Threads, NEW start, NEW todo, Shape(start), start.calls = <<>>,
           Begin(t, start, todo)
    PROVE  LInv'
<1> DEFINE r == [start EXCEPT !.at = "step", !.todo = todo]
<1>1. Quiet(r)
  BY DEF Quiet, Shape
<1>2. job' = [job EXCEPT ![t] = r] /\ job[t].at # "holding" /\ UNCHANGED <<home, lock>>
  BY DEF Begin
<1> HIDE DEF r
<1> QED BY <1>1, <1>2, JobStep

\* Every request and every scheduled job begins in one of these ways.
LEMMA RequestsKeep ==
    ASSUME LInv, NEW t \in Threads,
           \/ Scheduled(t) \/ Warmup(t) \/ TriggerPipelineRefresh(t)
           \/ GetCurrentRegime(t) \/ ForceCurrentRegime(t)
           \/ \E k \in Views : GetView(t, k)
    PROVE  LInv'
<1> DEFINE kept(got) == [NoJob EXCEPT !.got = got]
<1>1. /\ Shape(NoJob) /\ NoJob.calls = <<>>
      /\ \A got : Shape(kept(got)) /\ kept(got).calls = <<>>
  BY DEF NoJob, Shape
<1>2. \E todo : Begin(t, NoJob, todo) \/ \E got : Begin(t, kept(got), todo)
  BY DEF Scheduled, Warmup, TriggerPipelineRefresh, GetCurrentRegime, ForceCurrentRegime, GetView
<1> HIDE DEF kept
<1> QED BY <1>1, <1>2, BeginFacts

----------------------------------------------------------------------------
(* The steps.                                                              *)

\* A step that is no call for texts.
LEMMA StepFacts ==
    ASSUME LInv, NEW t \in Threads, NEW s, Step(t, s), s \notin {"dashboard", "prewarm"}
    PROVE  Shape(job[t]) /\ job[t].calls = <<>> /\ job[t].at # "holding"
  BY DEF LInv, Step

LEMMA EnterKeeps == ASSUME LInv, NEW t \in Threads, EnterRegime(t) PROVE LInv'
<1> DEFINE r == [job[t] EXCEPT !.at = "holding", !.spent = 0]
<1>1. Shape(job[t]) /\ job[t].calls = <<>> /\ job[t].at # "holding"
  BY StepFacts DEF EnterRegime
<1>2. Shape(r) /\ r.calls = <<>> /\ r.at = "holding"
  BY <1>1 DEF Shape
<1>3. job' = [job EXCEPT ![t] = r]
  BY DEF EnterRegime
<1> HIDE DEF r
<1>4. job'[t] = r /\ DOMAIN job' = Threads /\ \A u \in Threads \ {t} : job'[u] = job[u]
  BY <1>3 DEF LInv
<1>5. /\ home \in [Threads -> Procs] /\ home' = home /\ lock[home[t]] = NoThread
      /\ lock \in [Procs -> Threads \cup {NoThread}] /\ lock' = [lock EXCEPT ![home[t]] = t]
  BY DEF EnterRegime, LInv
<1>6. /\ lock' \in [Procs -> Threads \cup {NoThread}] /\ lock'[home[t]] = t
      /\ \A p \in Procs \ {home[t]} : lock'[p] = lock[p]
  BY <1>5
<1>7. LockHolderWorks'
  <2> SUFFICES ASSUME NEW p \in Procs, NEW u \in Threads
               PROVE  lock'[p] = u <=> home[u] = p /\ job'[u].at = "holding"
    BY <1>5 DEF LockHolderWorks
  <2>1. lock[p] = u <=> home[u] = p /\ job[u].at = "holding"
    BY DEF LInv, LockHolderWorks
  <2> QED BY <1>1, <1>2, <1>4, <1>5, <1>6, <2>1, PipelineBounds
<1>8. \A u \in Threads :
        /\ Shape(job'[u])
        /\ job'[u].calls # <<>> => \E s \in {"dashboard", "prewarm"} : Step(u, s)'
  BY <1>2, <1>4 DEF LInv, Step
<1> QED BY <1>4, <1>5, <1>6, <1>7, <1>8 DEF LInv

LEMMA RefreshKeeps == ASSUME LInv, NEW t \in Threads, RefreshRegime(t) PROVE LInv'
<1>1. /\ Shape(job[t]) /\ job[t].calls = <<>> /\ job[t].at = "holding"
      /\ home \in [Threads -> Procs] /\ home' = home
  BY DEF LInv, RefreshRegime, Step
<1>2. PICK got : AfterRegime(t, got)
  BY DEF RefreshRegime
<1>3. lock' = [lock EXCEPT ![home[t]] = NoThread]
  BY DEF RefreshRegime, Released
<1>4. PICK r : Quiet(r) /\ job' = [job EXCEPT ![t] = r]
  BY <1>1, <1>2, AfterRegimeFacts
<1>5. job'[t] = r /\ DOMAIN job' = Threads /\ \A u \in Threads \ {t} : job'[u] = job[u]
  BY <1>4 DEF LInv
<1>6. /\ lock' \in [Procs -> Threads \cup {NoThread}] /\ lock'[home[t]] = NoThread
      /\ \A p \in Procs \ {home[t]} : lock'[p] = lock[p]
  BY <1>1, <1>3 DEF LInv
<1>7. LockHolderWorks'
  <2> SUFFICES ASSUME NEW p \in Procs, NEW u \in Threads
               PROVE  lock'[p] = u <=> home[u] = p /\ job'[u].at = "holding"
    BY <1>1 DEF LockHolderWorks
  <2>1. lock[p] = u <=> home[u] = p /\ job[u].at = "holding"
    BY DEF LInv, LockHolderWorks
  <2>2. lock[home[t]] = t
    BY <1>1 DEF LInv, LockHolderWorks
  <2> QED BY <1>1, <1>4, <1>5, <1>6, <2>1, <2>2, PipelineBounds DEF Quiet
<1>8. \A u \in Threads :
        /\ Shape(job'[u])
        /\ job'[u].calls # <<>> => \E s \in {"dashboard", "prewarm"} : Step(u, s)'
  BY <1>4, <1>5 DEF LInv, Step, Quiet
<1> QED BY <1>1, <1>5, <1>6, <1>7, <1>8 DEF LInv

\* The steps of one thread that neither take nor give back the lock.
LEMMA OtherStepsKeep ==
    ASSUME LInv, NEW t \in Threads,
           \/ Prefetch(t) \/ LockTimeout(t) \/ KeepFull(t)
           \/ \E k \in Views : RefreshView(t, k)
    PROVE  LInv'
<1>1. CASE Prefetch(t)
  <2> DEFINE j == [job[t] EXCEPT !.obs = job[t].spent]
  <2>1. Shape(job[t]) /\ job[t].calls = <<>> /\ job[t].at # "holding" /\ UNCHANGED <<home, lock>>
    BY <1>1, StepFacts DEF Prefetch
  <2>2. Shape(j) /\ j.calls = <<>>
    BY <2>1 DEF Shape
  <2>3. Continue(t, j) \/ job' = [job EXCEPT ![t] = NoJob]
    BY <1>1 DEF Prefetch
  <2> HIDE DEF j
  <2> QED BY <2>1, <2>2, <2>3, ContinueFacts, JobStep, NoJobQuiet
<1>2. CASE LockTimeout(t)
  <2>1. Shape(job[t]) /\ job[t].calls = <<>> /\ job[t].at # "holding"
    BY <1>2, StepFacts DEF LockTimeout
  <2>2. (\E got : AfterRegime(t, got)) /\ UNCHANGED <<home, lock>>
    BY <1>2 DEF LockTimeout
  <2> QED BY <2>1, <2>2, AfterRegimeFacts, JobStep
<1>3. CASE KeepFull(t)
  <2>1. Shape(job[t]) /\ job[t].calls = <<>> /\ job[t].at # "holding"
    BY <1>3, StepFacts DEF KeepFull
  <2>2. Continue(t, job[t]) /\ UNCHANGED <<home, lock>>
    BY <1>3 DEF KeepFull
  <2> QED BY <2>1, <2>2, ContinueFacts, JobStep
<1>4. ASSUME NEW k \in Views, RefreshView(t, k) PROVE LInv'
  <2>1. k \notin {"dashboard", "prewarm"}
    BY PipelineBounds
  <2>2. Shape(job[t]) /\ job[t].calls = <<>> /\ job[t].at # "holding"
    BY <1>4, <2>1, StepFacts DEF RefreshView
  <2>3. Continue(t, job[t]) /\ UNCHANGED <<home, lock>>
    BY <1>4 DEF RefreshView
  <2> QED BY <2>2, <2>3, ContinueFacts, JobStep
<1> QED BY <1>1, <1>2, <1>3, <1>4

\* A thread that calls for texts keeps its step.
LEMMA CallsKeep ==
    ASSUME LInv, NEW t \in Threads, NEW calls, Calls(t, calls), UNCHANGED <<home, lock>>,
           NEW s \in {"dashboard", "prewarm"}, Step(t, s)
    PROVE  LInv'
<1> DEFINE quiet == [job[t] EXCEPT !.calls = <<>>]
           r == [job[t] EXCEPT !.calls = calls]
<1>1. Shape(job[t]) /\ job[t].at = "step"
  BY DEF LInv, Step
<1>2. CASE calls = <<>>
  <2>1. Continue(t, quiet)
    BY <1>2 DEF Calls
  <2>2. Shape(quiet) /\ quiet.calls = <<>>
    BY <1>1 DEF Shape
  <2> HIDE DEF quiet
  <2> QED BY <1>1, <2>1, <2>2, ContinueFacts, JobStep
<1>3. CASE calls # <<>>
  <2>1. job' = [job EXCEPT ![t] = r]
    BY <1>3 DEF Calls
  <2>2. Shape(r) /\ r.at = job[t].at /\ r.todo = job[t].todo
    BY <1>1 DEF Shape
  <2> HIDE DEF r
  <2>3. job'[t] = r /\ DOMAIN job' = Threads /\ \A u \in Threads \ {t} : job'[u] = job[u]
    BY <2>1 DEF LInv
  <2>4. LockHolderWorks'
    BY <2>2, <2>3 DEF LInv, LockHolderWorks
  <2>5. \A u \in Threads :
          /\ Shape(job'[u])
          /\ job'[u].calls # <<>> => \E x \in {"dashboard", "prewarm"} : Step(u, x)'
    BY <2>2, <2>3 DEF LInv, Step
  <2> QED BY <2>3, <2>4, <2>5 DEF LInv
<1> QED BY <1>2, <1>3

LEMMA TextsKeep ==
    ASSUME LInv, NEW t \in Threads, DashboardBegin(t) \/ PrewarmBegin(t) \/ CallModel(t)
    PROVE  LInv'
<1>1. CASE CallModel(t)
  <2>1. \E s \in {"dashboard", "prewarm"} : Step(t, s)
    BY <1>1 DEF CallModel, LInv
  <2>2. (\E calls : Calls(t, calls)) /\ UNCHANGED <<home, lock>>
    BY <1>1 DEF CallModel
  <2> QED BY <2>1, <2>2, CallsKeep
<1>2. ASSUME DashboardBegin(t) \/ PrewarmBegin(t) PROVE LInv'
  <2>1. /\ job[t].calls = <<>> /\ UNCHANGED <<home, lock>>
        /\ \E s \in {"dashboard", "prewarm"} : Step(t, s)
    BY <1>2 DEF DashboardBegin, PrewarmBegin
  <2>2. Shape(job[t]) /\ job[t].at # "holding"
    BY <2>1 DEF LInv, Step
  <2>3. CASE Continue(t, job[t])
    BY <2>1, <2>2, <2>3, ContinueFacts, JobStep
  <2>4. CASE job' = [job EXCEPT ![t].calls = Texts]
    <3>1. CASE Texts = <<>>
      <4> DEFINE r == [job[t] EXCEPT !.calls = Texts]
      <4>1. Quiet(r)
        BY <2>2, <3>1 DEF Quiet, Shape
      <4>2. job' = [job EXCEPT ![t] = r]
        BY <2>4
      <4> HIDE DEF r
      <4> QED BY <2>1, <2>2, <4>1, <4>2, JobStep
    <3>2. CASE Texts # <<>>
      <4>1. Calls(t, Texts)
        BY <2>4, <3>2 DEF Calls
      <4> QED BY <2>1, <4>1, CallsKeep
    <3> QED BY <3>1, <3>2
  <2> QED BY <1>2, <2>3, <2>4 DEF DashboardBegin, PrewarmBegin
<1> QED BY <1>1, <1>2

LEMMA TickKeeps == ASSUME LInv, Tick PROVE LInv'
<1>1. UNCHANGED <<home, lock>> /\ DOMAIN job' = Threads
  BY DEF Tick
<1>2. ASSUME NEW t \in Threads
      PROVE  /\ Shape(job'[t]) /\ job'[t].at = job[t].at
             /\ job'[t].calls # <<>> => job'[t].calls = job[t].calls /\ job'[t].todo = job[t].todo
  <2> DEFINE older == [job[t] EXCEPT !.obs = Older(@), !.got = Older(@), !.spent = @ + 1]
  <2>1. job'[t] = IF job[t].at = "idle" THEN NoJob ELSE older
    BY DEF Tick
  <2>2. Shape(job[t])
    BY DEF LInv
  <2>3. Shape(older) /\ older.at = job[t].at /\ older.calls = job[t].calls /\ older.todo = job[t].todo
    BY <2>2 DEF Shape
  <2> HIDE DEF older
  <2> QED BY <2>1, <2>3, NoJobQuiet DEF Quiet
<1>3. LockHolderWorks'
  BY <1>1, <1>2 DEF LInv, LockHolderWorks
<1>4. \A t \in Threads :
        /\ Shape(job'[t])
        /\ job'[t].calls # <<>> => \E s \in {"dashboard", "prewarm"} : Step(t, s)'
  BY <1>2 DEF LInv, Step
<1> QED BY <1>1, <1>3, <1>4 DEF LInv

LEMMA RestartKeeps == ASSUME LInv, NEW p \in Procs, Restart(p) PROVE LInv'
<1>1. /\ home' = home /\ lock' = [lock EXCEPT ![p] = NoThread]
      /\ job' = [t \in Threads |-> IF home[t] = p THEN NoJob ELSE job[t]]
  BY DEF Restart
<1>2. /\ lock' \in [Procs -> Threads \cup {NoThread}] /\ lock'[p] = NoThread
      /\ \A q \in Procs \ {p} : lock'[q] = lock[q]
  BY <1>1 DEF LInv
<1>3. DOMAIN job' = Threads /\ \A t \in Threads : job'[t] = IF home[t] = p THEN NoJob ELSE job[t]
  BY <1>1
<1>4. LockHolderWorks'
  <2> SUFFICES ASSUME NEW q \in Procs, NEW t \in Threads
               PROVE  lock'[q] = t <=> home[t] = q /\ job'[t].at = "holding"
    BY <1>1 DEF LockHolderWorks
  <2>1. lock[q] = t <=> home[t] = q /\ job[t].at = "holding"
    BY DEF LInv, LockHolderWorks
  <2> QED BY <1>2, <1>3, <2>1, NoJobQuiet, PipelineBounds DEF Quiet
<1>5. \A t \in Threads :
        /\ Shape(job'[t])
        /\ job'[t].calls # <<>> => \E s \in {"dashboard", "prewarm"} : Step(t, s)'
  BY <1>3, NoJobQuiet DEF LInv, Step, Quiet
<1> QED BY <1>1, <1>2, <1>3, <1>4, <1>5 DEF LInv

LEMMA LockStep == LInv /\ [Next]_vars => LInv'
<1> SUFFICES ASSUME LInv, [Next]_vars PROVE LInv'
  OBVIOUS
<1>1. CASE UNCHANGED <<home, lock, job>>
  BY <1>1 DEF LInv, LockHolderWorks, Step
<1>2. ASSUME NEW x \in Kinds, Summarize(x) \/ TextExpires(x) PROVE LInv'
  BY <1>1, <1>2 DEF Summarize, TextExpires
<1>3. CASE UNCHANGED vars
  BY <1>1, <1>3 DEF vars
<1> QED BY <1>2, <1>3, TickKeeps, RestartKeeps, RequestsKeep, EnterKeeps, RefreshKeeps,
           OtherStepsKeep, TextsKeep DEF Next

\* The lock of a process is held by its thread that is computing the regime, and by
\* nobody else: a job that waits for it waits for a refresh under way.
\* (refresh_regime)
THEOREM LockIsWorked == Spec => []LockHolderWorks
<1>1. LInv => LockHolderWorks
  BY DEF LInv
<1> QED BY <1>1, InitialLock, LockStep, PTL DEF Spec

----------------------------------------------------------------------------
(* The orders in which the steps of a job come.                            *)

\* What carries an observation or a payload comes right after the step that gave it.
Follows(q, r) ==
    /\ r \in {"regime", "scanner"} => q = "prefetch"
    /\ r \in {"portfolio", "full"} => q = "regime"

\* Steps that need neither, and may come after any other.
Free(r) == r \notin {"regime", "scanner", "portfolio", "full"}

Ordered(s) ==
    /\ s \in Seq(Steps)
    /\ \A i \in 1..Len(s) : i > 1 => Follows(s[i - 1], s[i])

LEMMA FollowsFree == \A q, r : Free(r) => Follows(q, r)
  BY DEF Free, Follows

LEMMA OrderedOne == ASSUME NEW k \in Steps PROVE Ordered(<<k>>)
  BY DEF Ordered

LEMMA OrderedTwo ==
    ASSUME NEW k \in Steps, NEW l \in Steps, Follows(k, l)
    PROVE  Ordered(<<k, l>>)
  BY DEF Ordered

LEMMA EmptyIs == \A u \in Seq(Steps) : u = <<>> <=> Len(u) = 0
  OBVIOUS

LEMMA OrderedTail ==
    ASSUME NEW s, Ordered(s), s # <<>>
    PROVE  /\ Ordered(Tail(s)) /\ Head(s) \in Steps
           /\ Tail(s) # <<>> => /\ Follows(Head(s), Head(Tail(s))) /\ Head(Tail(s)) = s[2]
                                /\ Head(Tail(s)) \in Steps
           /\ Tail(s) # <<>> <=> Len(s) > 1
<1>1. s \in Seq(Steps) /\ Len(s) \in Nat /\ Len(s) >= 1
  BY DEF Ordered
<1>2. /\ Tail(s) \in Seq(Steps) /\ Len(Tail(s)) = Len(s) - 1
      /\ \A i \in 1..Len(s) - 1 : Tail(s)[i] = s[i + 1]
      /\ Head(s) = s[1] /\ Head(s) \in Steps
  BY <1>1
<1>3. Ordered(Tail(s))
  <2> SUFFICES ASSUME NEW i \in 1..Len(s) - 1, i > 1
               PROVE  Follows(Tail(s)[i - 1], Tail(s)[i])
    BY <1>2 DEF Ordered
  <2>1. Tail(s)[i] = s[i + 1] /\ Tail(s)[i - 1] = s[i]
    BY <1>1, <1>2
  <2>2. i + 1 \in 1..Len(s) /\ i + 1 > 1 /\ i + 1 - 1 = i
    BY <1>1
  <2> QED BY <2>1, <2>2 DEF Ordered
<1>4. Tail(s) # <<>> <=> Len(s) > 1
  <2>1. ASSUME NEW u \in Seq(Steps), Len(u) = Len(s) - 1
        PROVE  u # <<>> <=> Len(s) > 1
    BY <1>1, <2>1, EmptyIs
  <2> QED BY <1>2, <2>1
<1>5. ASSUME Len(s) > 1
      PROVE  /\ Head(Tail(s)) = s[2] /\ s[2] \in Steps /\ Follows(s[1], s[2])
  <2>1. 2 \in 1..Len(s) /\ 2 > 1 /\ 2 - 1 = 1 /\ 1 \in 1..Len(s) - 1
    BY <1>1, <1>5
  <2>2. Head(Tail(s)) = Tail(s)[1]
    BY <1>1, <1>2, <1>5
  <2> QED BY <1>1, <1>2, <2>1, <2>2 DEF Ordered
<1> QED BY <1>2, <1>3, <1>4, <1>5

LEMMA OrderedConcat ==
    ASSUME NEW a, NEW b, Ordered(a), Ordered(b),
           b # <<>> => Free(Head(b)) \/ (a # <<>> /\ Follows(a[Len(a)], Head(b)))
    PROVE  /\ Ordered(a \o b)
           /\ a # <<>> => a \o b # <<>> /\ Head(a \o b) = Head(a)
           /\ a = <<>> => a \o b = b
<1>1. /\ a \in Seq(Steps) /\ b \in Seq(Steps) /\ a \o b \in Seq(Steps)
      /\ Len(a) \in Nat /\ Len(b) \in Nat /\ Len(a \o b) = Len(a) + Len(b)
      /\ \A i \in 1..Len(a) + Len(b) : (a \o b)[i] = IF i <= Len(a) THEN a[i] ELSE b[i - Len(a)]
  BY DEF Ordered
<1>2. ASSUME NEW i \in 1..Len(a) + Len(b), i > 1
      PROVE  Follows((a \o b)[i - 1], (a \o b)[i])
  <2>1. CASE i <= Len(a)
    <3>1. /\ i \in 1..Len(a) /\ i - 1 \in 1..Len(a) + Len(b)
          /\ (a \o b)[i - 1] = a[i - 1] /\ (a \o b)[i] = a[i]
      BY <1>1, <1>2, <2>1
    <3> QED BY <1>2, <3>1 DEF Ordered
  <2>2. CASE i > Len(a) + 1
    <3>1. /\ i - Len(a) \in 1..Len(b) /\ i - Len(a) > 1
          /\ (a \o b)[i - 1] = b[i - Len(a) - 1] /\ (a \o b)[i] = b[i - Len(a)]
      BY <1>1, <1>2, <2>2
    <3> QED BY <3>1 DEF Ordered
  <2>3. CASE i = Len(a) + 1
    <3>1. /\ b # <<>> /\ Head(b) = b[1] /\ a # <<>>
          /\ (a \o b)[i] = b[1] /\ (a \o b)[i - 1] = a[Len(a)]
      BY <1>1, <1>2, <2>3
    <3>2. Follows(a[Len(a)], b[1])
      <4>1. CASE Free(Head(b))
        BY <3>1, <4>1, FollowsFree
      <4> QED BY <3>1, <4>1
    <3> DEFINE x == (a \o b)[i - 1]
               y == (a \o b)[i]
    <3>3. x = a[Len(a)] /\ y = b[1]
      BY <3>1
    <3> HIDE DEF x, y
    <3>4. Follows(x, y)
      BY <3>2, <3>3
    <3> QED BY <3>4 DEF x, y
  <2>4. i <= Len(a) \/ i > Len(a) + 1 \/ i = Len(a) + 1
    BY <1>1
  <2> QED BY <2>1, <2>2, <2>3, <2>4, Zenon
<1>3. Ordered(a \o b)
  BY <1>1, <1>2 DEF Ordered
<1>4. a # <<>> => a \o b # <<>> /\ Head(a \o b) = Head(a)
  BY <1>1
<1>5. a = <<>> => a \o b = b
  BY <1>1
<1> QED BY <1>3, <1>4, <1>5

\* The jobs that begin without a payload begin with none of what needs one.
Start(s) == Ordered(s) /\ s # <<>> /\ Head(s) # "full"

LEMMA ViewOrdered ==
    ASSUME NEW k \in {"portfolio", "scanner", "sectors", "swing", "earnings"}
    PROVE  Ordered(View(k)) /\ (View(k) = <<>> \/ (View(k) # <<>> /\ Head(View(k)) = k))
<1>1. CASE k \in Views
  <2>1. k \in Steps /\ View(k) = <<k>>
    BY <1>1 DEF Steps, View
  <2>2. Ordered(<<k>>) /\ <<k>> # <<>> /\ Head(<<k>>) = k
    BY <2>1, OrderedOne
  <2> QED BY <2>1, <2>2
<1>2. CASE k \notin Views
  BY <1>2 DEF View, Ordered
<1> QED BY <1>1, <1>2

LEMMA FastOrdered == Start(RefreshFast) /\ Head(RefreshFast) = "prefetch"
<1> DEFINE a == <<"prefetch", "regime">> \o View("portfolio")
<1>1. Ordered(<<"prefetch", "regime">>) /\ <<"prefetch", "regime">>[Len(<<"prefetch", "regime">>)] = "regime"
  BY OrderedTwo DEF Steps, Follows
<1>2. Follows("regime", "portfolio")
  BY DEF Follows
<1>3. Ordered(a) /\ a # <<>> /\ Head(a) = Head(<<"prefetch", "regime">>)
  BY <1>1, <1>2, ViewOrdered, OrderedConcat
<1>4. Ordered(<<"dashboard">>) /\ Free(Head(<<"dashboard">>)) /\ Head(<<"prefetch", "regime">>) = "prefetch"
  BY OrderedOne DEF Steps, Free
<1> HIDE DEF a
<1>5. Ordered(a \o <<"dashboard">>) /\ a \o <<"dashboard">> # <<>> /\ Head(a \o <<"dashboard">>) = "prefetch"
  BY <1>3, <1>4, OrderedConcat
<1> QED BY <1>5 DEF RefreshFast, Start, a

LEMMA MediumOrdered ==
    RefreshMedium = <<>> \/ (Start(RefreshMedium) /\ Head(RefreshMedium) = "prefetch")
<1> DEFINE U == {"scanner", "sectors", "swing"}
           a == View("scanner") \o View("sectors")
           b == a \o View("swing")
<1>1. Free("sectors") /\ Free("swing")
  BY DEF Free
<1>2. Ordered(a)
  BY <1>1, ViewOrdered, OrderedConcat
<1>3. a \in Seq(U) /\ View("swing") \in Seq(U)
  <2>1. ASSUME NEW k \in U PROVE View(k) \in Seq(U)
    <3>1. <<>> \in Seq(U) /\ <<k>> \in Seq(U)
      OBVIOUS
    <3> QED BY <3>1 DEF View
  <2>2. "scanner" \in U /\ "sectors" \in U /\ "swing" \in U
    OBVIOUS
  <2>3. View("scanner") \in Seq(U) /\ View("sectors") \in Seq(U) /\ View("swing") \in Seq(U)
    BY <2>1, <2>2
  <2> HIDE DEF U
  <2> QED BY <2>3
<1> HIDE DEF a
<1>4. Ordered(b) /\ b \in Seq(U)
  BY <1>1, <1>2, <1>3, ViewOrdered, OrderedConcat
<1> HIDE DEF b
<1>5. ASSUME b # <<>> PROVE Start(<<"prefetch">> \o b) /\ Head(<<"prefetch">> \o b) = "prefetch"
  <2>1. Head(b) \in U
    BY <1>4, <1>5
  <2>2. Follows("prefetch", Head(b))
    BY <2>1 DEF Follows
  <2>3. Ordered(<<"prefetch">>) /\ <<"prefetch">>[Len(<<"prefetch">>)] = "prefetch" /\ Head(<<"prefetch">>) = "prefetch"
    BY OrderedOne DEF Steps
  <2> QED BY <1>4, <2>2, <2>3, OrderedConcat DEF Start
<1>6. RefreshMedium = IF b = <<>> THEN <<>> ELSE <<"prefetch">> \o b
  BY DEF RefreshMedium, b, a
<1> QED BY <1>5, <1>6

LEMMA AllOrdered == Start(RefreshAll) /\ Head(RefreshAll) = "prefetch"
<1> DEFINE a == RefreshFast \o RefreshMedium
<1>0. Free("prefetch") /\ Free("earnings") /\ Ordered(<<>>)
  BY DEF Free, Ordered
<1>1. Ordered(a) /\ a # <<>> /\ Head(a) = "prefetch"
  BY <1>0, FastOrdered, MediumOrdered, OrderedConcat DEF Start
<1> HIDE DEF a
<1>2. /\ Ordered(a \o View("earnings")) /\ a \o View("earnings") # <<>>
      /\ Head(a \o View("earnings")) = "prefetch"
  BY <1>0, <1>1, ViewOrdered, OrderedConcat
<1> QED BY <1>2 DEF RefreshAll, a, Start

LEMMA WarmupOrdered ==
    Start(<<"regime", "prewarm">> \o RefreshAll) /\ Start(<<"regime">> \o RefreshAll)
<1>0. Free("prefetch")
  BY DEF Free
<1>1. Ordered(<<"regime", "prewarm">>) /\ Head(<<"regime", "prewarm">>) = "regime"
  BY OrderedTwo DEF Steps, Follows
<1>2. Ordered(<<"regime">>) /\ Head(<<"regime">>) = "regime"
  BY OrderedOne DEF Steps
<1> QED BY <1>0, <1>1, <1>2, AllOrdered, OrderedConcat DEF Start

\* Without a payload what comes next needs none, and what comes after it neither.
LEMMA WithoutOrdered ==
    ASSUME NEW j, Ordered(j.todo), j.todo # <<>>, Head(j.todo) = "regime"
    PROVE  /\ Ordered(WithoutPayload(j))
           /\ WithoutPayload(j) # <<>> => Head(WithoutPayload(j)) \notin {"full", "regime", "scanner"}
<1> DEFINE rest == Tail(j.todo)
           skipped == {"prewarm", "full"} \cup (IF j.obs = None THEN {} ELSE {"dashboard"})
<1>1. /\ Ordered(rest) /\ Len(rest) \in Nat /\ (rest # <<>> <=> Len(rest) > 0)
      /\ rest # <<>> => Follows("regime", Head(rest))
  BY OrderedTail DEF Ordered
<1>2. rest # <<>> => Head(rest) \notin {"regime", "scanner"}
  BY <1>1 DEF Follows
<1>3. "regime" \notin skipped /\ "prefetch" \notin skipped /\ "full" \in skipped
  OBVIOUS
<1> HIDE DEF rest, skipped
<1>4. CASE Len(rest) > 0 /\ Head(rest) \in skipped
  <2>1. WithoutPayload(j) = Tail(rest)
    BY <1>4 DEF WithoutPayload, rest, skipped
  <2>2. Ordered(Tail(rest)) /\ (Tail(rest) # <<>> => Follows(Head(rest), Head(Tail(rest))))
    BY <1>1, <1>4, OrderedTail
  <2> QED BY <1>3, <1>4, <2>1, <2>2 DEF Follows
<1>5. CASE ~(Len(rest) > 0 /\ Head(rest) \in skipped)
           /\ Len(rest) > 1 /\ Head(rest) = "portfolio" /\ rest[2] \in skipped
  <2>1. WithoutPayload(j) = <<"portfolio">> \o Tail(Tail(rest))
    BY <1>5 DEF WithoutPayload, rest, skipped
  <2>2. Ordered(Tail(rest)) /\ Tail(rest) # <<>> /\ Head(Tail(rest)) \in skipped
    BY <1>1, <1>5, OrderedTail
  <2>3. /\ Ordered(Tail(Tail(rest)))
        /\ Tail(Tail(rest)) # <<>> => Follows(Head(Tail(rest)), Head(Tail(Tail(rest))))
    BY <2>2, OrderedTail
  <2>4. Tail(Tail(rest)) # <<>> => Free(Head(Tail(Tail(rest))))
    BY <1>3, <2>2, <2>3 DEF Follows, Free
  <2>5. Ordered(<<"portfolio">>) /\ <<"portfolio">> # <<>> /\ Head(<<"portfolio">>) = "portfolio"
    <3>1. "portfolio" \in Steps
      BY <1>1, <1>5, OrderedTail
    <3> QED BY <3>1, OrderedOne
  <2>6. /\ Ordered(<<"portfolio">> \o Tail(Tail(rest)))
        /\ Head(<<"portfolio">> \o Tail(Tail(rest))) = "portfolio"
    BY <2>3, <2>4, <2>5, OrderedConcat
  <2> QED BY <2>1, <2>6
<1>6. CASE ~(Len(rest) > 0 /\ Head(rest) \in skipped)
           /\ ~(Len(rest) > 1 /\ Head(rest) = "portfolio" /\ rest[2] \in skipped)
  <2>1. WithoutPayload(j) = rest
    BY <1>6 DEF WithoutPayload, rest, skipped
  <2> QED BY <1>1, <1>2, <1>3, <1>6, <2>1
<1> QED BY <1>4, <1>5, <1>6

----------------------------------------------------------------------------
(* The ages.                                                               *)

Jobs ==
    [at : {"idle", "step", "holding"}, todo : Seq(Steps), obs : -1..MaxAge, got : -1..MaxAge,
     spent : Nat, calls : Seq(Kinds)]

At(j, s) == j.at = "step" /\ Head(j.todo) = s

\* The oldest payload of refresh_regime.
OldestGot == LockWait + 2 * MaxBusy + TtlFast - 1

\* What is left of the texts, from some text on.
Remaining(calls) ==
    \E k \in 0..Len(Texts) :
        /\ Len(calls) = Len(Texts) - k
        /\ \A i \in 1..Len(calls) : calls[i] = Texts[i + k]

Sound(j) ==
    /\ j \in Jobs
    /\ j.at = "idle" <=> j.todo = <<>>
    /\ Ordered(j.todo)
    /\ j.at = "holding" => Head(j.todo) = "regime" /\ j.obs <= MaxBusy + LockWait + j.spent
    /\ j.spent <= IF At(j, "regime") THEN LockWait ELSE MaxBusy
    /\ At(j, "regime") \/ At(j, "scanner") => j.obs <= MaxBusy + j.spent
    /\ At(j, "portfolio") => j.obs <= LockWait + 2 * MaxBusy + j.spent
    /\ At(j, "full") => j.got # None /\ j.got <= OldestGot + j.spent
    /\ Remaining(j.calls)

Fresh(e, k) ==
    /\ e \in [age : 0..MaxAge, left : 1..Ttl(k)]
    /\ e.age + e.left <= AgeLimit(k)

AInv ==
    /\ job \in [Threads -> Jobs] /\ \A t \in Threads : Sound(job[t])
    /\ \A k \in Keys : \A e \in store[k] : Fresh(e, k)

LEMMA BoundsAre ==
    /\ TtlFast \in Nat /\ TtlMedium \in Nat /\ TtlDaily \in Nat /\ LockWait \in Nat /\ MaxBusy \in Nat /\ MaxAge \in Nat
    /\ TtlFast >= 1 /\ TtlMedium >= 1 /\ TtlDaily >= 1 /\ LockWait >= 1 /\ MaxBusy >= 1 /\ MaxAge >= 1
    /\ MaxBusy <= MaxAge
    /\ Texts \in Seq(STRING) /\ Len(Texts) \in Nat /\ Len(Texts) >= 1
    /\ {"regime", "full"} \subseteq Keys /\ OldestGot \in Int
  BY PipelineBounds DEF Keys, OldestGot

LEMMA TextsAre == Texts \in Seq(Kinds) /\ Remaining(Texts) /\ Remaining(<<>>)
<1>1. Texts \in Seq(Kinds)
  BY BoundsAre DEF Kinds
<1>2. Remaining(Texts)
  <2>1. /\ 0 \in 0..Len(Texts) /\ Len(Texts) = Len(Texts) - 0
        /\ \A i \in 1..Len(Texts) : Texts[i] = Texts[i + 0]
    BY BoundsAre
  <2> QED BY <2>1 DEF Remaining
<1>3. Remaining(<<>>)
  <2>1. Len(Texts) \in 0..Len(Texts) /\ Len(<<>>) = Len(Texts) - Len(Texts)
    BY BoundsAre
  <2> QED BY <2>1, BoundsAre DEF Remaining
<1> QED BY <1>1, <1>2, <1>3

LEMMA NoJobSound == NoJob \in Jobs /\ Sound(NoJob) /\ NoJob.calls = <<>> /\ NoJob.todo = <<>>
<1>1. NoJob \in Jobs
  BY BoundsAre DEF NoJob, Jobs, None
<1>2. /\ NoJob.at = "idle" /\ NoJob.todo = <<>> /\ NoJob.calls = <<>> /\ NoJob.spent = 0
      /\ Ordered(<<>>)
  BY DEF NoJob, Ordered
<1> QED BY <1>1, <1>2, TextsAre, BoundsAre DEF Sound, At

\* A job that the next step will find in order.
Going(j, todo) ==
    [j EXCEPT !.todo = todo, !.at = "step", !.spent = 0,
              !.got = IF Head(todo) = "full" THEN @ ELSE None,
              !.obs = IF Head(todo) \in {"regime"} \cup Prefetched THEN @ ELSE None]

Ready(j, todo) ==
    todo # <<>> =>
        /\ Head(todo) \in {"regime", "scanner"} => j.obs <= MaxBusy
        /\ Head(todo) = "portfolio" => j.obs <= LockWait + 2 * MaxBusy
        /\ Head(todo) = "full" => j.got # None /\ j.got <= OldestGot

LEMMA GoOnSound ==
    ASSUME NEW t, NEW j \in Jobs, j.calls = <<>>, NEW todo, Ordered(todo), Ready(j, todo),
           GoOn(t, j, todo)
    PROVE  \E r : Sound(r) /\ job' = [job EXCEPT ![t] = r]
<1>1. job' = [job EXCEPT ![t] = IF todo = <<>> THEN NoJob ELSE Going(j, todo)]
  BY DEF GoOn, Going
<1>2. ASSUME todo # <<>> PROVE Sound(Going(j, todo))
  <2> DEFINE r == Going(j, todo)
  <2>1. todo \in Seq(Steps) /\ None \in -1..MaxAge /\ "step" \in {"idle", "step", "holding"} /\ 0 \in Nat
    BY BoundsAre DEF Ordered, None
  <2>2. r \in Jobs
    BY <2>1 DEF Jobs, Going
  <2>3. /\ r.todo = todo /\ r.at = "step" /\ r.spent = 0 /\ r.calls = <<>>
        /\ r.got = IF Head(todo) = "full" THEN j.got ELSE None
        /\ r.obs = IF Head(todo) \in {"regime"} \cup Prefetched THEN j.obs ELSE None
    BY DEF Jobs, Going
  <2> HIDE DEF r
  <2>4. r.spent <= IF At(r, "regime") THEN LockWait ELSE MaxBusy
    BY <2>3, BoundsAre
  <2>5. At(r, "regime") \/ At(r, "scanner") => r.obs <= MaxBusy + r.spent
    BY <1>2, <2>3, BoundsAre DEF At, Ready, Prefetched, Jobs
  <2>6. At(r, "portfolio") => r.obs <= LockWait + 2 * MaxBusy + r.spent
    BY <1>2, <2>3, BoundsAre DEF At, Ready, Prefetched, Jobs
  <2>7. At(r, "full") => r.got # None /\ r.got <= OldestGot + r.spent
    BY <1>2, <2>3, BoundsAre DEF At, Ready, Jobs
  <2> QED BY <1>2, <2>2, <2>3, <2>4, <2>5, <2>6, <2>7, TextsAre DEF Sound, r
<1> QED BY <1>1, <1>2, NoJobSound

\* After any step but these the next one finds nothing it needs.
LEMMA ContinueSound ==
    ASSUME NEW t, NEW j \in Jobs, j.calls = <<>>, Ordered(j.todo), j.todo # <<>>,
           Head(j.todo) = "prefetch" => j.obs <= MaxBusy,
           Head(j.todo) = "regime" =>
               j.obs <= LockWait + 2 * MaxBusy /\ j.got # None /\ j.got <= OldestGot,
           Continue(t, j)
    PROVE  \E r : Sound(r) /\ job' = [job EXCEPT ![t] = r]
<1>1. /\ Ordered(Tail(j.todo))
      /\ Tail(j.todo) # <<>> => Follows(Head(j.todo), Head(Tail(j.todo)))
  BY OrderedTail
<1>2. Ready(j, Tail(j.todo))
  BY <1>1 DEF Ready, Follows
<1> QED BY <1>1, <1>2, GoOnSound DEF Continue

LEMMA AfterRegimeSound ==
    ASSUME NEW t, NEW got \in -1..MaxAge, got <= OldestGot, AfterRegime(t, got),
           job[t] \in Jobs, job[t].calls = <<>>, Ordered(job[t].todo), job[t].todo # <<>>,
           Head(job[t].todo) = "regime", job[t].obs <= LockWait + 2 * MaxBusy
    PROVE  \E r : Sound(r) /\ job' = [job EXCEPT ![t] = r]
<1> DEFINE j == [job[t] EXCEPT !.got = got]
<1>1. j \in Jobs
  BY DEF Jobs
<1>2. j.calls = <<>> /\ j.todo = job[t].todo /\ j.obs = job[t].obs /\ j.got = got
  BY DEF Jobs
<1> HIDE DEF j
<1>3. CASE got = None
  <2>1. GoOn(t, j, WithoutPayload(job[t]))
    BY <1>3 DEF AfterRegime, j
  <2>2. /\ Ordered(WithoutPayload(job[t]))
        /\ WithoutPayload(job[t]) # <<>> =>
              Head(WithoutPayload(job[t])) \notin {"full", "regime", "scanner"}
    BY WithoutOrdered
  <2>3. Ready(j, WithoutPayload(job[t]))
    BY <1>2, <2>2 DEF Ready
  <2> QED BY <1>1, <1>2, <2>1, <2>2, <2>3, GoOnSound
<1>4. CASE got # None
  <2>1. Continue(t, j)
    BY <1>2, <1>4 DEF AfterRegime, Continue, j
  <2> QED BY <1>1, <1>2, <1>4, <2>1, ContinueSound
<1> QED BY <1>3, <1>4

LEMMA InitialAges == Init => AInv
<1> SUFFICES ASSUME Init PROVE AInv
  OBVIOUS
<1>1. job \in [Threads -> Jobs] /\ \A t \in Threads : Sound(job[t])
  BY NoJobSound DEF Init
<1>2. \A k \in Keys : store[k] = {}
  BY DEF Init
<1> QED BY <1>1, <1>2 DEF AInv

LEMMA TtlIs == \A k : Ttl(k) \in Nat /\ Ttl(k) >= 1
  BY BoundsAre DEF Ttl

\* The lives and the age limits, key by key.
LEMMA LimitsAre ==
    /\ Ttl("full") = TtlFast /\ AgeLimit("full") = LockWait + 3 * MaxBusy + 2 * TtlFast - 1
    /\ \A k \in {"sectors", "swing", "flow", "earnings"} : AgeLimit(k) = MaxBusy + Ttl(k)
  BY DEF Ttl, AgeLimit

LEMMA LimitInt == \A k : AgeLimit(k) \in Int
<1> TAKE k
<1>1. /\ LockWait + 2 * MaxBusy + TtlFast \in Int
      /\ LockWait + 3 * MaxBusy + 2 * TtlFast - 1 \in Int
      /\ LockWait + 3 * MaxBusy + TtlFast \in Int
      /\ 2 * MaxBusy + TtlMedium \in Int /\ MaxBusy + TtlMedium \in Int
      /\ MaxBusy + TtlDaily \in Int
  BY BoundsAre
<1> QED BY <1>1, Zenon DEF AgeLimit

\* One job goes on, the entries stay.
LEMMA JobSound ==
    ASSUME AInv, NEW t \in Threads, NEW r, Sound(r), job' = [job EXCEPT ![t] = r],
           \A k \in Keys : \A e \in store'[k] : Fresh(e, k)
    PROVE  AInv'
<1>1. r \in Jobs
  BY DEF Sound
<1>2. job' \in [Threads -> Jobs] /\ \A u \in Threads : job'[u] = IF u = t THEN r ELSE job[u]
  BY <1>1 DEF AInv
<1> QED BY <1>2 DEF AInv

LEMMA StoreSame ==
    ASSUME AInv, UNCHANGED store
    PROVE  \A k \in Keys : \A e \in store'[k] : Fresh(e, k)
  BY DEF AInv

LEMMA WrittenFresh ==
    ASSUME AInv, NEW k \in Keys, NEW age \in 0..MaxAge, age + Ttl(k) <= AgeLimit(k),
           store' = Written(k, age)
    PROVE  \A l \in Keys : \A f \in store'[l] : Fresh(f, l)
<1> DEFINE e == [age |-> age, left |-> Ttl(k)]
<1>1. Fresh(e, k)
  BY TtlIs DEF Fresh
<1> HIDE DEF e
<1>2. ASSUME NEW l \in Keys, NEW f \in store'[l] PROVE f \in store[l] \/ (l = k /\ f = e)
  BY DEF Written, e
<1> QED BY <1>1, <1>2 DEF AInv

\* Whatever a get of the regime finds is no older than its age limit less the life it
\* has left.
LEMMA FoundAge ==
    ASSUME AInv, NEW got \in Found("regime")
    PROVE  got \in -1..MaxAge /\ got <= OldestGot
<1>1. CASE got = None
  BY <1>1, BoundsAre DEF OldestGot, None
<1>2. ASSUME NEW e \in store["regime"], got = e.age PROVE got \in -1..MaxAge /\ got <= OldestGot
  <2>1. /\ e.age \in 0..MaxAge /\ e.left \in 1..TtlFast
        /\ e.age + e.left <= LockWait + 2 * MaxBusy + TtlFast
    BY BoundsAre DEF AInv, Fresh, Ttl, AgeLimit
  <2> QED BY <1>2, <2>1, BoundsAre DEF OldestGot
<1> QED BY <1>1, <1>2 DEF Found

LEMMA BeginSound ==
    ASSUME AInv, NEW t \in Threads, NEW start \in Jobs, start.calls = <<>>, start.obs = None,
           start.spent = 0, NEW todo, Begin(t, start, todo), Ordered(todo), todo # <<>>,
           Head(todo) = "full" => start.got # None /\ start.got <= OldestGot
    PROVE  AInv'
<1> DEFINE r == [start EXCEPT !.at = "step", !.todo = todo]
<1>1. todo \in Seq(Steps) /\ "step" \in {"idle", "step", "holding"}
  BY DEF Ordered
<1>2. r \in Jobs
  BY <1>1 DEF Jobs
<1>3. /\ r.at = "step" /\ r.todo = todo /\ r.calls = <<>> /\ r.obs = None /\ r.spent = 0
      /\ r.got = start.got
  BY DEF Jobs
<1>4. job' = [job EXCEPT ![t] = r] /\ UNCHANGED store
  BY DEF Begin
<1> HIDE DEF r
<1>5. r.obs <= MaxBusy + r.spent /\ r.obs <= LockWait + 2 * MaxBusy + r.spent
  BY <1>3, BoundsAre DEF None
<1>6. r.spent <= IF At(r, "regime") THEN LockWait ELSE MaxBusy
  BY <1>3, BoundsAre
<1>7. At(r, "full") => r.got # None /\ r.got <= OldestGot + r.spent
  BY <1>3, BoundsAre DEF At, Jobs
<1>8. Sound(r)
  BY <1>2, <1>3, <1>5, <1>6, <1>7, TextsAre DEF Sound
<1> QED BY <1>4, <1>8, JobSound, StoreSame

LEMMA StartSound ==
    ASSUME AInv, NEW t \in Threads, NEW todo, Start(todo), Begin(t, NoJob, todo)
    PROVE  AInv'
<1>1. NoJob.obs = None /\ NoJob.spent = 0
  BY DEF NoJob
<1> QED BY <1>1, NoJobSound, BeginSound DEF Start

LEMMA RequestsSound ==
    ASSUME AInv, NEW t \in Threads,
           \/ Scheduled(t) \/ Warmup(t) \/ TriggerPipelineRefresh(t)
           \/ GetCurrentRegime(t) \/ ForceCurrentRegime(t)
           \/ \E k \in Views : GetView(t, k)
    PROVE  AInv'
<1>1. CASE Scheduled(t) \/ TriggerPipelineRefresh(t)
  BY <1>1, FastOrdered, MediumOrdered, AllOrdered, StartSound DEF Scheduled, TriggerPipelineRefresh
<1>2. CASE Warmup(t)
  <2>1. \/ Begin(t, NoJob, <<"regime", "prewarm">> \o RefreshAll)
        \/ Begin(t, NoJob, <<"regime">> \o RefreshAll)
    BY <1>2 DEF Warmup
  <2> QED BY <2>1, WarmupOrdered, StartSound
<1>3. ASSUME NEW k \in Views, GetView(t, k) PROVE AInv'
  <2>1. Start(<<k>>)
    <3>1. k \in Steps /\ k # "full"
      BY PipelineBounds DEF Steps
    <3> QED BY <3>1, OrderedOne DEF Start
  <2> QED BY <1>3, <2>1, StartSound DEF GetView
<1>4. Start(<<"regime", "full">>)
  <2>1. Ordered(<<"regime", "full">>)
    BY OrderedTwo DEF Steps, Follows
  <2> QED BY <2>1 DEF Start
<1>5. CASE ForceCurrentRegime(t)
  BY <1>4, <1>5, StartSound DEF ForceCurrentRegime
<1>6. CASE GetCurrentRegime(t)
  <2>1. CASE Begin(t, NoJob, <<"regime", "full">>)
    BY <1>4, <2>1, StartSound
  <2>2. ASSUME NEW got \in Found("regime"), got # None,
               Begin(t, [NoJob EXCEPT !.got = got], <<"full">>)
        PROVE  AInv'
    <3> DEFINE kept == [NoJob EXCEPT !.got = got]
    <3>0. got \in -1..MaxAge /\ got <= OldestGot
      BY FoundAge
    <3>1. kept \in Jobs
      BY <3>0, NoJobSound DEF Jobs
    <3>2. kept.calls = <<>> /\ kept.obs = None /\ kept.spent = 0 /\ kept.got = got
      BY DEF NoJob
    <3>3. Ordered(<<"full">>) /\ <<"full">> # <<>>
      BY OrderedOne DEF Steps
    <3>4. Begin(t, kept, <<"full">>)
      BY <2>2
    <3> HIDE DEF kept
    <3> QED BY <2>2, <3>0, <3>1, <3>2, <3>3, <3>4, BeginSound
  <2> QED BY <1>6, <2>1, <2>2 DEF GetCurrentRegime
<1> QED BY <1>1, <1>2, <1>3, <1>5, <1>6

\* What Sound says of a job in the middle of its steps.
LEMMA AtStep ==
    ASSUME AInv, LInv, NEW t \in Threads, NEW s, Step(t, s)
    PROVE  /\ job[t] \in Jobs /\ Ordered(job[t].todo) /\ job[t].todo # <<>>
           /\ Head(job[t].todo) = s /\ job[t].at = "step" /\ At(job[t], s)
           /\ s # "regime" => job[t].spent \in 0..MaxBusy
           /\ s \notin {"dashboard", "prewarm"} => job[t].calls = <<>>
<1>1. Sound(job[t]) /\ job[t].at = "step" /\ Head(job[t].todo) = s
  BY DEF AInv, Step
<1>2. job[t].todo # <<>> /\ job[t] \in Jobs /\ Ordered(job[t].todo) /\ At(job[t], s)
  BY <1>1 DEF Sound, At
<1>3. s # "regime" => job[t].spent \in 0..MaxBusy
  BY <1>1, <1>2, BoundsAre DEF Sound, At, Jobs
<1>4. s \notin {"dashboard", "prewarm"} => job[t].calls = <<>>
  BY StepFacts
<1> QED BY <1>1, <1>2, <1>3, <1>4

LEMMA PrefetchSound == ASSUME AInv, LInv, NEW t \in Threads, Prefetch(t) PROVE AInv'
<1>1. Step(t, "prefetch") /\ UNCHANGED store
  BY DEF Prefetch
<1>2. /\ job[t] \in Jobs /\ Ordered(job[t].todo) /\ job[t].todo # <<>>
      /\ Head(job[t].todo) = "prefetch" /\ job[t].spent \in 0..MaxBusy /\ job[t].calls = <<>>
  BY <1>1, AtStep
<1>3. CASE Continue(t, [job[t] EXCEPT !.obs = job[t].spent])
  <2> DEFINE j == [job[t] EXCEPT !.obs = job[t].spent]
  <2>a. job[t].spent \in -1..MaxAge
    BY <1>2, BoundsAre
  <2>1. j \in Jobs
    BY <1>2, <2>a DEF Jobs
  <2>2. j.calls = <<>> /\ j.todo = job[t].todo /\ j.obs <= MaxBusy
    BY <1>2, BoundsAre DEF Jobs
  <2>3. Continue(t, j)
    BY <1>3
  <2> HIDE DEF j
  <2>4. \E r : Sound(r) /\ job' = [job EXCEPT ![t] = r]
    BY <1>2, <2>1, <2>2, <2>3, ContinueSound
  <2> QED BY <1>1, <2>4, JobSound, StoreSame
<1>4. CASE job' = [job EXCEPT ![t] = NoJob]
  BY <1>1, <1>4, NoJobSound, JobSound, StoreSame
<1> QED BY <1>3, <1>4 DEF Prefetch

LEMMA EnterSound == ASSUME AInv, LInv, NEW t \in Threads, EnterRegime(t) PROVE AInv'
<1> DEFINE r == [job[t] EXCEPT !.at = "holding", !.spent = 0]
<1>1. /\ job[t] \in Jobs /\ Sound(job[t]) /\ At(job[t], "regime") /\ job[t].todo # <<>>
      /\ job[t].calls = <<>> /\ UNCHANGED store
  BY AtStep DEF EnterRegime, AInv
<1>2. job' = [job EXCEPT ![t] = r]
  BY DEF EnterRegime
<1>a. "holding" \in {"idle", "step", "holding"} /\ 0 \in Nat
  OBVIOUS
<1>3. r \in Jobs
  BY <1>1, <1>a DEF Jobs
<1>4. /\ r.at = "holding" /\ r.spent = 0 /\ r.obs = job[t].obs /\ r.todo = job[t].todo
      /\ r.calls = job[t].calls
  BY <1>1 DEF Jobs
<1> HIDE DEF r
<1>5. Head(r.todo) = "regime" /\ r.obs <= MaxBusy + LockWait + r.spent
  <2>1. Head(job[t].todo) = "regime"
    BY <1>1 DEF At
  <2>2. job[t].obs <= MaxBusy + job[t].spent /\ job[t].spent <= LockWait
    BY <1>1 DEF Sound
  <2>3. job[t].obs \in Int /\ job[t].spent \in Int
    BY <1>1 DEF Jobs
  <2> QED BY <1>4, <2>1, <2>2, <2>3, BoundsAre
<1>6. Sound(r)
  BY <1>1, <1>3, <1>4, <1>5, BoundsAre DEF Sound, At
<1> QED BY <1>1, <1>2, <1>6, JobSound, StoreSame

LEMMA LockTimeoutSound == ASSUME AInv, LInv, NEW t \in Threads, LockTimeout(t) PROVE AInv'
<1>1. Step(t, "regime") /\ UNCHANGED store
  BY DEF LockTimeout
<1>2. /\ job[t] \in Jobs /\ Ordered(job[t].todo) /\ job[t].todo # <<>> /\ At(job[t], "regime")
      /\ Head(job[t].todo) = "regime" /\ job[t].calls = <<>> /\ Sound(job[t])
  BY <1>1, AtStep DEF AInv
<1>3. job[t].obs <= LockWait + 2 * MaxBusy
  BY <1>2, BoundsAre DEF Sound, Jobs
<1>4. PICK got \in Found("regime") : AfterRegime(t, got)
  BY DEF LockTimeout
<1>5. \E r : Sound(r) /\ job' = [job EXCEPT ![t] = r]
  BY <1>2, <1>3, <1>4, FoundAge, AfterRegimeSound
<1> QED BY <1>1, <1>5, JobSound, StoreSame

LEMMA RefreshSound == ASSUME AInv, LInv, NEW t \in Threads, RefreshRegime(t) PROVE AInv'
<1>1. /\ job[t] \in Jobs /\ Sound(job[t]) /\ job[t].at = "holding" /\ job[t].calls = <<>>
      /\ Head(job[t].todo) = "regime" /\ job[t].todo # <<>> /\ Ordered(job[t].todo)
  BY DEF AInv, LInv, RefreshRegime, Sound, Step
<1>2. /\ job[t].spent \in 0..MaxBusy /\ job[t].obs \in -1..MaxAge
      /\ job[t].obs <= LockWait + 2 * MaxBusy
  BY <1>1, BoundsAre DEF Sound, At, Jobs
<1>3. Observed(t) \in 0..MaxAge /\ Observed(t) <= LockWait + 2 * MaxBusy
  BY <1>2, BoundsAre DEF Observed, None
<1>4. \E got \in -1..MaxAge : got <= OldestGot /\ AfterRegime(t, got)
  <2>1. None \in -1..MaxAge /\ None <= OldestGot
    BY BoundsAre DEF None, OldestGot
  <2>2. Observed(t) \in -1..MaxAge /\ Observed(t) <= OldestGot
    BY <1>3, BoundsAre DEF OldestGot
  <2> QED BY <2>1, <2>2, FoundAge DEF RefreshRegime
<1>5. \E r : Sound(r) /\ job' = [job EXCEPT ![t] = r]
  BY <1>1, <1>2, <1>4, AfterRegimeSound
<1>6. \A k \in Keys : \A e \in store'[k] : Fresh(e, k)
  <2>1. CASE UNCHANGED store
    BY <2>1, StoreSame
  <2>2. CASE store' = Written("regime", Observed(t))
    <3>1. Observed(t) + Ttl("regime") <= AgeLimit("regime")
      BY <1>3, BoundsAre DEF Ttl, AgeLimit
    <3> QED BY <1>3, <2>2, <3>1, BoundsAre, WrittenFresh
  <2> QED BY <2>1, <2>2 DEF RefreshRegime
<1> QED BY <1>5, <1>6, JobSound

LEMMA KeepFullSound == ASSUME AInv, LInv, NEW t \in Threads, KeepFull(t) PROVE AInv'
<1>1. Step(t, "full") /\ store' = Written("full", job[t].got) /\ Continue(t, job[t])
  BY DEF KeepFull
<1>2. /\ job[t] \in Jobs /\ Ordered(job[t].todo) /\ job[t].todo # <<>> /\ At(job[t], "full")
      /\ Head(job[t].todo) = "full" /\ job[t].calls = <<>> /\ job[t].spent \in 0..MaxBusy
      /\ Sound(job[t])
  BY <1>1, AtStep DEF AInv
<1>3. job[t].got \in 0..MaxAge /\ job[t].got <= OldestGot + MaxBusy
  <2>1. job[t].got # None /\ job[t].got <= OldestGot + job[t].spent
    BY <1>2 DEF Sound
  <2>2. job[t].got \in -1..MaxAge
    BY <1>2 DEF Jobs
  <2>3. job[t].got \in 0..MaxAge
    BY <2>1, <2>2, BoundsAre DEF None
  <2>4. job[t].got <= OldestGot + MaxBusy
    BY <1>2, <2>1, <2>2, BoundsAre
  <2> QED BY <2>3, <2>4
<1>4. job[t].got + Ttl("full") <= AgeLimit("full")
  <2>1. OldestGot + MaxBusy + TtlFast = LockWait + 3 * MaxBusy + 2 * TtlFast - 1
    BY BoundsAre DEF OldestGot
  <2> QED BY <1>3, <2>1, BoundsAre, LimitsAre
<1>5. \A k \in Keys : \A e \in store'[k] : Fresh(e, k)
  BY <1>1, <1>3, <1>4, BoundsAre, WrittenFresh
<1>6. \E r : Sound(r) /\ job' = [job EXCEPT ![t] = r]
  BY <1>1, <1>2, ContinueSound
<1> QED BY <1>5, <1>6, JobSound

LEMMA ViewSound == ASSUME AInv, LInv, NEW t \in Threads, NEW k \in Views, RefreshView(t, k) PROVE AInv'
<1> DEFINE age == IF k \in Prefetched THEN Observed(t) ELSE job[t].spent
<1>1. Step(t, k) /\ (store' = Written(k, age) \/ UNCHANGED store) /\ Continue(t, job[t])
  BY DEF RefreshView
<1>2. k \in {"portfolio", "scanner", "sectors", "swing", "flow", "earnings"} /\ k \in Keys
  BY PipelineBounds DEF Keys
<1>3. /\ job[t] \in Jobs /\ Ordered(job[t].todo) /\ job[t].todo # <<>> /\ At(job[t], k)
      /\ Head(job[t].todo) = k /\ job[t].calls = <<>> /\ job[t].spent \in 0..MaxBusy
      /\ Sound(job[t]) /\ job[t].obs \in -1..MaxAge
  BY <1>1, <1>2, AtStep DEF AInv, Jobs
<1>4. Observed(t) \in 0..MaxAge /\ (job[t].obs = None => Observed(t) <= MaxBusy)
      /\ (job[t].obs # None => Observed(t) = job[t].obs)
  BY <1>3, BoundsAre DEF Observed, None
<1>5. age \in 0..MaxAge
  BY <1>3, <1>4, BoundsAre
<1>6. age + Ttl(k) <= AgeLimit(k)
  <2>1. CASE k = "portfolio"
    <3>1. Observed(t) <= LockWait + 3 * MaxBusy
      BY <1>3, <1>4, <2>1, BoundsAre DEF Sound
    <3> QED BY <1>4, <2>1, <3>1, BoundsAre DEF Ttl, AgeLimit, Prefetched
  <2>2. CASE k = "scanner"
    <3>1. Observed(t) <= 2 * MaxBusy
      BY <1>3, <1>4, <2>2, BoundsAre DEF Sound
    <3> QED BY <1>4, <2>2, <3>1, BoundsAre DEF Ttl, AgeLimit, Prefetched
  <2>3. CASE k \in {"sectors", "swing", "flow", "earnings"}
    <3>1. age = job[t].spent
      BY <2>3 DEF Prefetched
    <3> HIDE DEF age
    <3>2. AgeLimit(k) = MaxBusy + Ttl(k)
      BY <2>3, LimitsAre
    <3>3. Ttl(k) \in Nat /\ age \in Nat /\ age <= MaxBusy
      BY <1>3, <3>1, TtlIs
    <3> QED BY <3>2, <3>3, BoundsAre
  <2> QED BY <1>2, <2>1, <2>2, <2>3
<1> HIDE DEF age
<1>7. \A l \in Keys : \A e \in store'[l] : Fresh(e, l)
  BY <1>1, <1>2, <1>5, <1>6, WrittenFresh, StoreSame
<1>8. \E r : Sound(r) /\ job' = [job EXCEPT ![t] = r]
  BY <1>1, <1>2, <1>3, ContinueSound
<1> QED BY <1>7, <1>8, JobSound

LEMMA RemainingTail ==
    ASSUME NEW calls \in Seq(Kinds), calls # <<>>, Remaining(calls)
    PROVE  Remaining(Tail(calls)) /\ Tail(calls) \in Seq(Kinds)
<1>1. PICK k \in 0..Len(Texts) :
        /\ Len(calls) = Len(Texts) - k
        /\ \A i \in 1..Len(calls) : calls[i] = Texts[i + k]
  BY DEF Remaining
<1>2. /\ Len(calls) \in Nat /\ Len(calls) >= 1
      /\ Tail(calls) \in Seq(Kinds) /\ Len(Tail(calls)) = Len(calls) - 1
      /\ \A i \in 1..Len(calls) - 1 : Tail(calls)[i] = calls[i + 1]
  OBVIOUS
<1>3. k + 1 \in 0..Len(Texts) /\ Len(Tail(calls)) = Len(Texts) - (k + 1)
  BY <1>1, <1>2, BoundsAre
<1>4. ASSUME NEW i \in 1..Len(Tail(calls)) PROVE Tail(calls)[i] = Texts[i + (k + 1)]
  <2>1. /\ i \in 1..Len(calls) - 1 /\ i + 1 \in 1..Len(calls)
        /\ i + 1 + k = i + (k + 1)
    BY <1>1, <1>2
  <2>2. calls[i + 1] = Texts[i + 1 + k]
    BY <1>1, <2>1
  <2>3. Tail(calls)[i] = calls[i + 1]
    BY <1>2, <2>1
  <2> QED BY <2>1, <2>2, <2>3
<1> QED BY <1>2, <1>3, <1>4 DEF Remaining

\* A step for texts begins its calls, or goes on with them.
LEMMA CallsSound ==
    ASSUME AInv, LInv, NEW t \in Threads, NEW s \in {"dashboard", "prewarm"}, Step(t, s),
           NEW left \in Seq(Kinds), Remaining(left), UNCHANGED store,
           Calls(t, left) \/ job' = [job EXCEPT ![t].calls = left]
    PROVE  AInv'
<1>1. /\ job[t] \in Jobs /\ Ordered(job[t].todo) /\ job[t].todo # <<>> /\ Sound(job[t])
      /\ Head(job[t].todo) = s /\ job[t].at = "step" /\ At(job[t], s)
  BY AtStep DEF AInv
<1>2. CASE job' = [job EXCEPT ![t].calls = left]
  <2> DEFINE r == [job[t] EXCEPT !.calls = left]
  <2>1. r \in Jobs
    BY <1>1 DEF Jobs
  <2>2. /\ r.at = job[t].at /\ r.todo = job[t].todo /\ r.obs = job[t].obs /\ r.got = job[t].got
        /\ r.spent = job[t].spent /\ r.calls = left
    BY <1>1 DEF Jobs
  <2>3. job' = [job EXCEPT ![t] = r]
    BY <1>2
  <2> HIDE DEF r
  <2>4. Sound(r)
    BY <1>1, <2>1, <2>2 DEF Sound, At
  <2> QED BY <2>3, <2>4, JobSound, StoreSame
<1>3. CASE Continue(t, [job[t] EXCEPT !.calls = <<>>])
  <2> DEFINE j == [job[t] EXCEPT !.calls = <<>>]
  <2>a. <<>> \in Seq(Kinds)
    OBVIOUS
  <2>1. j \in Jobs /\ j.calls = <<>> /\ j.todo = job[t].todo
    BY <1>1, <2>a DEF Jobs
  <2>2. Continue(t, j)
    BY <1>3
  <2> HIDE DEF j
  <2>3. \E r : Sound(r) /\ job' = [job EXCEPT ![t] = r]
    BY <1>1, <2>1, <2>2, ContinueSound
  <2> QED BY <2>3, JobSound, StoreSame
<1> QED BY <1>2, <1>3 DEF Calls

LEMMA TextsSound ==
    ASSUME AInv, LInv, NEW t \in Threads, DashboardBegin(t) \/ PrewarmBegin(t) \/ CallModel(t)
    PROVE  AInv'
<1>1. UNCHANGED store
  BY DEF DashboardBegin, PrewarmBegin, CallModel
<1>2. CASE CallModel(t)
  <2>1. PICK s \in {"dashboard", "prewarm"} : Step(t, s)
    BY <1>2 DEF CallModel, LInv
  <2>2. job[t].calls \in Seq(Kinds) /\ job[t].calls # <<>> /\ Remaining(job[t].calls)
    BY <1>2 DEF CallModel, AInv, Sound, Jobs
  <2>3. PICK left \in {Tail(job[t].calls), <<>>} : Calls(t, left)
    BY <1>2 DEF CallModel
  <2>4. left \in Seq(Kinds) /\ Remaining(left)
    <3>1. Remaining(Tail(job[t].calls)) /\ Tail(job[t].calls) \in Seq(Kinds)
      BY <2>2, RemainingTail
    <3>2. <<>> \in Seq(Kinds)
      OBVIOUS
    <3> QED BY <3>1, <3>2, TextsAre
  <2> QED BY <1>1, <2>1, <2>3, <2>4, CallsSound
<1>3. CASE DashboardBegin(t) \/ PrewarmBegin(t)
  <2>1. PICK s \in {"dashboard", "prewarm"} : Step(t, s)
    BY <1>3 DEF DashboardBegin, PrewarmBegin
  <2>2. CASE job' = [job EXCEPT ![t].calls = Texts]
    BY <1>1, <2>1, <2>2, TextsAre, CallsSound
  <2>3. CASE Continue(t, job[t])
    <3>1. job[t].calls = <<>>
      BY <1>3 DEF DashboardBegin, PrewarmBegin
    <3>2. \E r : Sound(r) /\ job' = [job EXCEPT ![t] = r]
      BY <2>1, <2>3, <3>1, AtStep, ContinueSound
    <3> QED BY <1>1, <3>2, JobSound, StoreSame
  <2> QED BY <1>3, <2>2, <2>3 DEF DashboardBegin, PrewarmBegin
<1> QED BY <1>2, <1>3

LEMMA OlderIs ==
    ASSUME NEW age \in -1..MaxAge
    PROVE  /\ Older(age) \in -1..MaxAge /\ (age = None <=> Older(age) = None)
           /\ age # None => Older(age) >= 0 /\ Older(age) <= age + 1 /\ Older(age) >= age
           /\ Older(age) <= age + 1
           /\ age # None => Older(age) = IF age < MaxAge THEN age + 1 ELSE MaxAge
  BY BoundsAre DEF Older, None

LEMMA TickSound == ASSUME AInv, Tick PROVE AInv'
<1>1. ASSUME NEW t \in Threads PROVE job'[t] \in Jobs /\ Sound(job'[t])
  <2>1. /\ job[t] \in Jobs /\ Sound(job[t])
        /\ job[t].at # "idle" =>
             job[t].spent < (IF Step(t, "regime") THEN LockWait ELSE MaxBusy)
    BY DEF AInv, Tick
  <2>2. CASE job[t].at = "idle"
    <3>1. job'[t] = NoJob
      BY <2>2 DEF Tick
    <3> QED BY <3>1, NoJobSound
  <2>3. CASE job[t].at # "idle"
    <3> DEFINE r == [job[t] EXCEPT !.obs = Older(@), !.got = Older(@), !.spent = @ + 1]
    <3>1. job'[t] = r
      BY <2>3 DEF Tick
    <3>2. job[t].obs \in -1..MaxAge /\ job[t].got \in -1..MaxAge /\ job[t].spent \in Nat
      BY <2>1 DEF Jobs
    <3>3. /\ Older(job[t].obs) \in -1..MaxAge /\ Older(job[t].got) \in -1..MaxAge
          /\ Older(job[t].obs) <= job[t].obs + 1 /\ Older(job[t].got) <= job[t].got + 1
          /\ Older(job[t].got) = None => job[t].got = None
      BY <3>2, OlderIs
    <3>4. job[t].spent + 1 \in Nat
      BY <3>2
    <3>5. r \in Jobs
      BY <2>1, <3>3, <3>4 DEF Jobs
    <3>6. /\ r.at = job[t].at /\ r.todo = job[t].todo /\ r.calls = job[t].calls
          /\ r.obs = Older(job[t].obs) /\ r.got = Older(job[t].got) /\ r.spent = job[t].spent + 1
      BY <2>1 DEF Jobs
    <3> HIDE DEF r
    <3>7. \A s : At(r, s) <=> At(job[t], s)
      BY <3>6 DEF At
    <3>8. r.spent <= IF At(r, "regime") THEN LockWait ELSE MaxBusy
      BY <2>1, <2>3, <3>2, <3>6, <3>7, BoundsAre DEF Step, At
    <3>9. r.at = "holding" => Head(r.todo) = "regime" /\ r.obs <= MaxBusy + LockWait + r.spent
      BY <2>1, <3>2, <3>3, <3>6, BoundsAre DEF Sound
    <3>a. /\ At(job[t], "regime") \/ At(job[t], "scanner") => job[t].obs <= MaxBusy + job[t].spent
          /\ At(job[t], "portfolio") => job[t].obs <= LockWait + 2 * MaxBusy + job[t].spent
          /\ At(job[t], "full") => job[t].got # None /\ job[t].got <= OldestGot + job[t].spent
      BY <2>1 DEF Sound
    <3>10. /\ At(r, "regime") \/ At(r, "scanner") => r.obs <= MaxBusy + r.spent
           /\ At(r, "portfolio") => r.obs <= LockWait + 2 * MaxBusy + r.spent
      <4>0. ASSUME NEW n \in Int PROVE job[t].obs <= n + job[t].spent => r.obs <= n + r.spent
        BY <3>2, <3>3, <3>6
      <4>1. job[t].obs <= MaxBusy + job[t].spent => r.obs <= MaxBusy + r.spent
        BY <4>0, BoundsAre
      <4>2. job[t].obs <= LockWait + 2 * MaxBusy + job[t].spent
               => r.obs <= LockWait + 2 * MaxBusy + r.spent
        <5>1. LockWait + 2 * MaxBusy \in Int
          BY BoundsAre
        <5> QED BY <4>0, <5>1
      <4> QED BY <3>a, <3>7, <4>1, <4>2
    <3>11. At(r, "full") => r.got # None /\ r.got <= OldestGot + r.spent
      <4>1. At(job[t], "full") => r.got # None
        BY <3>a, <3>3, <3>6
      <4>2. At(job[t], "full") => r.got <= OldestGot + r.spent
        BY <3>a, <3>2, <3>3, <3>6, BoundsAre
      <4> QED BY <3>7, <4>1, <4>2
    <3>12. Sound(r)
      BY <2>1, <3>5, <3>6, <3>8, <3>9, <3>10, <3>11 DEF Sound
    <3> QED BY <3>1, <3>5, <3>12
  <2> QED BY <2>2, <2>3
<1>2. ASSUME NEW k \in Keys, NEW e \in store'[k] PROVE Fresh(e, k)
  <2>1. PICK f \in store[k] : f.left > 1 /\ e = [age |-> Older(f.age), left |-> f.left - 1]
    BY DEF Tick
  <2>2. f.age \in 0..MaxAge /\ f.left \in 1..Ttl(k) /\ f.age + f.left <= AgeLimit(k)
    BY DEF AInv, Fresh
  <2>3. Older(f.age) \in 0..MaxAge /\ Older(f.age) <= f.age + 1
    <3>1. f.age \in -1..MaxAge /\ f.age # None
      BY <2>2, BoundsAre DEF None
    <3>2. Older(f.age) = IF f.age < MaxAge THEN f.age + 1 ELSE MaxAge
      BY <3>1, OlderIs
    <3> HIDE DEF Older
    <3> QED BY <2>2, <3>2, BoundsAre
  <2>4. f.left - 1 \in 1..Ttl(k) /\ Older(f.age) + (f.left - 1) <= AgeLimit(k)
    BY <2>1, <2>2, <2>3, LimitInt, TtlIs, BoundsAre
  <2> QED BY <2>1, <2>3, <2>4 DEF Fresh
<1>3. job' \in [Threads -> Jobs]
  BY <1>1 DEF Tick
<1> QED BY <1>1, <1>2, <1>3 DEF AInv

LEMMA RestartSound == ASSUME AInv, NEW p \in Procs, Restart(p) PROVE AInv'
<1>1. job' = [t \in Threads |-> IF home[t] = p THEN NoJob ELSE job[t]] /\ UNCHANGED store
  BY DEF Restart
<1>2. job' \in [Threads -> Jobs] /\ \A t \in Threads : Sound(job'[t])
  BY <1>1, NoJobSound DEF AInv
<1> QED BY <1>1, <1>2, StoreSame DEF AInv

LEMMA AgeStep == LInv /\ AInv /\ [Next]_vars => AInv'
<1> SUFFICES ASSUME LInv, AInv, [Next]_vars PROVE AInv'
  OBVIOUS
<1>1. CASE UNCHANGED <<store, job>>
  BY <1>1 DEF AInv
<1>2. ASSUME NEW x \in Kinds, Summarize(x) \/ TextExpires(x) PROVE AInv'
  BY <1>1, <1>2 DEF Summarize, TextExpires
<1>3. CASE UNCHANGED vars
  BY <1>1, <1>3 DEF vars
<1> QED BY <1>2, <1>3, TickSound, RestartSound, RequestsSound, PrefetchSound, EnterSound,
           LockTimeoutSound, RefreshSound, KeepFullSound, ViewSound, TextsSound DEF Next

----------------------------------------------------------------------------
(* The other variables, and the theorems about ages and types.             *)

Others == home \in Homes /\ texts \subseteq Kinds /\ spoilt \in BOOLEAN

LEMMA InitialOthers == Init => Others
  BY DEF Init, Others

LEMMA OthersStep == AInv /\ Others /\ [Next]_vars => Others'
<1> SUFFICES ASSUME AInv, Others, [Next]_vars PROVE Others'
  OBVIOUS
<1>1. CASE UNCHANGED vars
  BY <1>1 DEF vars, Others
<1>2. CASE Next
  <2>1. home' = home
    BY <1>2 DEF Next, Tick, Restart, Summarize, TextExpires, Scheduled, Warmup, TriggerPipelineRefresh,
       GetCurrentRegime, ForceCurrentRegime, GetView, Begin, Prefetch, EnterRegime, LockTimeout,
       RefreshRegime, KeepFull, RefreshView, DashboardBegin, PrewarmBegin, CallModel
  <2>2. spoilt' = spoilt \/ (\E now \in BOOLEAN : spoilt' = ((spoilt \/ now) /\ texts' \notin {{}, Kinds}))
    BY <1>2 DEF Next, Tick, Restart, Summarize, TextExpires, Scheduled, Warmup, TriggerPipelineRefresh,
       GetCurrentRegime, ForceCurrentRegime, GetView, Begin, Prefetch, EnterRegime, LockTimeout,
       RefreshRegime, KeepFull, RefreshView, DashboardBegin, PrewarmBegin, CallModel, Spoil
  <2>3. texts' \subseteq Kinds
    <3>1. CASE \E t \in Threads : CallModel(t)
      <4> PICK t \in Threads : CallModel(t)
        BY <3>1
      <4>1. job[t].calls # <<>> /\ job[t].calls \in Seq(Kinds)
        BY DEF CallModel, AInv, Jobs
      <4>2. Head(job[t].calls) \in Kinds
        BY <4>1
      <4>3. texts' = texts \/ texts' = texts \cup {Head(job[t].calls)}
        BY DEF CallModel
      <4> QED BY <4>2, <4>3 DEF Others
    <3>2. CASE \E x \in Kinds : Summarize(x) \/ TextExpires(x)
      BY <3>2 DEF Summarize, TextExpires, Others
    <3>3. CASE \E p \in Procs : Restart(p)
      BY <3>3 DEF Restart, Others
    <3>4. CASE UNCHANGED texts
      BY <3>4 DEF Others
    <3> QED BY <1>2, <3>1, <3>2, <3>3, <3>4 DEF Next, Tick, Scheduled, Warmup, TriggerPipelineRefresh,
           GetCurrentRegime, ForceCurrentRegime, GetView, Begin, Prefetch, EnterRegime, LockTimeout,
           RefreshRegime, KeepFull, RefreshView, DashboardBegin, PrewarmBegin
  <2> QED BY <2>1, <2>2, <2>3 DEF Others
<1> QED BY <1>1, <1>2

LEMMA AlwaysAged == Spec => [](LInv /\ AInv /\ Others)
BY InitialLock, InitialAges, InitialOthers, LockStep, AgeStep, OthersStep, PTL DEF Spec

\* The cache, the locks and the jobs keep their types; a full entry is made of a
\* payload only.
THEOREM PipelineTypes == Spec => []TypeOK
<1>1. LInv /\ AInv /\ Others => TypeOK
  <2> SUFFICES ASSUME LInv, AInv, Others PROVE TypeOK
    OBVIOUS
  <2>1. ASSUME NEW k \in Keys
        PROVE  store[k] \subseteq [age : 0..MaxAge, left : 1..Ttl(k)]
    BY DEF AInv, Fresh
  <2>2. ASSUME NEW t \in Threads
        PROVE  /\ job[t].at \in {"idle", "step", "holding"}
               /\ job[t].todo \in Seq(Steps) /\ (job[t].at = "idle" <=> job[t].todo = <<>>)
               /\ job[t].obs \in -1..MaxAge /\ job[t].got \in -1..MaxAge
               /\ job[t].spent \in 0..(MaxBusy + LockWait)
               /\ job[t].calls \in Seq(Kinds)
               /\ Step(t, "full") => job[t].got # None
    <3>1. job[t] \in Jobs /\ Sound(job[t])
      BY DEF AInv
    <3>2. job[t].spent \in 0..(MaxBusy + LockWait)
      BY <3>1, BoundsAre DEF Sound, Jobs
    <3>3. /\ job[t].at \in {"idle", "step", "holding"} /\ job[t].todo \in Seq(Steps)
          /\ job[t].obs \in -1..MaxAge /\ job[t].got \in -1..MaxAge /\ job[t].calls \in Seq(Kinds)
      BY <3>1 DEF Jobs
    <3>4. (job[t].at = "idle" <=> job[t].todo = <<>>) /\ (Step(t, "full") => job[t].got # None)
      BY <3>1 DEF Sound, Step, At
    <3> QED BY <3>2, <3>3, <3>4
  <2>3. lock \in [Procs -> Threads \cup {NoThread}]
    BY DEF LInv
  <2> QED BY <2>1, <2>2, <2>3 DEF Others, TypeOK
<1> QED BY <1>1, AlwaysAged, PTL

\* What is served is no older than the caches it passed through allow: each step
\* adds the time it may take, and each entry its time to live.
THEOREM AgesAreBounded == Spec => []ServedAgeBounded
<1>1. AInv => ServedAgeBounded
  BY DEF AInv, Fresh, ServedAgeBounded
<1> QED BY <1>1, AlwaysAged, PTL

----------------------------------------------------------------------------
(* The texts of the dashboard.                                             *)

\* Thread t will come to every text that is missing.
Covering(t) ==
    /\ job[t].calls # <<>>
    /\ \A x \in Kinds \ texts : \E i \in 1..Len(job[t].calls) : job[t].calls[i] = x

FInv == Texts[1] \in texts /\ ~spoilt => texts = Kinds \/ \E t \in Threads : Covering(t)

LEMMA InitialTexts == Init => FInv
  BY DEF Init, FInv

\* Texts and calls stay as they are.
LEMMA CallsStay ==
    ASSUME FInv, UNCHANGED <<texts, spoilt>>,
           \A u \in Threads : job[u].calls # <<>> => job'[u].calls = job[u].calls
    PROVE  FInv'
<1> SUFFICES ASSUME Texts[1] \in texts, ~spoilt, texts # Kinds
             PROVE  \E t \in Threads : Covering(t)'
  BY DEF FInv
<1>1. PICK t \in Threads : Covering(t)
  BY DEF FInv
<1> QED BY <1>1 DEF Covering

LEMMA OneJobStays ==
    ASSUME FInv, AInv, NEW t \in Threads, job[t].calls = <<>>,
           \E r : job' = [job EXCEPT ![t] = r], UNCHANGED <<texts, spoilt>>
    PROVE  FInv'
<1>1. \A u \in Threads \ {t} : job'[u] = job[u]
  BY DEF AInv
<1> QED BY <1>1, CallsStay

\* A text goes missing, or an odd one comes, for a known reason.
LEMMA KnownReason == ASSUME Spoil(TRUE) PROVE FInv'
  BY DEF Spoil, FInv

LEMMA SameButJob ==
    ASSUME FInv, AInv, LInv, NEW t \in Threads,
           \/ Scheduled(t) \/ Warmup(t) \/ TriggerPipelineRefresh(t)
           \/ GetCurrentRegime(t) \/ ForceCurrentRegime(t)
           \/ \E k \in Views : GetView(t, k) \/ RefreshView(t, k)
           \/ Prefetch(t) \/ EnterRegime(t) \/ LockTimeout(t) \/ RefreshRegime(t) \/ KeepFull(t)
           \/ DashboardBegin(t) \/ PrewarmBegin(t)
    PROVE  FInv'
<1>1. ASSUME NEW start, NEW todo, Begin(t, start, todo) PROVE FInv'
  <2>1. job[t].calls = <<>>
    BY <1>1 DEF Begin, LInv, Step
  <2> QED BY <1>1, <2>1, OneJobStays DEF Begin
<1>2. CASE \/ Scheduled(t) \/ Warmup(t) \/ TriggerPipelineRefresh(t)
           \/ GetCurrentRegime(t) \/ ForceCurrentRegime(t)
           \/ \E k \in Views : GetView(t, k)
  BY <1>1, <1>2 DEF Scheduled, Warmup, TriggerPipelineRefresh, GetCurrentRegime, ForceCurrentRegime,
     GetView
<1>3. CASE Prefetch(t)
  <2>1. job[t].calls = <<>>
    BY <1>3, AtStep DEF Prefetch
  <2> QED BY <1>3, <2>1, OneJobStays DEF Prefetch, Continue, GoOn
<1>4. CASE EnterRegime(t)
  <2>1. job[t].calls = <<>>
    BY <1>4, AtStep DEF EnterRegime
  <2> QED BY <1>4, <2>1, OneJobStays DEF EnterRegime
<1>5. CASE LockTimeout(t)
  <2>1. job[t].calls = <<>>
    BY <1>5, AtStep DEF LockTimeout
  <2> QED BY <1>5, <2>1, OneJobStays DEF LockTimeout, AfterRegime, GoOn
<1>6. CASE RefreshRegime(t)
  <2>1. job[t].calls = <<>>
    BY <1>6 DEF RefreshRegime, LInv, Step
  <2>2. \E got : AfterRegime(t, got)
    BY <1>6 DEF RefreshRegime
  <2> QED BY <1>6, <2>1, <2>2, OneJobStays DEF RefreshRegime, AfterRegime, GoOn
<1>7. CASE KeepFull(t)
  <2>1. job[t].calls = <<>>
    BY <1>7, AtStep DEF KeepFull
  <2> QED BY <1>7, <2>1, OneJobStays DEF KeepFull, Continue, GoOn
<1>8. ASSUME NEW k \in Views, RefreshView(t, k) PROVE FInv'
  <2>1. k \notin {"dashboard", "prewarm"}
    BY PipelineBounds
  <2>2. job[t].calls = <<>>
    BY <1>8, <2>1, AtStep DEF RefreshView
  <2> QED BY <1>8, <2>2, OneJobStays DEF RefreshView, Continue, GoOn
<1>9. CASE DashboardBegin(t) \/ PrewarmBegin(t)
  BY <1>9, OneJobStays DEF DashboardBegin, PrewarmBegin, Continue, GoOn
<1> QED BY <1>2, <1>3, <1>4, <1>5, <1>6, <1>7, <1>8, <1>9

\* The head of the calls is made, or is there already.
LEMMA CallCovers ==
    ASSUME FInv, AInv, Others, NEW t \in Threads, job[t].calls # <<>>,
           Calls(t, Tail(job[t].calls)), Spoil(FALSE),
           texts' = texts \cup {Head(job[t].calls)}
    PROVE  FInv'
<1> SUFFICES ASSUME Texts[1] \in texts', ~spoilt', texts' # Kinds
             PROVE  \E u \in Threads : Covering(u)'
  BY DEF FInv
<1> DEFINE calls == job[t].calls
<1>1. calls \in Seq(Kinds) /\ Remaining(calls) /\ job \in [Threads -> Jobs]
  BY DEF AInv, Sound, Jobs
<1>2. /\ Len(calls) \in Nat /\ Len(calls) >= 1 /\ Head(calls) = calls[1] /\ Head(calls) \in Kinds
      /\ Tail(calls) \in Seq(Kinds) /\ Len(Tail(calls)) = Len(calls) - 1
      /\ \A i \in 1..Len(calls) - 1 : Tail(calls)[i] = calls[i + 1]
  BY <1>1
<1>3. ~spoilt
  BY DEF Spoil
<1>4. texts \subseteq texts' /\ texts' \subseteq Kinds
  BY <1>2 DEF Others
<1>5. CASE \E u \in Threads \ {t} : Covering(u)
  <2> PICK u \in Threads \ {t} : Covering(u)
    BY <1>5
  <2>1. job'[u] = job[u]
    BY <1>1 DEF Calls, Continue, GoOn
  <2> QED BY <1>4, <2>1 DEF Covering
<1>6. CASE \A x \in Kinds \ texts : \E i \in 1..Len(calls) : calls[i] = x
  <2> HIDE DEF calls
  <2>1. ASSUME NEW x \in Kinds \ texts'
        PROVE  \E i \in 1..Len(Tail(calls)) : Tail(calls)[i] = x
    <3>1. PICK i \in 1..Len(calls) : calls[i] = x
      BY <1>4, <1>6
    <3>2. i # 1
      BY <1>2, <3>1 DEF calls
    <3>3. i - 1 \in 1..Len(Tail(calls)) /\ Tail(calls)[i - 1] = x
      <4>1. i - 1 \in 1..Len(calls) - 1 /\ i - 1 + 1 = i
        BY <1>2, <3>1, <3>2
      <4> QED BY <1>2, <3>1, <4>1
    <3> QED BY <3>3
  <2>2. PICK x : x \in Kinds \ texts'
    BY <1>4
  <2>3. Tail(calls) # <<>>
    <3>1. PICK i \in 1..Len(Tail(calls)) : Tail(calls)[i] = x
      BY <2>1, <2>2
    <3>2. Len(Tail(calls)) >= 1
      BY <1>2, <3>1
    <3>3. \A s \in Seq(Kinds) : Len(s) >= 1 => s # <<>>
      OBVIOUS
    <3> QED BY <1>2, <3>2, <3>3
  <2>4. job'[t].calls = Tail(calls)
    <3>1. job' = [job EXCEPT ![t].calls = Tail(calls)]
      BY <2>3 DEF Calls, calls
    <3> QED BY <1>1, <3>1 DEF Jobs
  <2>5. Covering(t)'
    <3> DEFINE later == job'[t].calls
    <3>1. later = Tail(calls)
      BY <2>4
    <3> HIDE DEF later
    <3>2. later # <<>> /\ \A x1 \in Kinds \ texts' : \E i \in 1..Len(later) : later[i] = x1
      BY <2>1, <2>3, <3>1
    <3> QED BY <3>2 DEF Covering, later
  <2> QED BY <2>5
<1>7. CASE Texts[1] \in texts
  BY <1>3, <1>4, <1>5, <1>6, <1>7 DEF FInv, Covering
<1>8. CASE Texts[1] \notin texts
  <2>1. calls[1] = Texts[1]
    BY <1>2, <1>8
  <2>2. PICK k \in 0..Len(Texts) :
          /\ Len(calls) = Len(Texts) - k
          /\ \A i \in 1..Len(calls) : calls[i] = Texts[i + k]
    BY <1>1 DEF Remaining
  <2> HIDE DEF calls
  <2>3. k = 0
    <3>1. 1 \in 1..Len(calls) /\ 1 \in 1..Len(Texts) /\ 1 + k \in 1..Len(Texts)
      BY <1>2, <2>2, BoundsAre
    <3>2. Texts[1 + k] = Texts[1]
      BY <2>1, <2>2, <3>1
    <3>3. 1 + k = 1
      BY <3>1, <3>2, PipelineBounds
    <3> QED BY <2>2, <3>3, BoundsAre
  <2>4. ASSUME NEW x \in Kinds PROVE \E i \in 1..Len(calls) : calls[i] = x
    <3>1. PICK i \in 1..Len(Texts) : Texts[i] = x
      BY DEF Kinds
    <3>2. i \in 1..Len(calls) /\ i + k = i
      BY <2>2, <2>3, <3>1, BoundsAre
    <3> QED BY <2>2, <3>1, <3>2
  <2> QED BY <1>6, <2>4
<1> QED BY <1>7, <1>8

LEMMA CallModelStays ==
    ASSUME FInv, AInv, Others, NEW t \in Threads, CallModel(t)
    PROVE  FInv'
<1>1. CASE Spoil(TRUE)
  BY <1>1, KnownReason
<1>2. CASE /\ Calls(t, Tail(job[t].calls)) /\ Spoil(FALSE)
           /\ texts' = texts \cup {Head(job[t].calls)}
  BY <1>2, CallCovers DEF CallModel
<1>3. CASE /\ Calls(t, Tail(job[t].calls)) /\ Spoil(FALSE) /\ UNCHANGED texts
           /\ Head(job[t].calls) \in texts
  <2>1. texts' = texts \cup {Head(job[t].calls)}
    BY <1>3
  <2> QED BY <1>3, <2>1, CallCovers DEF CallModel
<1> QED BY <1>1, <1>2, <1>3 DEF CallModel

LEMMA TickStays == ASSUME FInv, LInv, AInv, Tick PROVE FInv'
<1>1. ASSUME NEW u \in Threads, job[u].calls # <<>> PROVE job'[u].calls = job[u].calls
  <2>1. job[u].at # "idle" /\ job[u] \in Jobs
    BY <1>1 DEF LInv, AInv, Step
  <2>2. job'[u] = [job[u] EXCEPT !.obs = Older(@), !.got = Older(@), !.spent = @ + 1]
    BY <2>1 DEF Tick
  <2> QED BY <2>1, <2>2 DEF Jobs
<1> QED BY <1>1, CallsStay DEF Tick

LEMMA RestartStays == ASSUME FInv, NEW p \in Procs, Restart(p) PROVE FInv'
<1> SUFFICES ASSUME Texts[1] \in texts', ~spoilt', texts' # Kinds
             PROVE  \E t \in Threads : Covering(t)'
  BY DEF FInv
<1>1. ~spoilt /\ ~ \E t \in Threads : home[t] = p /\ job[t].calls # <<>>
  BY DEF Restart, Spoil
<1>2. UNCHANGED texts /\ job' = [t \in Threads |-> IF home[t] = p THEN NoJob ELSE job[t]]
  BY DEF Restart
<1>3. PICK t \in Threads : Covering(t)
  BY <1>1, <1>2 DEF FInv
<1>4. job'[t] = job[t]
  BY <1>1, <1>2, <1>3 DEF Covering
<1> QED BY <1>2, <1>3, <1>4 DEF Covering

LEMMA TextStep == LInv /\ AInv /\ Others /\ FInv /\ [Next]_vars => FInv'
<1> SUFFICES ASSUME LInv, AInv, Others, FInv, [Next]_vars PROVE FInv'
  OBVIOUS
<1>1. CASE UNCHANGED vars
  BY <1>1, CallsStay DEF vars
<1>2. ASSUME NEW x \in Kinds, Summarize(x) \/ TextExpires(x) PROVE FInv'
  BY <1>2, KnownReason DEF Summarize, TextExpires
<1> QED BY <1>1, <1>2, TickStays, RestartStays, SameButJob, CallModelStays DEF Next

\* Where the first text is cached the others are, or a job will come to every one
\* that is missing, unless one went missing or came alone for a known reason: that
\* is why refresh_dashboard_ai may look at the first only.
THEOREM FirstTextStands == Spec => []FirstTextStandsForAll
<1>1. FInv => FirstTextStandsForAll
  BY DEF FInv, Covering, FirstTextStandsForAll
<1> QED BY <1>1, AlwaysAged, InitialLock, InitialAges, InitialOthers, InitialTexts, LockStep, AgeStep,
           OthersStep, TextStep, PTL DEF Spec
=============================================================================
