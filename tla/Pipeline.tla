------------------------------ MODULE Pipeline ------------------------------
(***************************************************************************)
(* The data pipeline: jobs of the API process and of the worker observe    *)
(* the market, and cache what they compute from it with a time to live;    *)
(* requests are answered from the cache, or start a refresh themselves.    *)
(*                                                                         *)
(* Of a cached value the model keeps the age of the observation it was     *)
(* computed from.  A job is the list of steps it has before it.  A step    *)
(* takes time; what it observes, it observes when it begins, and how old   *)
(* its sources' own answers are is not counted.  There is no clock but     *)
(* ages, so jobs and requests may come for ever.                           *)
(*                                                                         *)
(* The entries are critical keys of DataCache: they live in Redis, in the  *)
(* dictionaries and in rows that threads upsert in any order, and a get    *)
(* copies them from one tier into another.  What is known of a get is what *)
(* DataCache proves (ReadsAreNotExpired): it returns nothing, or some      *)
(* value that was set and is not more than Grace past its expires_at.  The *)
(* times to live of this module have that Grace in them.                   *)
(***************************************************************************)
EXTENDS Integers, Sequences, FiniteSets

CONSTANTS
    Procs,          \* the API process and the worker
    Api,            \* the API process
    Threads,        \* threads that run jobs and requests
    Homes,          \* the processes the threads may be in
    NoThread,       \* nobody holds the lock
    Views,          \* the entries that GET requests read besides the regime
    Texts,          \* the AI texts of the dashboard, in the order of their calls
    TtlFast,        \* how long a get may find what was cached with TTL_FAST, or as regime:full
    TtlMedium,      \* ... with TTL_MEDIUM
    TtlDaily,       \* ... with TTL_DAILY
    LockWait,       \* the timeout of the regime lock
    MaxBusy,        \* bound: the time a step takes
    MaxAge          \* bound: older ages are not told apart

ASSUME PipelineBounds ==
    /\ Api \in Procs /\ Homes \subseteq [Threads -> Procs] /\ NoThread \notin Threads
    /\ Views \subseteq {"portfolio", "scanner", "sectors", "swing", "flow", "earnings"}
    /\ Texts \in Seq(STRING) \ {<<>>}
    /\ \A i, j \in 1..Len(Texts) : Texts[i] = Texts[j] => i = j
    /\ {TtlFast, TtlMedium, TtlDaily, LockWait, MaxBusy, MaxAge} \subseteq Nat \ {0}
    /\ MaxBusy <= MaxAge

VARIABLES
    home,       \* the process of each thread
    store,      \* what a get of each key may find: ages of observations, time left
    texts,      \* the AI texts cached for the fingerprint of the regime
    lock,       \* _regime_lock of each process
    job,        \* what each thread has to do
    spoilt      \* since no text, or every one, was there, a text went missing for a known reason

vars == <<home, store, texts, lock, job, spoilt>>

Keys == {"regime", "full"} \cup Views

\* Mutant: the full entry is kept for longer.
TtlLong(k) ==
    CASE k \in {"regime", "portfolio"} -> TtlFast
      [] k = "earnings" -> TtlDaily
      [] OTHER -> TtlFast + TtlMedium

Ttl(k) ==
    CASE k \in {"regime", "full", "portfolio"} -> TtlFast
      [] k = "earnings" -> TtlDaily
      [] OTHER -> TtlMedium
Kinds == {Texts[i] : i \in 1..Len(Texts)}

None == -1
\* The views that are computed from the job's observation if it has one.
Prefetched == {"portfolio", "scanner"}

\* obs is the age of the observation the job was started with, got the age
\* of the payload of refresh_regime, spent the time the step has taken.
NoJob == [at |-> "idle", todo |-> <<>>, obs |-> None, got |-> None,
          spent |-> 0, calls |-> <<>>]

Init ==
    /\ home \in Homes
    /\ store = [k \in Keys |-> {}]
    /\ texts = {}
    /\ lock = [p \in Procs |-> NoThread]
    /\ job = [t \in Threads |-> NoJob]
    /\ spoilt = FALSE

----------------------------------------------------------------------------
\* What a get of the key may return: no tier need answer, nor the newest one.
Found(k) == {None} \cup {e.age : e \in store[k]}

\* Of the regime, which jobs read, a get may find any value that some tier still has.
\* Of the other entries the model keeps the last one: a request may find an earlier
\* one, but age and time left add up to the same until it is gone.
Written(k, age) ==
    LET e == [age |-> age, left |-> Ttl(k)]
    IN  [store EXCEPT ![k] = IF k = "regime" THEN @ \cup {e} ELSE {e}]

\* Thread t goes on with these steps, or its job ends; what no later step looks
\* at is forgotten.
GoOn(t, j, todo) ==
    job' = [job EXCEPT ![t] =
               IF todo = <<>> THEN NoJob
               ELSE [j EXCEPT !.todo = todo, !.at = "step", !.spent = 0,
                              !.got = IF Head(todo) = "full" THEN @ ELSE None,
                              !.obs = IF Head(todo) \in {"regime"} \cup Prefetched THEN @ ELSE None]]

Continue(t, j) == GoOn(t, j, Tail(j.todo))

Step(t, s) == job[t].at = "step" /\ Head(job[t].todo) = s

----------------------------------------------------------------------------
(* Jobs and requests.                                                      *)

View(k) == IF k \in Views THEN <<k>> ELSE <<>>

RefreshFast == <<"prefetch", "regime">> \o View("portfolio") \o <<"dashboard">>
RefreshMedium ==
    LET views == View("scanner") \o View("sectors") \o View("swing")
    IN  IF views = <<>> THEN <<>> ELSE <<"prefetch">> \o views
RefreshAll == RefreshFast \o RefreshMedium \o View("earnings")

Begin(t, start, todo) ==
    /\ job[t].at = "idle"
    /\ job' = [job EXCEPT ![t] = [start EXCEPT !.at = "step", !.todo = todo]]
    /\ UNCHANGED <<home, store, texts, lock, spoilt>>

\* The scheduler of each process.  One instance of a job runs at a time, but
\* the pipeline that a request or a startup began runs beside it.
Scheduled(t) ==
    \/ Begin(t, NoJob, RefreshFast)
    \/ RefreshMedium # <<>> /\ Begin(t, NoJob, RefreshMedium)

\* At startup, once per process; a request may start the pipeline again.
Warmup(t) ==
    /\ \A u \in Threads : home[u] = home[t] => job[u].at = "idle"
    /\ Begin(t, NoJob, (IF home[t] = Api THEN <<"regime", "prewarm">> ELSE <<"regime">>) \o RefreshAll)

TriggerPipelineRefresh(t) == home[t] = Api /\ Begin(t, NoJob, RefreshAll)

\* GET /regime/current that finds no full entry: the regime's entry, or a refresh ...
GetCurrentRegime(t) ==
    /\ home[t] = Api
    /\ \E got \in Found("regime") :
          IF got = None THEN Begin(t, NoJob, <<"regime", "full">>)
          ELSE Begin(t, [NoJob EXCEPT !.got = got], <<"full">>)

\* ... with refresh=true.
ForceCurrentRegime(t) == home[t] = Api /\ Begin(t, NoJob, <<"regime", "full">>)

\* The other GET requests, which find nothing or are told to refresh.
GetView(t, k) == home[t] = Api /\ Begin(t, NoJob, <<k>>)

----------------------------------------------------------------------------
(* Steps.                                                                  *)

\* _fetch_regime_and_vol: an exception ends the whole job.
Prefetch(t) ==
    /\ Step(t, "prefetch")
    /\ \/ Continue(t, [job[t] EXCEPT !.obs = job[t].spent])
       \/ job' = [job EXCEPT ![t] = NoJob]
    /\ UNCHANGED <<home, store, texts, lock, spoilt>>

EnterRegime(t) ==
    /\ Step(t, "regime")
    /\ lock[home[t]] = NoThread
    /\ lock' = [lock EXCEPT ![home[t]] = t]
    /\ job' = [job EXCEPT ![t].at = "holding", ![t].spent = 0]
    /\ UNCHANGED <<home, store, texts, spoilt>>

\* Mutant: nobody looks at what refresh_regime returned.
AfterRegimeAlways(t, got) == Continue(t, [job[t] EXCEPT !.got = got])

\* Texts and the full entry need a payload of refresh_regime: what is skipped comes
\* next, or after the portfolio.
WithoutPayload(j) ==
    LET rest == Tail(j.todo)
        skipped == {"prewarm", "full"} \cup (IF j.obs = None THEN {} ELSE {"dashboard"})
    IN  CASE Len(rest) > 0 /\ Head(rest) \in skipped -> Tail(rest)
          [] Len(rest) > 1 /\ Head(rest) = "portfolio" /\ rest[2] \in skipped ->
                <<"portfolio">> \o Tail(Tail(rest))
          [] OTHER -> rest

AfterRegime(t, got) ==
    GoOn(t, [job[t] EXCEPT !.got = got],
         IF got = None THEN WithoutPayload(job[t]) ELSE Tail(job[t].todo))

LockTimeout(t) ==
    /\ Step(t, "regime")
    /\ lock[home[t]] # NoThread
    /\ job[t].spent >= LockWait
    /\ \E got \in Found("regime") : AfterRegime(t, got)
    /\ UNCHANGED <<home, store, texts, lock, spoilt>>

\* Mutant: the lock is kept when the refresh fails.
ReleasedOnSuccess(t, got) == IF got = None THEN lock ELSE [lock EXCEPT ![home[t]] = NoThread]

Released(t, got) == [lock EXCEPT ![home[t]] = NoThread]

\* The age of what a computation under the lock, or of a view, rests on.
Observed(t) == IF job[t].obs # None THEN job[t].obs ELSE job[t].spent

\* Under the lock: the cached entry, or a computation, or an exception.
RefreshRegime(t) ==
    /\ job[t].at = "holding"
    /\ \/ \E got \in Found("regime") \ {None} :
              /\ job[t].obs = None
              /\ AfterRegime(t, got) /\ lock' = Released(t, got) /\ UNCHANGED store
       \/ /\ store' = Written("regime", Observed(t))
          /\ AfterRegime(t, Observed(t)) /\ lock' = Released(t, Observed(t))
       \/ AfterRegime(t, None) /\ lock' = Released(t, None) /\ UNCHANGED store
    /\ UNCHANGED <<home, texts, spoilt>>

\* The answer of GET /regime/current is kept as well.
KeepFull(t) ==
    /\ Step(t, "full")
    /\ store' = Written("full", job[t].got)
    /\ Continue(t, job[t])
    /\ UNCHANGED <<home, texts, lock, spoilt>>

\* refresh_portfolio, _scanner, _sectors, _swing, _flow and _earnings_calendar: each
\* catches its own exceptions.  A request whose refresh failed computes an answer of
\* its own, which nobody keeps.
RefreshView(t, k) ==
    /\ Step(t, k)
    /\ LET age == IF k \in Prefetched THEN Observed(t) ELSE job[t].spent IN
       store' = Written(k, age) \/ UNCHANGED store
    /\ Continue(t, job[t])
    /\ UNCHANGED <<home, texts, lock, spoilt>>

----------------------------------------------------------------------------
(* The AI texts of the dashboard.                                          *)

\* refresh_dashboard_ai looks at the first text only, which a get need not find ...
DashboardReady == Texts[1] \in texts

DashboardBegin(t) ==
    /\ Step(t, "dashboard")
    /\ job[t].calls = <<>>
    /\ \/ DashboardReady /\ Continue(t, job[t])
       \/ job' = [job EXCEPT ![t].calls = Texts]
    /\ UNCHANGED <<home, store, texts, lock, spoilt>>

\* ... and _prewarm_dashboard_ai at each before its call.
PrewarmBegin(t) ==
    /\ Step(t, "prewarm")
    /\ job[t].calls = <<>>
    /\ job' = [job EXCEPT ![t].calls = Texts]
    /\ UNCHANGED <<home, store, texts, lock, spoilt>>

Spoil(now) == spoilt' = ((spoilt \/ now) /\ texts' \notin {{}, Kinds})

\* Mutant: the first call ends the pass.
CallsOnce(t, calls) == Continue(t, [job[t] EXCEPT !.calls = <<>>])

Calls(t, calls) ==
    IF calls = <<>> THEN Continue(t, [job[t] EXCEPT !.calls = <<>>])
    ELSE job' = [job EXCEPT ![t].calls = calls]

\* The call is skipped; it answers; it answers nothing, or raises.
CallModel(t) ==
    /\ job[t].calls # <<>>
    /\ LET x == Head(job[t].calls)
           rest == Tail(job[t].calls)
       IN  \/ /\ Step(t, "prewarm") /\ x \in texts
              /\ Calls(t, rest) /\ UNCHANGED texts /\ Spoil(FALSE)
           \/ Calls(t, rest) /\ texts' = texts \cup {x} /\ Spoil(FALSE)
           \/ /\ \E left \in {rest} \cup (IF Step(t, "dashboard") THEN {<<>>} ELSE {}) : Calls(t, left)
              /\ UNCHANGED texts /\ Spoil(TRUE)
    /\ UNCHANGED <<home, store, lock>>

\* POST /ai/summarize: a page asks for one text of the regime it shows.
Summarize(x) ==
    /\ x \notin texts
    /\ texts' = texts \cup {x}
    /\ Spoil(TRUE)
    /\ UNCHANGED <<home, store, lock, job>>

\* Texts are written one after the other, and expire one after the other; or one is
\* lost with a process, before its row was written.
TextExpires(x) ==
    /\ x \in texts
    /\ texts' = texts \ {x}
    /\ Spoil(TRUE)
    /\ UNCHANGED <<home, store, lock, job>>

----------------------------------------------------------------------------
Older(age) == IF age = None THEN None ELSE IF age < MaxAge THEN age + 1 ELSE MaxAge

\* Time passes unless a step has taken its time; what expires is gone.
Tick ==
    /\ \A t \in Threads : job[t].at # "idle" =>
          job[t].spent < (IF Step(t, "regime") THEN LockWait ELSE MaxBusy)
    /\ store' = [k \in Keys |-> {[age |-> Older(e.age), left |-> e.left - 1] :
                                     e \in {f \in store[k] : f.left > 1}}]
    /\ job' = [t \in Threads |-> IF job[t].at = "idle" THEN NoJob
                                 ELSE [job[t] EXCEPT !.obs = Older(@), !.got = Older(@), !.spent = @ + 1]]
    /\ UNCHANGED <<home, texts, lock, spoilt>>

\* A process dies and comes back; what it had cached was in rows too.
Restart(p) ==
    /\ \E t \in Threads : home[t] = p /\ job[t].at # "idle"
    /\ job' = [t \in Threads |-> IF home[t] = p THEN NoJob ELSE job[t]]
    /\ lock' = [lock EXCEPT ![p] = NoThread]
    /\ UNCHANGED <<home, store, texts>>
    /\ Spoil(\E t \in Threads : home[t] = p /\ job[t].calls # <<>>)

Next ==
    \/ Tick
    \/ \E p \in Procs : Restart(p)
    \/ \E x \in Kinds : Summarize(x) \/ TextExpires(x)
    \/ \E t \in Threads :
          \/ Scheduled(t) \/ Warmup(t) \/ TriggerPipelineRefresh(t)
          \/ GetCurrentRegime(t) \/ ForceCurrentRegime(t)
          \/ Prefetch(t) \/ EnterRegime(t) \/ LockTimeout(t) \/ RefreshRegime(t) \/ KeepFull(t)
          \/ DashboardBegin(t) \/ PrewarmBegin(t) \/ CallModel(t)
          \/ \E k \in Views : GetView(t, k) \/ RefreshView(t, k)

Spec == Init /\ [][Next]_vars

----------------------------------------------------------------------------
(* Properties.                                                             *)

Steps == {"prefetch", "regime", "full", "dashboard", "prewarm"} \cup Views

TypeOK ==
    /\ home \in Homes
    /\ \A k \in Keys : store[k] \subseteq [age : 0..MaxAge, left : 1..Ttl(k)]
    /\ texts \subseteq Kinds
    /\ lock \in [Procs -> Threads \cup {NoThread}]
    /\ \A t \in Threads :
          /\ job[t].at \in {"idle", "step", "holding"}
          /\ job[t].todo \in Seq(Steps) /\ (job[t].at = "idle" <=> job[t].todo = <<>>)
          /\ job[t].obs \in -1..MaxAge /\ job[t].got \in -1..MaxAge
          /\ job[t].spent \in 0..(MaxBusy + LockWait)
          /\ job[t].calls \in Seq(Kinds)
          /\ Step(t, "full") => job[t].got # None
    /\ spoilt \in BOOLEAN

\* The times to live of the entries it passed through, and the time the steps in
\* between take.
AgeLimit(k) ==
    CASE k = "regime" -> LockWait + 2 * MaxBusy + TtlFast
      [] k = "full" -> LockWait + 3 * MaxBusy + 2 * TtlFast - 1
      [] k = "portfolio" -> LockWait + 3 * MaxBusy + TtlFast
      [] k = "scanner" -> 2 * MaxBusy + TtlMedium
      [] k = "earnings" -> MaxBusy + TtlDaily
      [] OTHER -> MaxBusy + TtlMedium

(* A request is never answered with an observation older than the caches   *)
(* it passed through allow, whichever of the values set and not yet gone   *)
(* from every tier a get may find.  (_cache_set, get_current_regime)       *)
ServedAgeBounded ==
    \A k \in Keys : \A e \in store[k] : e.age + e.left <= AgeLimit(k)

(* The lock belongs to a thread of its process that is computing: whoever  *)
(* waits for it waits for a refresh under way, and nobody waits for ever.  *)
LockHolderWorks ==
    \A p \in Procs, t \in Threads : lock[p] = t <=> home[t] = p /\ job[t].at = "holding"

(* The test of one text stands for all of them: where the first text is    *)
(* cached the others are, or a job is on its way to them, unless a call    *)
(* failed, a process died at it, a text expired or a page asked for one.   *)
FirstTextStandsForAll ==
    Texts[1] \in texts /\ ~spoilt => texts = Kinds \/ \E t \in Threads : job[t].calls # <<>>
=============================================================================
