------------------------------- MODULE Limiter -------------------------------
(***************************************************************************)
(* How a thread gets an answer out of a provider: it takes a token from    *)
(* the provider's bucket, sends the request, and sends it again while the  *)
(* provider is busy or out of reach.  The buckets have no lock, although   *)
(* the threads of a process share them; yfinance has a limiter of its own, *)
(* which has one.  FMP, once its quota is used up, is left alone for a     *)
(* while; whether that is over is not asked under a lock either.           *)
(*                                                                         *)
(* A unit of time is what a bucket takes to gain a token.  Time does not   *)
(* pass while a thread is between two lines of the bucket's code.          *)
(***************************************************************************)
EXTENDS Integers, FiniteSets

CONSTANTS
    Threads,        \* threads of one process
    Sources,        \* providers; a behaviour looks at one of them
    MaxRetries,     \* max_retries of request_with_retry
    Burst,          \* tokens a full bucket holds
    Cooldown,       \* _QUOTA_COOLDOWN_SEC, in units of time
    Debt            \* bound: no call begins this far ahead of the rate

None == "none"

ASSUME LimiterBounds ==
    /\ Sources \subseteq {"fmp", "finnhub", "yfinance"}
    /\ {Burst, Cooldown} \subseteq Nat \ {0}
    /\ {MaxRetries, Debt} \subseteq Nat
    /\ IsFiniteSet(Threads) /\ Threads # {}
    /\ None \notin Threads

VARIABLES
    source,     \* the provider
    tokens,     \* what the bucket was last known to hold
    since,      \* time since last_refill or _last, until the bucket is full
    lock,       \* the thread that holds yfinance's lock
    fair,       \* what a bucket used by one thread at a time would hold
    met,        \* threads were inside the bucket together since it was right
    pause,      \* time left until _quota_exhausted_until, if it is set
    cooling,    \* time left of the cooldown that was begun last
    crossed,    \* that cooldown began while a thread was about to lift an old pause
    late,       \* requests sent since the cooldown began, as far as they are counted
    call        \* what each thread is doing

vars == <<source, tokens, since, lock, fair, met, pause, cooling, crossed, late, call>>
bucket == <<tokens, since, lock>>
quota == <<pause, cooling, crossed>>

Idle == [at |-> "idle", read |-> 0, left |-> 0, attempt |-> 0, answer |-> None]

\* _quota_exhausted_until is None.
Unset == -1

\* Between the lines of try_acquire.
Inside == {"sum", "store", "test", "take", "put", "wait"}

Places ==
    {"idle", "compare", "reset", "lock", "doze", "look", "sleep", "send", "backoff"}
        \union Inside

Calls ==
    [at : Places, read : Int, left : Nat, attempt : 0..MaxRetries,
     answer : {None, "data", "empty", "failed"}]

\* Requests of this many threads' calls.
Requests(n) == n * (MaxRetries + 1)

\* No lower bound for tokens: threads that race can put an unlocked bucket further
\* into debt than there are threads.
TypeOK ==
    /\ source \in Sources
    /\ tokens \in Int
    /\ since \in Nat /\ tokens + since <= Burst
    /\ lock \in Threads \union {None}
    /\ fair \in -Debt - Requests(Cardinality(Threads))..Burst + 1
    /\ met \in BOOLEAN
    /\ pause \in Unset..Cooldown /\ cooling \in 0..Cooldown /\ crossed \in BOOLEAN
    /\ late \in 0..Requests(Cardinality(Threads))
    /\ call \in [Threads -> Calls]

Init ==
    /\ source \in Sources
    /\ tokens = Burst /\ since = 0 /\ fair = Burst
    /\ lock = None /\ met = FALSE
    /\ pause = Unset /\ cooling = 0 /\ crossed = FALSE /\ late = 0
    /\ call = [t \in Threads |-> Idle]

\* Mutant: a bucket is never full.
Uncapped(n) == n

Capped(n) == IF n > Burst THEN Burst ELSE n

Becomes(t, c) == call' = [call EXCEPT ![t] = c]
MovesTo(t, place) == Becomes(t, [call[t] EXCEPT !.at = place])
Answers(t, answer) == Becomes(t, [Idle EXCEPT !.answer = answer])

----------------------------------------------------------------------------
(* A call begins.                                                          *)

\* FMP's _enabled and _get ask for the pause first.
Ask(t) ==
    /\ call[t].at = "idle" /\ fair >= -Debt
    /\ Becomes(t, [Idle EXCEPT !.at =
          CASE source = "yfinance" -> "lock"
            [] source = "fmp" /\ pause # Unset -> "compare"
            [] OTHER -> "look"])
    /\ UNCHANGED <<source, bucket, fair, met, quota, late>>

\* Mutant: the pause is not looked at.
NeverRuns == FALSE

Running == pause > 0

\* The pause is read again, and may be gone by then: a number is compared with None.
Compare(t) ==
    /\ call[t].at = "compare"
    /\ \/ /\ pause = Unset
          /\ Answers(t, "failed")
       \/ /\ pause # Unset /\ Running
          /\ Answers(t, "empty")
       \/ /\ pause # Unset /\ ~Running
          /\ MovesTo(t, "reset")
    /\ UNCHANGED <<source, bucket, fair, met, quota, late>>

\* The pause is lifted, whichever it is by now.  After _enabled the call may come, and
\* ask once more, or not.
Reset(t) ==
    /\ call[t].at = "reset"
    /\ pause' = Unset
    /\ MovesTo(t, "look") \/ Becomes(t, Idle)
    /\ UNCHANGED <<source, bucket, fair, met, cooling, crossed, late>>

----------------------------------------------------------------------------
(* RateLimiter.acquire: try_acquire, and a sleep when there is no token.   *)

Look(t) ==
    /\ call[t].at = "look"
    /\ Becomes(t, [call[t] EXCEPT !.at = "sum", !.read = since])
    /\ met' = (met \/ \E u \in Threads : call[u].at \in Inside)
    /\ UNCHANGED <<source, bucket, fair, quota, late>>

Sum(t) ==
    /\ call[t].at = "sum"
    /\ Becomes(t, [call[t] EXCEPT !.at = "store", !.read = Capped(tokens + @)])
    /\ UNCHANGED <<source, bucket, fair, met, quota, late>>

Store(t) ==
    /\ call[t].at = "store"
    /\ tokens' = call[t].read
    /\ since' = 0
    /\ Becomes(t, [call[t] EXCEPT !.at = "test", !.read = 0])
    /\ UNCHANGED <<source, lock, fair, met, quota, late>>

\* Mutant: the test lets the last token go twice.
AnyToken(n) == n >= 0

Enough(n) == n >= 1

Test(t) ==
    /\ call[t].at = "test"
    /\ MovesTo(t, IF Enough(tokens) THEN "take" ELSE "wait")
    /\ UNCHANGED <<source, bucket, fair, met, quota, late>>

Take(t) ==
    /\ call[t].at = "take"
    /\ Becomes(t, [call[t] EXCEPT !.at = "put", !.read = tokens])
    /\ UNCHANGED <<source, bucket, fair, met, quota, late>>

Put(t) ==
    /\ call[t].at = "put"
    /\ tokens' = call[t].read - 1
    /\ fair' = fair - 1
    /\ Becomes(t, [call[t] EXCEPT !.at = "send", !.read = 0])
    /\ UNCHANGED <<source, since, lock, met, quota, late>>

\* How long to wait is computed from the tokens there are by now: not at all, and
\* without a token, where there is just one; no sleep is as long as it takes to lose one.
Wait(t) ==
    /\ call[t].at = "wait"
    /\ \/ /\ tokens < 1
          /\ Becomes(t, [call[t] EXCEPT !.at = "sleep", !.left = 1 - tokens])
          /\ UNCHANGED fair
       \/ /\ tokens = 1
          /\ MovesTo(t, "send")
          /\ fair' = fair - 1
       \/ /\ tokens > 1
          /\ Answers(t, "failed")
          /\ UNCHANGED fair
    /\ UNCHANGED <<source, bucket, met, quota, late>>

Wake(t) ==
    /\ call[t].at = "sleep" /\ call[t].left = 0
    /\ MovesTo(t, "look")
    /\ UNCHANGED <<source, bucket, fair, met, quota, late>>

----------------------------------------------------------------------------
(* yfinance's own limiter: the lock is kept while its holder sleeps.       *)

YfAcquire(t) ==
    /\ call[t].at = "lock" /\ lock = None
    /\ since' = 0
    /\ LET held == Capped(tokens + since)
       IN  \/ /\ held >= 1
              /\ tokens' = held - 1
              /\ fair' = fair - 1
              /\ MovesTo(t, "send")
              /\ UNCHANGED lock
           \/ /\ held < 1
              /\ tokens' = held
              /\ lock' = t
              /\ Becomes(t, [call[t] EXCEPT !.at = "doze", !.left = 1 - held])
              /\ UNCHANGED fair
    /\ UNCHANGED <<source, met, quota, late>>

\* Mutant: the holder keeps the lock.
Keeps(t) == t

Release(t) == None

\* The time slept is not taken from _last: it will count once more.
YfWake(t) ==
    /\ call[t].at = "doze" /\ call[t].left = 0
    /\ tokens' = 0
    /\ fair' = fair - 1
    /\ lock' = Release(t)
    /\ MovesTo(t, "send")
    /\ UNCHANGED <<source, since, met, quota, late>>

----------------------------------------------------------------------------
(* request_with_retry, and what the client's _get makes of its end.        *)

\* More than all threads' calls could send are not counted.
Sent ==
    late' = IF cooling > 0 /\ late < Requests(Cardinality(Threads)) THEN late + 1 ELSE late

Succeeds(t) ==
    /\ call[t].at = "send"
    /\ \E answer \in {"data", "empty"} : Answers(t, answer)
    /\ Sent
    /\ UNCHANGED <<source, bucket, fair, met, quota>>

\* Refused for good, an answer that cannot be read, a Retry-After that is no
\* number; for yfinance anything that goes wrong.  FMP's 402 and 403 mean a
\* plan that does not include the data.
Fails(t) ==
    /\ call[t].at = "send"
    /\ \/ Answers(t, "failed")
       \/ source = "fmp" /\ Answers(t, "empty")
    /\ Sent
    /\ UNCHANGED <<source, bucket, fair, met, quota>>

\* 429, or no answer, with attempts left.
Retries(t) ==
    /\ call[t].at = "send" /\ source # "yfinance"
    /\ call[t].attempt < MaxRetries
    /\ Becomes(t, [call[t] EXCEPT !.at = "backoff", !.attempt = @ + 1])
    /\ Sent
    /\ UNCHANGED <<source, bucket, fair, met, quota>>

Again(t) ==
    /\ call[t].at = "backoff"
    /\ MovesTo(t, "look")
    /\ UNCHANGED <<source, bucket, fair, met, quota, late>>

\* The last attempt was answered with 429.
Limited(t) ==
    /\ call[t].at = "send" /\ source # "yfinance"
    /\ call[t].attempt = MaxRetries
    /\ \/ /\ source = "fmp"
          /\ pause' = Cooldown /\ cooling' = Cooldown
          /\ crossed' = (crossed \/ \E u \in Threads : call[u].at = "reset")
          /\ Answers(t, "empty")
       \/ /\ source # "fmp"
          /\ Answers(t, "failed")
          /\ UNCHANGED quota
    /\ Sent
    /\ UNCHANGED <<source, bucket, fair, met>>

----------------------------------------------------------------------------
(* Time.                                                                   *)

\* Requests per unit of time, and at once: what a sleeper waits for in
\* yfinance's limiter is handed out a second time.
Rate == IF source = "yfinance" THEN 2 ELSE 1
AtOnce == IF source = "yfinance" THEN Burst + 1 ELSE Burst

Tick ==
    /\ \A t \in Threads : call[t].at \notin Inside
    /\ since' = IF tokens + since >= Burst THEN since ELSE since + 1
    /\ fair' = IF fair + Rate > AtOnce THEN AtOnce ELSE fair + Rate
    /\ met' = (met /\ ~(Capped(tokens + since) = fair /\ fair >= 0))
    /\ pause' = IF pause > 0 THEN pause - 1 ELSE pause
    /\ cooling' = IF cooling > 0 THEN cooling - 1 ELSE 0
    /\ crossed' = (crossed /\ cooling' > 0)
    /\ late' = IF cooling' = 0 THEN 0 ELSE late
    /\ call' = [t \in Threads |->
                  [call[t] EXCEPT !.left = IF @ = 0 THEN 0 ELSE @ - 1]]
    /\ UNCHANGED <<source, tokens, lock>>

Step(t) ==
    \/ Compare(t) \/ Reset(t)
    \/ Look(t) \/ Sum(t) \/ Store(t) \/ Test(t) \/ Take(t) \/ Put(t) \/ Wait(t) \/ Wake(t)
    \/ YfAcquire(t) \/ YfWake(t)
    \/ Succeeds(t) \/ Fails(t) \/ Retries(t) \/ Again(t) \/ Limited(t)

Next == (\E t \in Threads : Ask(t) \/ Step(t)) \/ Tick

\* Threads are scheduled and time passes; nobody has to ask.
Spec ==
    /\ Init /\ [][Next]_vars
    /\ \A t \in Threads : WF_vars(Step(t))
    /\ WF_vars(Tick)

----------------------------------------------------------------------------
(* Properties.                                                             *)

\* Requests go out no faster than the rate and a burst allow, unless two
\* threads were inside the unlocked bucket together; yfinance's limiter, which
\* has a lock, keeps to twice its rate and one request more.  (_Bucket, _RateLimiter)
RateKept == fair >= 0 \/ met

\* A pause is no barrier for the calls that had begun, but for all others: during the
\* cooldown each other thread sends at most one call's attempts, unless it began between
\* another thread's look at an old pause and its lifting it.  (_is_quota_exhausted, _get)
PauseBoundsRequests == late <= Requests(Cardinality(Threads) - 1) \/ crossed

\* Who waits for a token or for the lock does not wait while nobody gets one,
\* also after a race left the bucket in debt.  (acquire)
SomeoneIsServed ==
    (\E t \in Threads : call[t].at \in {"lock", "sleep", "doze"})
        ~> (\E t \in Threads : call[t].at = "send")
=============================================================================
