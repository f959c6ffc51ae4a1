--------------------------- MODULE LimiterProofs ----------------------------
(***************************************************************************)
(* The rate is kept, by any number of threads and any size of the bucket:  *)
(* the bucket without a lock as long as its users do not meet in it, and   *)
(* yfinance's limiter, which hands out what a sleeper waited for twice, up *)
(* to twice the rate and one request.  A pause that no other thread was    *)
(* about to lift when it began lets through what the calls of the other    *)
(* threads had left to send, and no more.                                  *)
(***************************************************************************)
EXTENDS Limiter, FiniteSetTheorems, TLAPS

\* What the bucket would hold if it were looked at now.
Full == Capped(tokens + since)

Typed ==
    /\ source \in {"fmp", "finnhub", "yfinance"}
    /\ tokens \in Int /\ tokens <= Burst
    /\ since \in Nat
    /\ fair \in Int
    /\ met \in BOOLEAN
    /\ call \in [Threads -> Calls]
    /\ \A t \in Threads :
          /\ call[t].at \in {"store", "put"} => call[t].read <= Burst
          /\ call[t].at \in {"test", "take", "put", "wait"} => since = 0

\* yfinance's calls go through its own limiter, the others through the bucket; only
\* FMP's ask for the pause.
Sides ==
    \A t \in Threads :
        /\ call[t].at \in {"lock", "doze"} => source = "yfinance"
        /\ call[t].at \in {"compare", "reset"} => source = "fmp"
        /\ call[t].at \in Inside \union {"look", "sleep", "backoff"} => source # "yfinance"

\* What a thread inside the bucket finds there when it is the only one.
Agrees(c) ==
    /\ c.at = "sum" => c.read = since /\ Full = fair
    /\ c.at = "store" => c.read = fair
    /\ c.at \in {"test", "take", "put", "wait"} => tokens = fair /\ since = 0
    /\ c.at \in {"take", "put"} => tokens >= 1
    /\ c.at = "put" => c.read = tokens
    /\ c.at = "wait" => tokens < 1

\* While nobody met anybody inside the bucket, it is what one user at a time
\* would have left, up to what its user is about to write.
BucketRight ==
    source # "yfinance" /\ ~met =>
        /\ fair >= 0 /\ fair <= Burst
        /\ \A t, u \in Threads : call[t].at \in Inside /\ call[u].at \in Inside => t = u
        /\ (\A t \in Threads : call[t].at \notin Inside) => Full = fair
        /\ \A t \in Threads : Agrees(call[t])

\* One thread sleeps in yfinance's limiter, with its lock; what it waited for is
\* in the bucket and on its way to it.
LimiterBehind ==
    source = "yfinance" =>
        /\ tokens >= 0 /\ fair >= Full /\ fair <= Burst + 1
        /\ \A t \in Threads : call[t].at = "doze" =>
              /\ lock = t
              /\ tokens = 0 /\ call[t].left \in {0, 1}
              /\ call[t].left = 0 => fair >= Full + 1

RInv == Typed /\ Sides /\ BucketRight /\ LimiterBehind

----------------------------------------------------------------------------
(* The bucket's arithmetic.                                                *)

\* A full bucket gains nothing; any other gains what time brings.
LEMMA CappedFacts ==
    ASSUME NEW n \in Int
    PROVE  /\ Capped(n) \in Int /\ Capped(n) <= n /\ Capped(n) <= Burst
           /\ Capped(n) = n \/ Capped(n) = Burst
           /\ n <= Burst => Capped(n) = n
           /\ n >= Burst => Capped(n) = Burst
  BY LimiterBounds DEF Capped

LEMMA InitiallyRight == Init => RInv
<1> SUFFICES ASSUME Init PROVE RInv
  OBVIOUS
<1>1. Idle \in Calls /\ Idle.at = "idle"
  BY LimiterBounds DEF Idle, Calls, Places, Inside
<1>2. \A t \in Threads : call[t] = Idle
  BY DEF Init
<1>3. Typed
  <2>1. Burst \in Int /\ Burst <= Burst /\ 0 \in Nat
    BY LimiterBounds
  <2>2. source \in {"fmp", "finnhub", "yfinance"}
    BY LimiterBounds DEF Init
  <2>3. call \in [Threads -> Calls]
    BY <1>1 DEF Init
  <2>4. \A t \in Threads : call[t].at \notin {"store", "test", "take", "put", "wait"}
    BY <1>1, <1>2
  <2> QED BY <2>1, <2>2, <2>3, <2>4, Zenon DEF Init, Typed
<1>4. Sides
  BY <1>1, <1>2 DEF Sides, Inside
<1>5. Full = Burst
  BY LimiterBounds, CappedFacts DEF Init, Full
<1>6. BucketRight
  BY <1>1, <1>2, <1>5, LimiterBounds DEF Init, BucketRight, Agrees, Inside
<1>7. LimiterBehind
  BY <1>1, <1>2, <1>5, LimiterBounds DEF Init, LimiterBehind
<1> QED BY <1>3, <1>4, <1>6, <1>7 DEF RInv

----------------------------------------------------------------------------
(* The steps.                                                              *)

\* A thread that neither is nor gets inside the bucket or to sleep with the lock.
LEMMA OutsideStep ==
    ASSUME RInv, NEW t \in Threads, NEW c \in Calls,
           call' = [call EXCEPT ![t] = c],
           call[t].at \notin Inside \union {"doze"}, c.at \notin Inside \union {"doze"},
           c.at = "lock" => source = "yfinance",
           c.at \in {"compare", "reset"} => source = "fmp",
           c.at \in {"look", "sleep", "backoff"} => source # "yfinance",
           UNCHANGED <<source, tokens, since, lock, fair, met>>
    PROVE  RInv'
<1>1. /\ call \in [Threads -> Calls] /\ call' \in [Threads -> Calls]
      /\ call'[t] = c /\ \A u \in Threads \ {t} : call'[u] = call[u]
  BY DEF RInv, Typed
<1>2. Typed'
  BY <1>1 DEF RInv, Typed, Inside
<1>3. Sides'
  BY <1>1 DEF RInv, Sides
<1>4. Full' = Full
  BY DEF Full
<1>5. BucketRight'
  <2> SUFFICES ASSUME source # "yfinance", ~met PROVE BucketRight'
    BY DEF BucketRight
  <2>1. /\ fair >= 0 /\ fair <= Burst
        /\ \A r, u \in Threads : call[r].at \in Inside /\ call[u].at \in Inside => r = u
        /\ (\A r \in Threads : call[r].at \notin Inside) => Full = fair
        /\ \A r \in Threads : Agrees(call[r])
    BY DEF RInv, BucketRight
  <2>2. \A r \in Threads : call'[r].at \in Inside => r # t
    BY <1>1
  <2>3. \A r \in Threads : call'[r].at \in Inside <=> call[r].at \in Inside
    BY <1>1, <2>2
  <2>4. \A r \in Threads : Agrees(call[r])'
    <3>1. ASSUME NEW r \in Threads \ {t} PROVE Agrees(call[r])'
      BY <1>1, <1>4, <2>1, <3>1 DEF Agrees
    <3>2. Agrees(call[t])'
      BY <1>1 DEF Agrees, Inside
    <3> QED BY <3>1, <3>2
  <2> QED BY <1>4, <2>1, <2>3, <2>4 DEF BucketRight
<1>6. LimiterBehind'
  BY <1>1, <1>4 DEF RInv, LimiterBehind
<1> QED BY <1>2, <1>3, <1>5, <1>6 DEF RInv

\* The reading of the time since the last refill.
LEMMA LookRight == ASSUME RInv, NEW t \in Threads, Look(t) PROVE RInv'
<1> DEFINE c == [call[t] EXCEPT !.at = "sum", !.read = since]
<1>a. /\ call \in [Threads -> Calls] /\ call[t] \in Calls
      /\ since \in Int /\ "sum" \in Places
  BY DEF RInv, Typed, Places, Inside
<1>1. c \in Calls /\ c.at = "sum" /\ c.read = since
  BY <1>a DEF Calls
<1>2. /\ call' = [call EXCEPT ![t] = c] /\ call[t].at = "look"
      /\ UNCHANGED <<source, tokens, since, lock, fair>>
  BY DEF Look, bucket, Becomes
<1> HIDE DEF c
<1>3. call' \in [Threads -> Calls] /\ call'[t] = c /\ \A u \in Threads \ {t} : call'[u] = call[u]
  BY <1>a, <1>1, <1>2
<1>4. source # "yfinance" /\ source' # "yfinance"
  BY <1>2 DEF RInv, Sides
<1>5. Typed'
  <2>1. met' \in BOOLEAN
    BY DEF Look, RInv, Typed
  <2> QED BY <1>1, <1>2, <1>3, <2>1 DEF RInv, Typed
<1>6. Sides'
  BY <1>1, <1>2, <1>3, <1>4 DEF RInv, Sides, Inside
<1>7. BucketRight'
  <2> SUFFICES ASSUME ~met' PROVE BucketRight'
    BY DEF BucketRight
  <2>1. ~met /\ \A u \in Threads : call[u].at \notin Inside
    BY DEF Look
  <2>2. fair >= 0 /\ fair <= Burst /\ Full = fair
    BY <1>4, <2>1 DEF RInv, BucketRight
  <2>3. Full' = Full
    BY <1>2 DEF Full
  <2>4. \A u \in Threads : call'[u].at \in Inside => u = t
    BY <1>3, <2>1
  <2>5. call'[t].at = "sum" /\ call'[t].read = since' /\ call'[t].at \in Inside
    BY <1>1, <1>2, <1>3 DEF Inside
  <2>6. \A u \in Threads : Agrees(call[u])'
    BY <1>2, <2>2, <2>3, <2>4, <2>5 DEF Agrees, Inside
  <2> QED BY <1>2, <2>2, <2>3, <2>4, <2>5, <2>6 DEF BucketRight
<1>8. LimiterBehind'
  BY <1>4 DEF LimiterBehind
<1> QED BY <1>5, <1>6, <1>7, <1>8 DEF RInv

\* What a thread inside the bucket may do with it while it is alone there.
LEMMA InsideStep ==
    ASSUME RInv, NEW t \in Threads, NEW c \in Calls,
           call[t].at \in Inside, call' = [call EXCEPT ![t] = c],
           c.at \in Inside \union {"sleep", "send", "idle"}, c.at # "sum",
           UNCHANGED <<source, met>>,
           c.at \in {"store", "put"} => c.read <= Burst,
           tokens' \in Int, tokens' <= Burst, since' \in {since, 0}, fair' \in Int,
           c.at \in {"test", "take", "put", "wait"} => since' = 0,
           ~met /\ fair >= 0 /\ fair <= Burst /\ Agrees(call[t]) =>
             /\ fair' >= 0 /\ fair' <= Burst
             /\ c.at = "store" => c.read = fair'
             /\ c.at \in {"test", "take", "put", "wait"} => tokens' = fair'
             /\ c.at \in {"take", "put"} => tokens' >= 1
             /\ c.at = "put" => c.read = tokens'
             /\ c.at = "wait" => tokens' < 1
             /\ c.at \in {"sleep", "send", "idle"} => Full' = fair'
    PROVE  RInv'
<1>1. /\ call \in [Threads -> Calls] /\ call' \in [Threads -> Calls]
      /\ call'[t] = c /\ \A u \in Threads \ {t} : call'[u] = call[u]
  BY DEF RInv, Typed
<1>2. source # "yfinance" /\ source' # "yfinance"
  BY DEF RInv, Sides
<1>3. Typed'
  <2>1. since' \in Nat /\ (since = 0 => since' = 0)
    BY DEF RInv, Typed
  <2>2. \A u \in Threads :
          /\ call'[u].at \in {"store", "put"} => call'[u].read <= Burst
          /\ call'[u].at \in {"test", "take", "put", "wait"} => since' = 0
    BY <1>1, <2>1 DEF RInv, Typed
  <2> QED BY <1>1, <2>1, <2>2 DEF RInv, Typed
<1>4. Sides'
  <2>1. c.at \notin {"lock", "doze", "compare", "reset"}
    BY DEF Inside
  <2> QED BY <1>1, <1>2, <2>1 DEF RInv, Sides
<1>5. BucketRight'
  <2> SUFFICES ASSUME ~met PROVE BucketRight'
    BY DEF BucketRight
  <2>1. \A u \in Threads : call[u].at \in Inside => u = t
    BY <1>2 DEF RInv, BucketRight
  <2>2. fair >= 0 /\ fair <= Burst /\ Agrees(call[t])
    BY <1>2 DEF RInv, BucketRight
  <2>3. /\ fair' >= 0 /\ fair' <= Burst
        /\ c.at = "store" => c.read = fair'
        /\ c.at \in {"test", "take", "put", "wait"} => tokens' = fair'
        /\ c.at \in {"take", "put"} => tokens' >= 1
        /\ c.at = "put" => c.read = tokens'
        /\ c.at = "wait" => tokens' < 1
        /\ c.at \in {"sleep", "send", "idle"} => Full' = fair'
    BY <2>2
  <2>4. \A u \in Threads : call'[u].at \in Inside => u = t
    BY <1>1, <2>1
  <2>5. \A u \in Threads : Agrees(call[u])'
    <3>1. ASSUME NEW u \in Threads, u # t PROVE Agrees(call[u])'
      BY <2>4, <3>1 DEF Agrees, Inside
    <3>2. Agrees(call[t])'
      BY <1>1, <2>3 DEF Agrees
    <3> QED BY <3>1, <3>2
  <2>6. (\A u \in Threads : call'[u].at \notin Inside) => Full' = fair'
    BY <1>1, <2>3 DEF Inside
  <2> QED BY <1>1, <2>3, <2>4, <2>5, <2>6 DEF BucketRight
<1>6. LimiterBehind'
  BY <1>2 DEF LimiterBehind
<1> QED BY <1>3, <1>4, <1>5, <1>6 DEF RInv

LEMMA SumRight == ASSUME RInv, NEW t \in Threads, Sum(t) PROVE RInv'
<1> DEFINE c == [call[t] EXCEPT !.at = "store", !.read = Capped(tokens + @)]
<1>1. call[t] \in Calls /\ call[t].at = "sum" /\ call[t].read \in Int /\ tokens \in Int
  BY DEF RInv, Typed, Calls, Sum
<1>2. Capped(tokens + call[t].read) \in Int /\ Capped(tokens + call[t].read) <= Burst
  BY <1>1, CappedFacts
<1>3. c \in Calls /\ c.at = "store" /\ c.read = Capped(tokens + call[t].read)
  BY <1>1, <1>2 DEF Calls, Places, Inside
<1>4. /\ call' = [call EXCEPT ![t] = c]
      /\ UNCHANGED <<source, tokens, since, fair, met>>
  BY DEF Sum, bucket, Becomes
<1> HIDE DEF c
<1>5. fair >= 0 /\ fair <= Burst /\ Agrees(call[t]) => c.read = fair
  BY <1>1, <1>3 DEF Agrees, Full
<1>6. tokens' \in Int /\ tokens' <= Burst /\ since' \in {since, 0} /\ fair' \in Int
  BY <1>4 DEF RInv, Typed
<1>7. call[t].at \in Inside /\ c.at \in Inside
  BY <1>1, <1>3 DEF Inside
<1> QED BY <1>2, <1>3, <1>4, <1>5, <1>6, <1>7, InsideStep

LEMMA StoreRight == ASSUME RInv, NEW t \in Threads, Store(t) PROVE RInv'
<1> DEFINE c == [call[t] EXCEPT !.at = "test", !.read = 0]
<1>1. call[t] \in Calls /\ call[t].at = "store"
  BY DEF RInv, Typed, Store
<1>a. "test" \in Places /\ 0 \in Int
  BY DEF Places, Inside
<1>2. c \in Calls /\ c.at = "test"
  BY <1>1, <1>a DEF Calls
<1>3. /\ call' = [call EXCEPT ![t] = c]
      /\ UNCHANGED <<source, fair, met>> /\ since' = 0 /\ tokens' = call[t].read
  BY DEF Store, Becomes
<1> HIDE DEF c
<1>4. Agrees(call[t]) => tokens' = fair
  BY <1>1, <1>3 DEF Agrees
<1>5. tokens' \in Int /\ tokens' <= Burst /\ since' \in {since, 0} /\ fair' \in Int
  BY <1>1, <1>3 DEF RInv, Typed, Calls
<1>6. call[t].at \in Inside /\ c.at \in Inside
  BY <1>1, <1>2 DEF Inside
<1> QED BY <1>2, <1>3, <1>4, <1>5, <1>6, InsideStep

LEMMA TestRight == ASSUME RInv, NEW t \in Threads, Test(t) PROVE RInv'
<1> DEFINE c == [call[t] EXCEPT !.at = IF Enough(tokens) THEN "take" ELSE "wait"]
<1>1. call[t] \in Calls /\ call[t].at = "test" /\ call[t].at \in Inside
  BY DEF RInv, Typed, Test, Inside
<1>2. /\ tokens \in Int /\ tokens <= Burst /\ since = 0 /\ fair \in Int
      /\ UNCHANGED <<source, tokens, since, fair, met>>
  BY <1>1 DEF RInv, Typed, Test, bucket
<1>3. {"take", "wait"} \subseteq Places \intersect Inside
  BY DEF Places, Inside
<1>4. c \in Calls /\ c.at = IF Enough(tokens) THEN "take" ELSE "wait"
  BY <1>1, <1>3 DEF Calls
<1>5. call' = [call EXCEPT ![t] = c]
  BY DEF Test, MovesTo, Becomes
<1> HIDE DEF c
<1>6. Agrees(call[t]) => tokens = fair
  BY <1>1 DEF Agrees
<1>7. (c.at = "take" => tokens >= 1) /\ (c.at = "wait" => tokens < 1) /\ c.at \in {"take", "wait"}
  BY <1>2, <1>4 DEF Enough
<1> QED BY <1>1, <1>2, <1>3, <1>4, <1>5, <1>6, <1>7, InsideStep

LEMMA TakeRight == ASSUME RInv, NEW t \in Threads, Take(t) PROVE RInv'
<1> DEFINE c == [call[t] EXCEPT !.at = "put", !.read = tokens]
<1>1. call[t] \in Calls /\ call[t].at = "take" /\ call[t].at \in Inside
  BY DEF RInv, Typed, Take, Inside
<1>2. /\ tokens \in Int /\ tokens <= Burst /\ since = 0 /\ fair \in Int
      /\ UNCHANGED <<source, tokens, since, fair, met>>
  BY <1>1 DEF RInv, Typed, Take, bucket
<1>3. "put" \in Places /\ "put" \in Inside
  BY DEF Places, Inside
<1>4. c \in Calls /\ c.at = "put" /\ c.read = tokens
  BY <1>1, <1>2, <1>3 DEF Calls
<1>5. call' = [call EXCEPT ![t] = c]
  BY DEF Take, Becomes
<1> HIDE DEF c
<1>6. Agrees(call[t]) => tokens = fair /\ tokens >= 1
  BY <1>1 DEF Agrees
<1> QED BY <1>1, <1>2, <1>3, <1>4, <1>5, <1>6, InsideStep

LEMMA PutRight == ASSUME RInv, NEW t \in Threads, Put(t) PROVE RInv'
<1> DEFINE c == [call[t] EXCEPT !.at = "send", !.read = 0]
<1>1. call[t] \in Calls /\ call[t].at = "put" /\ call[t].at \in Inside
  BY DEF RInv, Typed, Put, Inside
<1>a. "send" \in Places /\ 0 \in Int
  BY DEF Places
<1>2. c \in Calls /\ c.at = "send"
  BY <1>1, <1>a DEF Calls
<1>3. /\ call' = [call EXCEPT ![t] = c]
      /\ UNCHANGED <<source, since, met>> /\ tokens' = call[t].read - 1 /\ fair' = fair - 1
  BY DEF Put, Becomes
<1> HIDE DEF c
<1>4. /\ since = 0 /\ fair \in Int /\ call[t].read \in Int /\ call[t].read <= Burst
      /\ tokens' \in Int /\ tokens' <= Burst /\ fair' \in Int
  BY <1>1, <1>3, LimiterBounds DEF RInv, Typed, Calls
<1>5. fair >= 0 /\ fair <= Burst /\ Agrees(call[t])
        => fair' >= 0 /\ fair' <= Burst /\ Full' = fair'
  BY <1>1, <1>3, <1>4, CappedFacts, LimiterBounds DEF Agrees, Full
<1> QED BY <1>1, <1>2, <1>3, <1>4, <1>5, InsideStep

LEMMA WaitRight == ASSUME RInv, NEW t \in Threads, Wait(t) PROVE RInv'
<1>1. /\ call[t] \in Calls /\ call[t].at = "wait" /\ call[t].at \in Inside
      /\ tokens \in Int /\ tokens <= Burst /\ since = 0 /\ fair \in Int
      /\ UNCHANGED <<source, tokens, since, met>>
  BY DEF RInv, Typed, Wait, Inside, bucket
<1>2. fair >= 0 /\ fair <= Burst /\ Agrees(call[t]) => tokens < 1 /\ Full' = fair
  BY <1>1, CappedFacts DEF Agrees, Full
<1>3. CASE tokens < 1
  <2> DEFINE c == [call[t] EXCEPT !.at = "sleep", !.left = 1 - tokens]
  <2>1. 1 - tokens \in Nat /\ "sleep" \in Places
    BY <1>1, <1>3 DEF Places
  <2>2. c \in Calls /\ c.at = "sleep"
    BY <1>1, <2>1 DEF Calls
  <2>3. call' = [call EXCEPT ![t] = c] /\ fair' = fair
    BY <1>1, <1>3 DEF Wait, Becomes
  <2> HIDE DEF c
  <2> QED BY <1>1, <1>2, <2>2, <2>3, InsideStep
<1>4. CASE tokens = 1
  <2> DEFINE c == [call[t] EXCEPT !.at = "send"]
  <2>1. "send" \in Places
    BY DEF Places
  <2>2. c \in Calls /\ c.at = "send"
    BY <1>1, <2>1 DEF Calls
  <2>3. call' = [call EXCEPT ![t] = c] /\ fair' = fair - 1
    BY <1>1, <1>4 DEF Wait, MovesTo, Becomes
  <2> HIDE DEF c
  <2>4. fair' \in Int /\ ~(fair >= 0 /\ fair <= Burst /\ Agrees(call[t]))
    BY <1>1, <1>2, <1>4, <2>3
  <2> QED BY <1>1, <2>2, <2>3, <2>4, InsideStep
<1>5. CASE tokens > 1
  <2> DEFINE c == [Idle EXCEPT !.answer = "failed"]
  <2>1. c \in Calls /\ c.at = "idle"
    BY LimiterBounds DEF Idle, Calls, Places
  <2>2. call' = [call EXCEPT ![t] = c] /\ fair' = fair
    BY <1>1, <1>5 DEF Wait, Answers, Becomes
  <2> HIDE DEF c
  <2>3. ~(fair >= 0 /\ fair <= Burst /\ Agrees(call[t]))
    BY <1>1, <1>2, <1>5
  <2> QED BY <1>1, <2>1, <2>2, <2>3, InsideStep
<1> QED BY <1>1, <1>3, <1>4, <1>5

\* In yfinance's limiter at most the holder of the lock sleeps.
LEMMA YfAcquireRight == ASSUME RInv, NEW t \in Threads, YfAcquire(t) PROVE RInv'
<1>1. /\ call \in [Threads -> Calls] /\ call[t] \in Calls /\ call[t].at = "lock"
      /\ tokens \in Int /\ since \in Nat /\ fair \in Int /\ Burst \in Nat /\ Burst >= 1
  BY LimiterBounds DEF RInv, Typed, YfAcquire
<1>2. source = "yfinance"
  BY <1>1 DEF RInv, Sides
<1>3. /\ tokens >= 0 /\ fair >= Full /\ fair <= Burst + 1
      /\ Full \in Int /\ Full <= Burst /\ Full >= 0
      /\ \A u \in Threads : call[u].at # "doze"
  <2>1. tokens >= 0 /\ fair >= Full /\ fair <= Burst + 1
    BY <1>2 DEF RInv, LimiterBehind
  <2>2. Full \in Int /\ Full <= Burst /\ Full >= 0
    BY <1>1, <2>1 DEF Full, Capped
  <2>3. \A u \in Threads : call[u].at # "doze"
    BY <1>2, LimiterBounds DEF RInv, LimiterBehind, YfAcquire
  <2> QED BY <2>1, <2>2, <2>3
<1>4. since' = 0 /\ source' = source /\ met' = met
  BY DEF YfAcquire
<1>5. CASE /\ Full >= 1 /\ tokens' = Full - 1 /\ fair' = fair - 1
           /\ MovesTo(t, "send") /\ UNCHANGED lock
  <2> DEFINE c == [call[t] EXCEPT !.at = "send"]
  <2>a. "send" \in Places
    BY DEF Places
  <2>1. c \in Calls /\ c.at = "send"
    BY <1>1, <2>a DEF Calls
  <2>2. call' = [call EXCEPT ![t] = c]
    BY <1>5 DEF MovesTo, Becomes
  <2> HIDE DEF c
  <2>3. /\ call' \in [Threads -> Calls] /\ call'[t] = c
        /\ \A u \in Threads \ {t} : call'[u] = call[u]
    BY <1>1, <2>1, <2>2
  <2>4. /\ tokens' \in Int /\ tokens' <= Burst /\ tokens' >= 0 /\ since' \in Nat
        /\ fair' \in Int /\ fair' <= Burst + 1
    BY <1>1, <1>3, <1>4, <1>5
  <2>5. fair' >= Full'
    BY <1>1, <1>3, <1>4, <1>5, <2>4 DEF Full, Capped
  <2>6. Typed'
    BY <1>4, <2>1, <2>3, <2>4 DEF RInv, Typed
  <2>7. Sides'
    BY <1>2, <1>4, <2>1, <2>3 DEF RInv, Sides, Inside
  <2>8. BucketRight'
    BY <1>2, <1>4 DEF BucketRight
  <2>9. \A u \in Threads : call'[u].at # "doze"
    BY <1>3, <2>1, <2>3
  <2> QED BY <2>4, <2>5, <2>6, <2>7, <2>8, <2>9 DEF RInv, LimiterBehind
<1>6. CASE /\ Full < 1 /\ tokens' = Full /\ lock' = t
           /\ Becomes(t, [call[t] EXCEPT !.at = "doze", !.left = 1 - Full])
           /\ UNCHANGED fair
  <2> DEFINE c == [call[t] EXCEPT !.at = "doze", !.left = 1]
  <2>a. "doze" \in Places /\ Full = 0 /\ 1 - Full = 1
    BY <1>3, <1>6 DEF Places
  <2>1. c \in Calls /\ c.at = "doze" /\ c.left = 1
    BY <1>1, <2>a DEF Calls
  <2>2. call' = [call EXCEPT ![t] = c]
    BY <1>6, <2>a DEF Becomes
  <2> HIDE DEF c
  <2>3. /\ call' \in [Threads -> Calls] /\ call'[t] = c
        /\ \A u \in Threads \ {t} : call'[u] = call[u]
    BY <1>1, <2>1, <2>2
  <2>4. /\ tokens' = 0 /\ tokens' <= Burst /\ since' \in Nat
        /\ fair' \in Int /\ fair' <= Burst + 1 /\ fair' >= 0
    BY <1>1, <1>3, <1>4, <1>6, <2>a
  <2>5. fair' >= Full'
    BY <1>1, <1>4, <2>4 DEF Full, Capped
  <2>6. Typed'
    BY <1>4, <2>1, <2>3, <2>4 DEF RInv, Typed
  <2>7. Sides'
    BY <1>2, <1>4, <2>1, <2>3 DEF RInv, Sides, Inside
  <2>8. BucketRight'
    BY <1>2, <1>4 DEF BucketRight
  <2>9. \A u \in Threads : call'[u].at = "doze" => u = t
    BY <1>3, <2>3
  <2>10. lock' = t /\ call'[t].left = 1
    BY <1>6, <2>1, <2>3
  <2> QED BY <2>4, <2>5, <2>6, <2>7, <2>8, <2>9, <2>10 DEF RInv, LimiterBehind
<1> QED BY <1>5, <1>6 DEF YfAcquire, Full

LEMMA YfWakeRight == ASSUME RInv, NEW t \in Threads, YfWake(t) PROVE RInv'
<1> DEFINE c == [call[t] EXCEPT !.at = "send"]
<1>1. /\ call \in [Threads -> Calls] /\ call[t] \in Calls
      /\ call[t].at = "doze" /\ call[t].left = 0 /\ "send" \in Places
      /\ tokens \in Int /\ since \in Nat /\ fair \in Int /\ Burst \in Nat /\ Burst >= 1
  BY LimiterBounds DEF RInv, Typed, YfWake, Places
<1>2. c \in Calls /\ c.at = "send"
  BY <1>1 DEF Calls
<1>3. /\ call' = [call EXCEPT ![t] = c]
      /\ UNCHANGED <<source, since, met>> /\ tokens' = 0 /\ fair' = fair - 1
  BY DEF YfWake, MovesTo, Becomes
<1> HIDE DEF c
<1>4. source = "yfinance"
  BY <1>1 DEF RInv, Sides
<1>5. /\ tokens = 0 /\ fair >= Full + 1 /\ fair <= Burst + 1
      /\ \A u \in Threads : call[u].at = "doze" => u = t
  BY <1>1, <1>4 DEF RInv, LimiterBehind
<1>6. /\ call' \in [Threads -> Calls] /\ call'[t] = c
      /\ \A u \in Threads \ {t} : call'[u] = call[u]
  BY <1>1, <1>2, <1>3
<1>7. Full' = Full /\ Full \in Int
  BY <1>1, <1>3, <1>5 DEF Full, Capped
<1>8. tokens' >= 0 /\ tokens' <= Burst /\ fair' \in Int /\ fair' >= Full' /\ fair' <= Burst + 1
  BY <1>1, <1>3, <1>5, <1>7
<1>9. Typed'
  BY <1>1, <1>2, <1>3, <1>6, <1>8 DEF RInv, Typed
<1>10. Sides'
  BY <1>2, <1>3, <1>4, <1>6 DEF RInv, Sides, Inside
<1>11. BucketRight'
  BY <1>3, <1>4 DEF BucketRight
<1>12. \A u \in Threads : call'[u].at # "doze"
  BY <1>2, <1>5, <1>6
<1> QED BY <1>8, <1>9, <1>10, <1>11, <1>12 DEF RInv, LimiterBehind

----------------------------------------------------------------------------
(* Time.                                                                   *)

\* The bucket gains a token, unless it is full.
LEMMA FullGrows ==
    ASSUME RInv, Tick
    PROVE  /\ Full \in Int /\ Full' \in Int /\ Full <= Burst
           /\ Full' = IF Full < Burst THEN Full + 1 ELSE Burst
  BY LimiterBounds DEF RInv, Typed, Tick, Full, Capped

LEMMA TickRight == ASSUME RInv, Tick PROVE RInv'
<1>1. /\ call \in [Threads -> Calls]
      /\ tokens \in Int /\ since \in Nat /\ fair \in Int /\ Burst \in Nat /\ Burst >= 1
      /\ source' = source /\ tokens' = tokens /\ lock' = lock
      /\ since' = IF tokens + since >= Burst THEN since ELSE since + 1
      /\ fair' = IF fair + Rate > AtOnce THEN AtOnce ELSE fair + Rate
      /\ \A t \in Threads : call[t].at \notin Inside
  BY LimiterBounds DEF RInv, Typed, Tick
<1>2. /\ call' \in [Threads -> Calls]
      /\ \A t \in Threads : /\ call'[t].at = call[t].at
                            /\ call'[t].left = IF call[t].left = 0 THEN 0 ELSE call[t].left - 1
  <2>1. \A t \in Threads :
          LET c == [call[t] EXCEPT !.left = IF @ = 0 THEN 0 ELSE @ - 1]
          IN  /\ c \in Calls /\ c.at = call[t].at
              /\ c.left = IF call[t].left = 0 THEN 0 ELSE call[t].left - 1
    BY <1>1 DEF Calls
  <2> QED BY <2>1 DEF Tick
<1>3. Rate \in {1, 2} /\ AtOnce \in {Burst, Burst + 1} /\ fair' \in Int /\ since' \in Nat
  BY <1>1 DEF Rate, AtOnce
<1>4. Typed'
  <2>1. met' \in BOOLEAN
    BY DEF Tick
  <2>2. \A t \in Threads : call'[t].at \notin {"store", "test", "take", "put", "wait"}
    BY <1>1, <1>2 DEF Inside
  <2> QED BY <1>1, <1>2, <1>3, <2>1, <2>2 DEF RInv, Typed
<1>5. Sides'
  BY <1>1, <1>2 DEF RInv, Sides
<1>6. BucketRight'
  <2> SUFFICES ASSUME source # "yfinance", ~met' PROVE BucketRight'
    BY <1>1 DEF BucketRight
  <2>1. ~met \/ (Full = fair /\ fair >= 0)
    BY DEF Tick, Full
  <2>2. Full = fair /\ fair >= 0
    BY <1>1, <2>1 DEF RInv, BucketRight
  <2>3. Rate = 1 /\ AtOnce = Burst
    BY DEF Rate, AtOnce
  <2>4. fair' >= 0 /\ fair' <= Burst /\ Full' = fair'
    BY <1>1, <2>2, <2>3, FullGrows
  <2>5. \A t \in Threads : call'[t].at \notin Inside
    BY <1>1, <1>2
  <2>6. \A t \in Threads : Agrees(call[t])'
    BY <2>5 DEF Agrees, Inside
  <2> QED BY <2>4, <2>5, <2>6 DEF BucketRight
<1>7. LimiterBehind'
  <2> SUFFICES ASSUME source = "yfinance" PROVE LimiterBehind'
    BY <1>1 DEF LimiterBehind
  <2>1. /\ tokens >= 0 /\ fair >= Full /\ fair <= Burst + 1
        /\ \A t \in Threads : call[t].at = "doze" =>
              /\ lock = t /\ tokens = 0 /\ call[t].left \in {0, 1}
              /\ call[t].left = 0 => fair >= Full + 1
    BY DEF RInv, LimiterBehind
  <2>2. fair' = IF fair + 2 > Burst + 1 THEN Burst + 1 ELSE fair + 2
    BY <1>1 DEF Rate, AtOnce
  <2>3. fair' >= Full' /\ fair' >= Full' + 1 /\ fair' <= Burst + 1
    BY <1>1, <2>1, <2>2, FullGrows
  <2>4. \A t \in Threads : call'[t].at = "doze" =>
              lock' = t /\ tokens' = 0 /\ call'[t].left \in {0, 1}
    BY <1>1, <1>2, <2>1
  <2> QED BY <1>1, <2>1, <2>3, <2>4 DEF LimiterBehind
<1> QED BY <1>4, <1>5, <1>6, <1>7 DEF RInv

----------------------------------------------------------------------------
(* A call's other steps, and the theorem.                                  *)

LEMMA AskRight == ASSUME RInv, NEW t \in Threads, Ask(t) PROVE RInv'
<1> DEFINE place == CASE source = "yfinance" -> "lock"
                      [] source = "fmp" /\ pause # Unset -> "compare"
                      [] OTHER -> "look"
           c == [Idle EXCEPT !.at = place]
<1>1. call[t].at = "idle" /\ call[t].at \notin Inside \union {"doze"}
  BY DEF Ask, Inside
<1>2. /\ UNCHANGED <<source, tokens, since, lock, fair, met>>
      /\ call' = [call EXCEPT ![t] = c]
  BY DEF Ask, bucket, Becomes
<1>3. \/ place = "lock" /\ source = "yfinance"
      \/ place = "compare" /\ source = "fmp"
      \/ place = "look" /\ source # "yfinance"
  OBVIOUS
<1> HIDE DEF place
<1>4. {"lock", "compare", "look"} \subseteq Places \ (Inside \union {"doze"})
  BY DEF Places, Inside
<1>5. c \in Calls /\ c.at = place
  BY <1>3, <1>4, LimiterBounds DEF Idle, Calls
<1> HIDE DEF c
<1> QED BY <1>1, <1>2, <1>3, <1>4, <1>5, OutsideStep

LEMMA CompareRight == ASSUME RInv, NEW t \in Threads, Compare(t) PROVE RInv'
<1>1. /\ call[t] \in Calls /\ call[t].at = "compare" /\ source = "fmp"
      /\ UNCHANGED <<source, tokens, since, lock, fair, met>>
  BY DEF RInv, Typed, Sides, Compare, bucket
<1>2. {"idle", "compare", "reset"} \subseteq Places \ (Inside \union {"doze"})
  BY DEF Places, Inside
<1>3. ASSUME NEW c \in Calls, c.at \in {"idle", "reset"}, Becomes(t, c) PROVE RInv'
  <2>1. call' = [call EXCEPT ![t] = c]
    BY <1>3 DEF Becomes
  <2> QED BY <1>1, <1>2, <1>3, <2>1, OutsideStep
<1>4. ASSUME NEW answer \in {"empty", "failed"}, Answers(t, answer) PROVE RInv'
  <2> DEFINE c == [Idle EXCEPT !.answer = answer]
  <2>1. c \in Calls /\ c.at = "idle"
    BY <1>2, LimiterBounds DEF Idle, Calls
  <2>2. Becomes(t, c)
    BY <1>4 DEF Answers
  <2> HIDE DEF c
  <2> QED BY <1>3, <2>1, <2>2
<1>5. CASE MovesTo(t, "reset")
  <2> DEFINE c == [call[t] EXCEPT !.at = "reset"]
  <2>1. c \in Calls /\ c.at = "reset"
    BY <1>1, <1>2 DEF Calls
  <2>2. Becomes(t, c)
    BY <1>5 DEF MovesTo
  <2> HIDE DEF c
  <2> QED BY <1>3, <2>1, <2>2
<1> QED BY <1>4, <1>5 DEF Compare

LEMMA ResetRight == ASSUME RInv, NEW t \in Threads, Reset(t) PROVE RInv'
<1>1. /\ call[t] \in Calls /\ call[t].at = "reset" /\ source = "fmp"
      /\ UNCHANGED <<source, tokens, since, lock, fair, met>>
  BY DEF RInv, Typed, Sides, Reset, bucket
<1>2. {"idle", "look", "reset"} \subseteq Places \ (Inside \union {"doze"})
  BY DEF Places, Inside
<1>3. \E c \in Calls : c.at \in {"idle", "look"} /\ call' = [call EXCEPT ![t] = c]
  <2> DEFINE c == [call[t] EXCEPT !.at = "look"]
  <2>1. c \in Calls /\ c.at = "look" /\ Idle \in Calls /\ Idle.at = "idle"
    BY <1>1, <1>2, LimiterBounds DEF Idle, Calls
  <2>2. call' = [call EXCEPT ![t] = c] \/ call' = [call EXCEPT ![t] = Idle]
    BY DEF Reset, MovesTo, Becomes
  <2> HIDE DEF c
  <2> QED BY <2>1, <2>2
<1>4. PICK c \in Calls : c.at \in {"idle", "look"} /\ call' = [call EXCEPT ![t] = c]
  BY <1>3
<1> QED BY <1>1, <1>2, <1>4, OutsideStep

\* Wake and Again send the thread back to the bucket.
LEMMA BackToLook ==
    ASSUME RInv, NEW t \in Threads, call[t].at \in {"sleep", "backoff"},
           MovesTo(t, "look"), UNCHANGED <<source, tokens, since, lock, fair, met>>
    PROVE  RInv'
<1> DEFINE c == [call[t] EXCEPT !.at = "look"]
<1>1. call[t] \in Calls /\ source # "yfinance"
  BY DEF RInv, Typed, Sides
<1>2. "look" \in Places \ (Inside \union {"doze"}) /\ call[t].at \notin Inside \union {"doze"}
  BY DEF Places, Inside
<1>3. c \in Calls /\ c.at = "look"
  BY <1>1, <1>2 DEF Calls
<1>4. call' = [call EXCEPT ![t] = c]
  BY DEF MovesTo, Becomes
<1> HIDE DEF c
<1> QED BY <1>1, <1>2, <1>3, <1>4, OutsideStep

\* Succeeds, Fails, Limited: the call is over.
LEMMA CallEnds ==
    ASSUME RInv, NEW t \in Threads, call[t].at = "send",
           NEW answer \in {"data", "empty", "failed"}, Answers(t, answer),
           UNCHANGED <<source, tokens, since, lock, fair, met>>
    PROVE  RInv'
<1> DEFINE c == [Idle EXCEPT !.answer = answer]
<1>1. "idle" \in Places \ (Inside \union {"doze"}) /\ call[t].at \notin Inside \union {"doze"}
  BY DEF Places, Inside
<1>2. c \in Calls /\ c.at = "idle"
  BY <1>1, LimiterBounds DEF Idle, Calls
<1>3. call' = [call EXCEPT ![t] = c]
  BY DEF Answers, Becomes
<1> HIDE DEF c
<1> QED BY <1>1, <1>2, <1>3, OutsideStep

LEMMA RetriesRight == ASSUME RInv, NEW t \in Threads, Retries(t) PROVE RInv'
<1> DEFINE c == [call[t] EXCEPT !.at = "backoff", !.attempt = @ + 1]
<1>1. /\ call[t] \in Calls /\ call[t].at = "send" /\ source # "yfinance"
      /\ UNCHANGED <<source, tokens, since, lock, fair, met>>
  BY DEF RInv, Typed, Retries, bucket
<1>2. "backoff" \in Places \ (Inside \union {"doze"}) /\ call[t].at \notin Inside \union {"doze"}
  BY <1>1 DEF Places, Inside
<1>3. call[t].attempt + 1 \in 0..MaxRetries
  BY <1>1, LimiterBounds DEF Calls, Retries
<1>4. c \in Calls /\ c.at = "backoff"
  BY <1>1, <1>2, <1>3 DEF Calls
<1>5. call' = [call EXCEPT ![t] = c]
  BY DEF Retries, Becomes
<1> HIDE DEF c
<1> QED BY <1>1, <1>2, <1>4, <1>5, OutsideStep

LEMMA StepRight == RInv /\ [Next]_vars => RInv'
<1> SUFFICES ASSUME RInv, [Next]_vars PROVE RInv'
  OBVIOUS
<1>1. ASSUME NEW t \in Threads, Step(t) PROVE RInv'
  <2>1. CASE Wake(t) \/ Again(t)
    BY <2>1, BackToLook DEF Wake, Again, bucket
  <2>2. CASE Succeeds(t)
    BY <2>2, CallEnds DEF Succeeds, bucket
  <2>3. CASE Fails(t)
    BY <2>3, CallEnds DEF Fails, bucket
  <2>4. CASE Limited(t)
    BY <2>4, CallEnds DEF Limited, bucket
  <2> QED BY <1>1, <2>1, <2>2, <2>3, <2>4, CompareRight, ResetRight, LookRight, SumRight,
             StoreRight, TestRight, TakeRight, PutRight, WaitRight, YfAcquireRight,
             YfWakeRight, RetriesRight DEF Step
<1>2. CASE UNCHANGED vars
  <2>1. UNCHANGED <<source, tokens, since, lock, fair, met, call>>
    BY <1>2 DEF vars
  <2> QED BY <2>1 DEF RInv, Typed, Sides, BucketRight, Agrees, LimiterBehind, Full
<1> QED BY <1>1, <1>2, AskRight, TickRight DEF Next

\* Requests go out no faster than the bucket's rate and size allow, unless two
\* threads met inside it; yfinance's limiter keeps to twice its rate.
THEOREM RateIsKept == Spec => []RateKept
<1>1. RInv => RateKept
  <2> SUFFICES ASSUME RInv, ~met PROVE fair >= 0
    BY DEF RateKept
  <2>1. CASE source # "yfinance"
    BY <2>1 DEF RInv, BucketRight
  <2>2. CASE source = "yfinance"
    <3>1. /\ tokens >= 0 /\ fair >= Full /\ tokens \in Int /\ since \in Nat /\ fair \in Int
      BY <2>2 DEF RInv, Typed, LimiterBehind
    <3> QED BY <3>1, LimiterBounds DEF Full, Capped
  <2> QED BY <2>1, <2>2
<1> QED BY <1>1, InitiallyRight, StepRight, PTL DEF Spec

----------------------------------------------------------------------------
(* What the calls that have begun may still do: how often they send, and   *)
(* how often they take a token.                                            *)

SendsOf(c) ==
    IF c.at \in {"idle", "compare", "reset"} THEN 0 ELSE MaxRetries + 1 - c.attempt

TakesOf(c) ==
    CASE c.at = "idle" -> 0
      [] c.at = "send" -> MaxRetries - c.attempt
      [] OTHER -> MaxRetries + 1 - c.attempt

SendsLeft == [t \in Threads |-> SendsOf(call[t])]
TakesLeft == [t \in Threads |-> TakesOf(call[t])]

\* As many pairs as f promises altogether.
UpTo(f) == {p \in Threads \X (1..MaxRetries + 1) : p[2] <= f[p[1]]}

Bounded ==
    /\ source \in Sources
    /\ tokens + since <= Burst
    /\ lock \in Threads \union {None}
    /\ fair <= AtOnce
    /\ pause \in Unset..Cooldown /\ cooling \in 0..Cooldown /\ crossed \in BOOLEAN
    /\ cooling > 0 => source = "fmp"
    /\ late \in 0..Requests(Cardinality(Threads))

\* Every token that a call may still take was counted when the call began.
DebtBounded ==
    fair - Cardinality(UpTo(TakesLeft)) >= -Debt - Requests(Cardinality(Threads))

\* A cooldown that nobody was about to lift when it began.
Holding == cooling > 0 /\ ~crossed

\* It is what the threads see, so none of them comes to lift it; and who began it had
\* nothing left to send.
PauseHolds ==
    /\ cooling = 0 => late = 0
    /\ Holding =>
         /\ pause = cooling
         /\ \A t \in Threads : call[t].at # "reset"
         /\ late + Cardinality(UpTo(SendsLeft)) <= Requests(Cardinality(Threads) - 1)

PInv == Bounded /\ DebtBounded /\ PauseHolds

LEMMA RequestsAre ==
    /\ Cardinality(Threads) \in Nat /\ Cardinality(Threads) >= 1
    /\ Requests(Cardinality(Threads)) \in Nat
    /\ Requests(Cardinality(Threads) - 1) \in Nat
    /\ Requests(Cardinality(Threads) - 1) <= Requests(Cardinality(Threads))
<1>1. Cardinality(Threads) \in Nat /\ Cardinality(Threads) # 0
  BY LimiterBounds, FS_CardinalityType, FS_EmptySet
<1>2. \A n \in Nat : Requests(n) \in Nat
  BY LimiterBounds DEF Requests
<1>3. ASSUME NEW n \in Nat PROVE Requests(n) <= Requests(n + 1)
  BY LimiterBounds DEF Requests
<1>4. Cardinality(Threads) - 1 \in Nat /\ Cardinality(Threads) - 1 + 1 = Cardinality(Threads)
  BY <1>1
<1> QED BY <1>1, <1>2, <1>3, <1>4

\* The pairs are finitely many: none of them is of a thread that f promises nothing.
LEMMA UpToSize ==
    ASSUME NEW f
    PROVE  /\ IsFiniteSet(UpTo(f)) /\ Cardinality(UpTo(f)) \in Nat
           /\ Cardinality(UpTo(f)) <= Requests(Cardinality(Threads))
           /\ \A t \in Threads : f[t] = 0 =>
                 Cardinality(UpTo(f)) <= Requests(Cardinality(Threads) - 1)
<1> DEFINE R == 1..MaxRetries + 1
<1>1. IsFiniteSet(R) /\ Cardinality(R) = MaxRetries + 1
  <2>1. ASSUME NEW n \in Int, n >= 1
        PROVE  IsFiniteSet(1..n) /\ Cardinality(1..n) = n
    <3>1. /\ IsFiniteSet(1..n)
          /\ Cardinality(1..n) = IF 1 > n THEN 0 ELSE n - 1 + 1
      BY FS_Interval
    <3> QED BY <2>1, <3>1
  <2>2. MaxRetries + 1 \in Int /\ MaxRetries + 1 >= 1
    BY LimiterBounds
  <2> QED BY <2>1, <2>2
<1>2. ASSUME NEW T, IsFiniteSet(T), UpTo(f) \subseteq T \X R
      PROVE  /\ IsFiniteSet(UpTo(f))
             /\ Cardinality(UpTo(f)) <= Requests(Cardinality(T))
  <2>1. IsFiniteSet(T \X R) /\ Cardinality(T \X R) = Cardinality(T) * Cardinality(R)
    BY <1>1, <1>2, FS_Product
  <2>2. Cardinality(T \X R) = Requests(Cardinality(T))
    BY <1>1, <2>1 DEF Requests
  <2>3. IsFiniteSet(UpTo(f)) /\ Cardinality(UpTo(f)) <= Cardinality(T \X R)
    BY <1>2, <2>1, FS_Subset
  <2> QED BY <2>2, <2>3
<1>3. UpTo(f) \subseteq Threads \X R
  BY DEF UpTo
<1>4. IsFiniteSet(UpTo(f)) /\ Cardinality(UpTo(f)) <= Requests(Cardinality(Threads))
  BY <1>2, <1>3, LimiterBounds
<1>5. ASSUME NEW t \in Threads, f[t] = 0
      PROVE  Cardinality(UpTo(f)) <= Requests(Cardinality(Threads) - 1)
  <2>1. /\ IsFiniteSet(Threads \ {t})
        /\ Cardinality(Threads \ {t}) = Cardinality(Threads) - 1
    BY LimiterBounds, FS_RemoveElement
  <2>2. UpTo(f) \subseteq (Threads \ {t}) \X R
    <3> SUFFICES ASSUME NEW p \in UpTo(f) PROVE p \in (Threads \ {t}) \X R
      OBVIOUS
    <3>1. p \in Threads \X R /\ p[2] <= f[p[1]] /\ p[2] \in 1..MaxRetries + 1
      BY DEF UpTo
    <3>2. p[1] # t
      BY <1>5, <3>1, LimiterBounds
    <3> QED BY <3>1, <3>2
  <2> QED BY <1>2, <2>1, <2>2
<1> QED BY <1>4, <1>5, FS_CardinalityType

\* Nobody's promise grows; where one's shrinks, a pair is gone.
LEMMA UpToShrinks ==
    ASSUME NEW f, NEW g, NEW t \in Threads,
           \A u \in Threads \ {t} : f[u] = g[u],
           f[t] \in Int, g[t] \in 0..MaxRetries + 1, f[t] <= g[t]
    PROVE  /\ Cardinality(UpTo(f)) <= Cardinality(UpTo(g))
           /\ f[t] < g[t] /\ f[t] >= 0 => Cardinality(UpTo(f)) + 1 <= Cardinality(UpTo(g))
<1>1. \A p \in UpTo(f) : p \in UpTo(g)
  <2> SUFFICES ASSUME NEW p \in UpTo(f) PROVE p \in UpTo(g)
    OBVIOUS
  <2>1. p[1] \in Threads /\ p[2] \in 1..MaxRetries + 1 /\ p[2] <= f[p[1]]
    BY DEF UpTo
  <2>2. p[2] <= g[p[1]]
    BY <2>1, LimiterBounds
  <2> QED BY <2>2 DEF UpTo
<1>2. IsFiniteSet(UpTo(g)) /\ UpTo(f) \in SUBSET UpTo(g)
  BY <1>1, UpToSize
<1>3. Cardinality(UpTo(f)) <= Cardinality(UpTo(g))
  BY <1>2, FS_Subset
<1>4. ASSUME f[t] < g[t], f[t] >= 0
      PROVE  Cardinality(UpTo(f)) + 1 <= Cardinality(UpTo(g))
  <2> DEFINE q == <<t, g[t]>>
  <2>1. g[t] \in 1..MaxRetries + 1
    BY <1>4, LimiterBounds
  <2>2. q \in UpTo(g)
    BY <2>1, LimiterBounds DEF UpTo
  <2>3. q \notin UpTo(f)
    BY <1>4, LimiterBounds DEF UpTo
  <2>4. IsFiniteSet(UpTo(g) \ {q}) /\ Cardinality(UpTo(g) \ {q}) = Cardinality(UpTo(g)) - 1
    BY <1>2, <2>2, FS_RemoveElement
  <2>5. UpTo(f) \in SUBSET (UpTo(g) \ {q})
    BY <1>2, <2>3
  <2>6. Cardinality(UpTo(f)) <= Cardinality(UpTo(g) \ {q})
    BY <2>4, <2>5, FS_Subset
  <2> QED BY <2>4, <2>6, UpToSize
<1> QED BY <1>3, <1>4

\* A call that does not send, or does not take, more than it had left.
LEMMA CallsShrink ==
    ASSUME RInv, NEW t \in Threads, NEW c \in Calls, call' = [call EXCEPT ![t] = c]
    PROVE  /\ SendsOf(c) <= SendsOf(call[t]) =>
                 Cardinality(UpTo(SendsLeft')) <= Cardinality(UpTo(SendsLeft))
           /\ TakesOf(c) <= TakesOf(call[t]) =>
                 Cardinality(UpTo(TakesLeft')) <= Cardinality(UpTo(TakesLeft))
           /\ SendsOf(c) < SendsOf(call[t]) =>
                 Cardinality(UpTo(SendsLeft')) + 1 <= Cardinality(UpTo(SendsLeft))
           /\ TakesOf(c) < TakesOf(call[t]) =>
                 Cardinality(UpTo(TakesLeft')) + 1 <= Cardinality(UpTo(TakesLeft))
<1>1. call \in [Threads -> Calls] /\ call[t] \in Calls /\ call'[t] = c
      /\ \A u \in Threads \ {t} : call'[u] = call[u]
  BY DEF RInv, Typed
<1>2. ASSUME NEW d \in Calls
      PROVE  SendsOf(d) \in 0..MaxRetries + 1 /\ TakesOf(d) \in 0..MaxRetries + 1
  <2>1. d.attempt \in 0..MaxRetries
    BY DEF Calls
  <2> QED BY <2>1, LimiterBounds DEF SendsOf, TakesOf
<1>3. /\ \A u \in Threads : SendsLeft'[u] = SendsOf(call'[u]) /\ SendsLeft[u] = SendsOf(call[u])
      /\ \A u \in Threads : TakesLeft'[u] = TakesOf(call'[u]) /\ TakesLeft[u] = TakesOf(call[u])
  BY DEF SendsLeft, TakesLeft, SendsOf, TakesOf
<1>4. \A u \in Threads \ {t} : SendsLeft'[u] = SendsLeft[u] /\ TakesLeft'[u] = TakesLeft[u]
  BY <1>1, <1>3
<1>5. /\ SendsLeft'[t] = SendsOf(c) /\ SendsLeft[t] = SendsOf(call[t])
      /\ TakesLeft'[t] = TakesOf(c) /\ TakesLeft[t] = TakesOf(call[t])
      /\ SendsOf(c) \in 0..MaxRetries + 1 /\ SendsOf(call[t]) \in 0..MaxRetries + 1
      /\ TakesOf(c) \in 0..MaxRetries + 1 /\ TakesOf(call[t]) \in 0..MaxRetries + 1
  BY <1>1, <1>2, <1>3
<1>6. /\ SendsLeft'[t] \in Int /\ SendsLeft[t] \in 0..MaxRetries + 1 /\ SendsLeft'[t] >= 0
      /\ TakesLeft'[t] \in Int /\ TakesLeft[t] \in 0..MaxRetries + 1 /\ TakesLeft'[t] >= 0
      /\ SendsLeft[t] \in Int /\ TakesLeft[t] \in Int
  BY <1>5, LimiterBounds
<1> HIDE DEF SendsLeft, TakesLeft
<1>7. ASSUME SendsLeft'[t] <= SendsLeft[t]
      PROVE  /\ Cardinality(UpTo(SendsLeft')) <= Cardinality(UpTo(SendsLeft))
             /\ SendsLeft'[t] < SendsLeft[t] =>
                  Cardinality(UpTo(SendsLeft')) + 1 <= Cardinality(UpTo(SendsLeft))
  BY <1>4, <1>6, <1>7, UpToShrinks
<1>8. ASSUME TakesLeft'[t] <= TakesLeft[t]
      PROVE  /\ Cardinality(UpTo(TakesLeft')) <= Cardinality(UpTo(TakesLeft))
             /\ TakesLeft'[t] < TakesLeft[t] =>
                  Cardinality(UpTo(TakesLeft')) + 1 <= Cardinality(UpTo(TakesLeft))
  BY <1>4, <1>6, <1>8, UpToShrinks
<1>9. /\ SendsOf(c) < SendsOf(call[t]) => SendsLeft'[t] <= SendsLeft[t] /\ SendsLeft'[t] < SendsLeft[t]
      /\ TakesOf(c) < TakesOf(call[t]) => TakesLeft'[t] <= TakesLeft[t] /\ TakesLeft'[t] < TakesLeft[t]
  BY <1>5, <1>6
<1> QED BY <1>5, <1>7, <1>8, <1>9

\* A step of a call: it pays for what it sends and for what it takes.
LEMMA CallPays ==
    ASSUME RInv, PInv, NEW t \in Threads, NEW c \in Calls, call' = [call EXCEPT ![t] = c],
           SendsOf(c) <= SendsOf(call[t]), TakesOf(c) <= TakesOf(call[t]),
           \/ late' = late
           \/ Sent /\ SendsOf(c) < SendsOf(call[t]),
           \/ fair' = fair
           \/ fair' = fair - 1 /\ TakesOf(c) < TakesOf(call[t]),
           c.at = "reset" => ~Holding,
           tokens' + since' <= Burst, lock' \in Threads \union {None},
           UNCHANGED <<source, pause, cooling, crossed>>
    PROVE  PInv'
<1>1. /\ source \in Sources /\ fair <= AtOnce /\ fair \in Int /\ AtOnce \in Int
      /\ late \in 0..Requests(Cardinality(Threads)) /\ cooling \in 0..Cooldown
  BY LimiterBounds DEF RInv, Typed, PInv, Bounded, AtOnce
<1>2. /\ Cardinality(UpTo(SendsLeft')) \in Nat /\ Cardinality(UpTo(SendsLeft)) \in Nat
      /\ Cardinality(UpTo(TakesLeft')) \in Nat /\ Cardinality(UpTo(TakesLeft)) \in Nat
  BY UpToSize
<1>a. /\ Cardinality(UpTo(SendsLeft')) <= Cardinality(UpTo(SendsLeft))
      /\ Cardinality(UpTo(TakesLeft')) <= Cardinality(UpTo(TakesLeft))
      /\ late' = late \/ Cardinality(UpTo(SendsLeft')) + 1 <= Cardinality(UpTo(SendsLeft))
      /\ \/ fair' = fair
         \/ /\ fair' = fair - 1
            /\ Cardinality(UpTo(TakesLeft')) + 1 <= Cardinality(UpTo(TakesLeft))
  BY CallsShrink
<1> HIDE DEF SendsLeft, TakesLeft
<1>3. \/ late' = late
      \/ /\ cooling > 0 /\ late < Requests(Cardinality(Threads)) /\ late' = late + 1
         /\ Cardinality(UpTo(SendsLeft')) + 1 <= Cardinality(UpTo(SendsLeft))
  BY <1>a DEF Sent
<1>4. late' \in 0..Requests(Cardinality(Threads)) /\ fair' \in Int /\ fair' <= fair
  BY <1>1, <1>3, <1>a, RequestsAre
<1>5. Bounded'
  <2>1. AtOnce' = AtOnce
    BY DEF AtOnce
  <2> QED BY <1>1, <1>4, <2>1 DEF PInv, Bounded
<1>6. DebtBounded'
  <2>1. fair - Cardinality(UpTo(TakesLeft)) >= -Debt - Requests(Cardinality(Threads))
    BY DEF PInv, DebtBounded
  <2>2. fair' - Cardinality(UpTo(TakesLeft')) >= fair - Cardinality(UpTo(TakesLeft))
    BY <1>1, <1>2, <1>a
  <2>3. Debt \in Int /\ Requests(Cardinality(Threads)) \in Int
    BY LimiterBounds, RequestsAre
  <2> QED BY <1>1, <1>2, <1>4, <2>1, <2>2, <2>3 DEF DebtBounded
<1>7. PauseHolds'
  <2>1. cooling' = 0 => late' = 0
    BY <1>1, <1>3, LimiterBounds DEF PInv, PauseHolds
  <2>2. ASSUME Holding
        PROVE  /\ pause' = cooling'
               /\ \A u \in Threads : call'[u].at # "reset"
               /\ late' + Cardinality(UpTo(SendsLeft')) <= Requests(Cardinality(Threads) - 1)
    <3>1. /\ pause = cooling /\ \A u \in Threads : call[u].at # "reset"
          /\ late + Cardinality(UpTo(SendsLeft)) <= Requests(Cardinality(Threads) - 1)
      BY <2>2 DEF PInv, PauseHolds
    <3>2. late' + Cardinality(UpTo(SendsLeft')) <= late + Cardinality(UpTo(SendsLeft))
      BY <1>1, <1>2, <1>3, <1>a, RequestsAre
    <3>3. \A u \in Threads : call'[u].at # "reset"
      BY <2>2, <3>1 DEF RInv, Typed
    <3> QED BY <1>1, <1>2, <1>4, <3>1, <3>2, <3>3, RequestsAre
  <2>3. Holding' = Holding
    BY DEF Holding
  <2> QED BY <2>1, <2>2, <2>3 DEF PauseHolds
<1> QED BY <1>5, <1>6, <1>7 DEF PInv

LEMMA InitiallyPaid == Init => PInv
<1> SUFFICES ASSUME Init PROVE PInv
  OBVIOUS
<1>1. Bounded
  <2>1. Unset \in Unset..Cooldown /\ 0 \in 0..Cooldown /\ Burst \in Nat
    BY LimiterBounds DEF Unset
  <2>2. 0 \in 0..Requests(Cardinality(Threads))
    BY RequestsAre
  <2>3. fair <= AtOnce /\ tokens + since <= Burst
    BY <2>1 DEF Init, AtOnce
  <2>4. pause \in Unset..Cooldown /\ cooling \in 0..Cooldown /\ ~(cooling > 0)
    BY <2>1 DEF Init, Unset
  <2>5. late \in 0..Requests(Cardinality(Threads))
    BY <2>2 DEF Init
  <2> QED BY <2>3, <2>4, <2>5, Zenon DEF Init, Bounded
<1>2. DebtBounded
  <2>1. /\ Cardinality(UpTo(TakesLeft)) \in Nat
        /\ Cardinality(UpTo(TakesLeft)) <= Requests(Cardinality(Threads))
    BY UpToSize
  <2> QED BY <2>1, RequestsAre, LimiterBounds DEF Init, DebtBounded
<1>3. PauseHolds
  BY DEF Init, PauseHolds, Holding
<1> QED BY <1>1, <1>2, <1>3 DEF PInv

\* A call begins: what it may take was not yet counted, and while a cooldown holds it
\* has to look at the pause before it may send.
LEMMA AskPays == ASSUME RInv, PInv, NEW t \in Threads, Ask(t) PROVE PInv'
<1> DEFINE place == CASE source = "yfinance" -> "lock"
                      [] source = "fmp" /\ pause # Unset -> "compare"
                      [] OTHER -> "look"
           c == [Idle EXCEPT !.at = place]
<1>1. /\ call[t].at = "idle" /\ fair >= -Debt /\ fair \in Int
      /\ UNCHANGED <<source, tokens, since, lock, fair, pause, cooling, crossed, late>>
      /\ call' = [call EXCEPT ![t] = c]
  BY DEF RInv, Typed, Ask, bucket, quota, Becomes
<1>2. Holding => place = "compare"
  <2>1. Holding => source = "fmp" /\ pause = cooling /\ cooling > 0 /\ cooling \in Int
    BY LimiterBounds DEF PInv, Bounded, PauseHolds, Holding
  <2> QED BY <2>1 DEF Unset
<1>3. place \in {"lock", "compare", "look"}
  OBVIOUS
<1> HIDE DEF place
<1>4. c \in Calls /\ c.at = place
  BY <1>3, LimiterBounds DEF Idle, Calls, Places
<1> HIDE DEF c
<1>5. Bounded'
  BY <1>1 DEF PInv, Bounded, AtOnce
<1>6. DebtBounded'
  <2>1. /\ Cardinality(UpTo(TakesLeft')) \in Nat
        /\ Cardinality(UpTo(TakesLeft')) <= Requests(Cardinality(Threads))
    BY UpToSize
  <2> QED BY <1>1, <2>1, RequestsAre, LimiterBounds DEF DebtBounded
<1>7. PauseHolds'
  <2>1. ASSUME Holding
        PROVE  /\ \A u \in Threads : call'[u].at # "reset"
               /\ late + Cardinality(UpTo(SendsLeft')) <= Requests(Cardinality(Threads) - 1)
    <3>1. /\ \A u \in Threads : call[u].at # "reset"
          /\ late + Cardinality(UpTo(SendsLeft)) <= Requests(Cardinality(Threads) - 1)
      BY <2>1 DEF PInv, PauseHolds
    <3>2. SendsOf(c) = 0 /\ SendsOf(call[t]) = 0
      BY <1>1, <1>2, <1>4, <2>1 DEF SendsOf
    <3>3. SendsOf(c) <= SendsOf(call[t])
      BY <3>2
    <3>4. Cardinality(UpTo(SendsLeft')) <= Cardinality(UpTo(SendsLeft))
      BY <1>1, <1>4, <3>3, CallsShrink
    <3>5. Cardinality(UpTo(SendsLeft')) \in Nat /\ Cardinality(UpTo(SendsLeft)) \in Nat
      BY UpToSize
    <3>6. \A u \in Threads : call'[u].at # "reset"
      BY <1>1, <1>3, <1>4, <3>1 DEF RInv, Typed
    <3>7. late \in Int
      BY RequestsAre DEF PInv, Bounded
    <3> HIDE DEF SendsLeft
    <3> QED BY <3>1, <3>4, <3>5, <3>6, <3>7, RequestsAre
  <2>2. Holding' = Holding
    BY <1>1 DEF Holding
  <2> QED BY <1>1, <2>1, <2>2 DEF PInv, PauseHolds
<1> QED BY <1>5, <1>6, <1>7 DEF PInv

\* The pause that a thread finds over is not one that holds.
LEMMA ComparePays == ASSUME RInv, PInv, NEW t \in Threads, Compare(t) PROVE PInv'
<1>1. /\ call[t] \in Calls /\ call[t].at = "compare"
      /\ UNCHANGED <<source, tokens, since, lock, fair, pause, cooling, crossed, late>>
      /\ tokens + since <= Burst /\ lock \in Threads \union {None}
  BY DEF RInv, Typed, PInv, Bounded, Compare, bucket, quota
<1>2. /\ call[t].attempt \in 0..MaxRetries
      /\ SendsOf(call[t]) = 0 /\ TakesOf(call[t]) = MaxRetries + 1 - call[t].attempt
  BY <1>1 DEF Calls, SendsOf, TakesOf
<1>3. ASSUME NEW answer \in {"empty", "failed"}, Answers(t, answer) PROVE PInv'
  <2> DEFINE c == [Idle EXCEPT !.answer = answer]
  <2>1. c \in Calls /\ c.at = "idle"
    BY LimiterBounds DEF Idle, Calls, Places
  <2>2. call' = [call EXCEPT ![t] = c]
    BY <1>3 DEF Answers, Becomes
  <2> HIDE DEF c
  <2>3. SendsOf(c) = 0 /\ TakesOf(c) = 0
    BY <2>1 DEF SendsOf, TakesOf
  <2>4. SendsOf(c) <= SendsOf(call[t]) /\ TakesOf(c) <= TakesOf(call[t])
    BY <1>2, <2>3, LimiterBounds
  <2> QED BY <1>1, <2>1, <2>2, <2>4, CallPays
<1>4. CASE pause # Unset /\ ~Running /\ MovesTo(t, "reset")
  <2> DEFINE c == [call[t] EXCEPT !.at = "reset"]
  <2>1. c \in Calls /\ c.at = "reset" /\ c.attempt = call[t].attempt
    BY <1>1 DEF Calls, Places
  <2>2. call' = [call EXCEPT ![t] = c]
    BY <1>4 DEF MovesTo, Becomes
  <2> HIDE DEF c
  <2>3. SendsOf(c) = 0 /\ TakesOf(c) = MaxRetries + 1 - call[t].attempt
    BY <2>1 DEF SendsOf, TakesOf
  <2>4. SendsOf(c) <= SendsOf(call[t]) /\ TakesOf(c) <= TakesOf(call[t])
    BY <1>2, <2>3, LimiterBounds
  <2>5. ~Holding
    BY <1>4, LimiterBounds DEF PInv, PauseHolds, Holding, Running
  <2> QED BY <1>1, <2>1, <2>2, <2>4, <2>5, CallPays
<1> QED BY <1>3, <1>4 DEF Compare

\* What is lifted is no pause that holds, or nobody would have come to lift it.
LEMMA ResetPays == ASSUME RInv, PInv, NEW t \in Threads, Reset(t) PROVE PInv'
<1>1. /\ call[t] \in Calls /\ call[t].at = "reset" /\ pause' = Unset
      /\ UNCHANGED <<source, tokens, since, lock, fair, cooling, crossed, late>>
      /\ fair \in Int
  BY DEF RInv, Typed, Reset, bucket
<1>2. /\ call[t].attempt \in 0..MaxRetries
      /\ TakesOf(call[t]) = MaxRetries + 1 - call[t].attempt
  BY <1>1 DEF Calls, TakesOf
<1>3. ~Holding /\ Holding' = Holding
  BY <1>1 DEF PInv, PauseHolds, Holding
<1>4. Bounded'
  <2>1. Unset \in Unset..Cooldown
    BY LimiterBounds DEF Unset
  <2> QED BY <1>1, <2>1 DEF PInv, Bounded, AtOnce
<1>5. PauseHolds'
  BY <1>1, <1>3 DEF PInv, PauseHolds
<1>6. \E c \in Calls : call' = [call EXCEPT ![t] = c] /\ TakesOf(c) <= TakesOf(call[t])
  <2> DEFINE c == [call[t] EXCEPT !.at = "look"]
  <2>1. /\ c \in Calls /\ c.at = "look" /\ c.attempt = call[t].attempt
        /\ Idle \in Calls /\ Idle.at = "idle"
    BY <1>1, LimiterBounds DEF Idle, Calls, Places, Inside
  <2>2. call' = [call EXCEPT ![t] = c] \/ call' = [call EXCEPT ![t] = Idle]
    BY DEF Reset, MovesTo, Becomes
  <2> HIDE DEF c
  <2>3. TakesOf(c) = MaxRetries + 1 - call[t].attempt /\ TakesOf(Idle) = 0
    BY <2>1 DEF TakesOf
  <2>4. TakesOf(c) <= TakesOf(call[t]) /\ TakesOf(Idle) <= TakesOf(call[t])
    BY <1>2, <2>3, LimiterBounds
  <2> QED BY <2>1, <2>2, <2>4
<1>7. DebtBounded'
  <2>1. Cardinality(UpTo(TakesLeft')) <= Cardinality(UpTo(TakesLeft))
    BY <1>6, CallsShrink
  <2>2. Cardinality(UpTo(TakesLeft')) \in Nat /\ Cardinality(UpTo(TakesLeft)) \in Nat
    BY UpToSize
  <2> HIDE DEF TakesLeft
  <2>3. fair - Cardinality(UpTo(TakesLeft)) >= -Debt - Requests(Cardinality(Threads))
    BY DEF PInv, DebtBounded
  <2> QED BY <1>1, <2>1, <2>2, <2>3, RequestsAre, LimiterBounds DEF DebtBounded
<1> QED BY <1>4, <1>5, <1>7 DEF PInv

\* In the bucket, on the way to it and after a refusal, a call has its attempt
\* before it.
LEMMA BucketPays ==
    ASSUME RInv, PInv, NEW t \in Threads,
           \/ Look(t) \/ Sum(t) \/ Store(t) \/ Test(t) \/ Take(t) \/ Put(t) \/ Wait(t)
           \/ Wake(t) \/ Again(t)
    PROVE  PInv'
<1>1. /\ call \in [Threads -> Calls] /\ call[t] \in Calls
      /\ call[t].at \notin {"idle", "compare", "reset", "send"}
      /\ tokens \in Int /\ since \in Nat /\ fair \in Int /\ Burst \in Nat
      /\ tokens + since <= Burst /\ lock \in Threads \union {None}
  BY LimiterBounds DEF RInv, Typed, PInv, Bounded, Look, Sum, Store, Test, Take, Put, Wait,
     Wake, Again
<1>2. /\ call[t].attempt \in 0..MaxRetries
      /\ SendsOf(call[t]) = MaxRetries + 1 - call[t].attempt
      /\ TakesOf(call[t]) = MaxRetries + 1 - call[t].attempt
  BY <1>1 DEF Calls, SendsOf, TakesOf
<1>3. UNCHANGED <<source, lock, pause, cooling, crossed, late>>
  BY DEF Look, Sum, Store, Test, Take, Put, Wait, Wake, Again, bucket, quota
<1>4. tokens' + since' <= Burst
  <2>1. CASE Store(t)
    <3>1. tokens' = call[t].read /\ since' = 0 /\ call[t].at = "store"
      BY <2>1 DEF Store
    <3>2. call[t].read \in Int /\ call[t].read <= Burst
      BY <1>1, <3>1 DEF RInv, Typed, Calls
    <3> QED BY <1>1, <3>1, <3>2
  <2>2. CASE Put(t)
    <3>1. tokens' = call[t].read - 1 /\ since' = since /\ call[t].at = "put"
      BY <2>2 DEF Put
    <3>2. call[t].read \in Int /\ call[t].read <= Burst /\ since = 0
      BY <1>1, <3>1 DEF RInv, Typed, Calls
    <3> QED BY <1>1, <3>1, <3>2
  <2>3. CASE UNCHANGED <<tokens, since>>
    BY <1>1, <2>3
  <2> QED BY <2>1, <2>2, <2>3
      DEF Look, Sum, Store, Test, Take, Put, Wait, Wake, Again, bucket
<1>5. call' \in [Threads -> Calls]
  <2>1. Next
    BY DEF Next, Step
  <2> QED BY <2>1, StepRight DEF RInv, Typed
<1> DEFINE Outside == {"idle", "compare", "reset", "send"}
<1>6. ASSUME NEW c, Becomes(t, c), c.at \notin Outside, c.attempt = call[t].attempt,
             fair' = fair
      PROVE  PInv'
  <2>1. call' = [call EXCEPT ![t] = c] /\ c \in Calls
    BY <1>1, <1>5, <1>6 DEF Becomes
  <2>2. SendsOf(c) = SendsOf(call[t]) /\ TakesOf(c) = TakesOf(call[t])
    BY <1>1, <1>6 DEF SendsOf, TakesOf
  <2>3. SendsOf(c) <= SendsOf(call[t]) /\ TakesOf(c) <= TakesOf(call[t])
    BY <1>2, <2>2, LimiterBounds
  <2> QED BY <1>1, <1>3, <1>4, <1>6, <2>1, <2>3, CallPays
<1>7. ASSUME NEW c \in Calls, Becomes(t, c), c.at = "send", c.attempt = call[t].attempt,
             fair' = fair - 1
      PROVE  PInv'
  <2>1. call' = [call EXCEPT ![t] = c]
    BY <1>7 DEF Becomes
  <2>2. /\ SendsOf(c) = MaxRetries + 1 - call[t].attempt
        /\ TakesOf(c) = MaxRetries - call[t].attempt
    BY <1>7 DEF SendsOf, TakesOf
  <2>3. /\ SendsOf(c) <= SendsOf(call[t]) /\ TakesOf(c) <= TakesOf(call[t])
        /\ TakesOf(c) < TakesOf(call[t])
    BY <1>2, <2>2, LimiterBounds
  <2> QED BY <1>1, <1>3, <1>4, <1>7, <2>1, <2>3, CallPays
<1>8. CASE Look(t)
  <2> DEFINE c == [call[t] EXCEPT !.at = "sum", !.read = since]
  <2>1. c.at \notin Outside /\ c.attempt = call[t].attempt
    BY <1>1 DEF Calls
  <2>2. Becomes(t, c) /\ fair' = fair
    BY <1>8 DEF Look
  <2> QED BY <1>6, <2>1, <2>2
<1>9. CASE Sum(t)
  <2> DEFINE c == [call[t] EXCEPT !.at = "store", !.read = Capped(tokens + @)]
  <2>1. c.at \notin Outside /\ c.attempt = call[t].attempt
    BY <1>1 DEF Calls
  <2>2. Becomes(t, c) /\ fair' = fair
    BY <1>9 DEF Sum
  <2> QED BY <1>6, <2>1, <2>2
<1>10. CASE Store(t)
  <2> DEFINE c == [call[t] EXCEPT !.at = "test", !.read = 0]
  <2>1. c.at \notin Outside /\ c.attempt = call[t].attempt
    BY <1>1 DEF Calls
  <2>2. Becomes(t, c) /\ fair' = fair
    BY <1>10 DEF Store
  <2> QED BY <1>6, <2>1, <2>2
<1>11. CASE Test(t)
  <2> DEFINE c == [call[t] EXCEPT !.at = IF Enough(tokens) THEN "take" ELSE "wait"]
  <2>1. c.at \notin Outside /\ c.attempt = call[t].attempt
    BY <1>1 DEF Calls
  <2>2. Becomes(t, c) /\ fair' = fair
    BY <1>11 DEF Test, MovesTo
  <2> QED BY <1>6, <2>1, <2>2
<1>a. CASE Take(t)
  <2> DEFINE c == [call[t] EXCEPT !.at = "put", !.read = tokens]
  <2>1. c.at \notin Outside /\ c.attempt = call[t].attempt
    BY <1>1 DEF Calls
  <2>2. Becomes(t, c) /\ fair' = fair
    BY <1>a DEF Take
  <2> QED BY <1>6, <2>1, <2>2
<1>b. CASE Put(t)
  <2> DEFINE c == [call[t] EXCEPT !.at = "send", !.read = 0]
  <2>a. "send" \in Places /\ 0 \in Int
    BY DEF Places
  <2>1. c \in Calls /\ c.at = "send" /\ c.attempt = call[t].attempt
    BY <1>1, <2>a DEF Calls
  <2>2. Becomes(t, c) /\ fair' = fair - 1
    BY <1>b DEF Put
  <2> HIDE DEF c
  <2> QED BY <1>7, <2>1, <2>2
<1>c. CASE Wait(t) /\ tokens < 1
  <2> DEFINE c == [call[t] EXCEPT !.at = "sleep", !.left = 1 - tokens]
  <2>1. c.at \notin Outside /\ c.attempt = call[t].attempt
    BY <1>1 DEF Calls
  <2>2. Becomes(t, c) /\ fair' = fair
    BY <1>1, <1>c DEF Wait
  <2> QED BY <1>6, <2>1, <2>2
<1>d. CASE Wait(t) /\ tokens = 1
  <2> DEFINE c == [call[t] EXCEPT !.at = "send"]
  <2>a. "send" \in Places
    BY DEF Places
  <2>1. c \in Calls /\ c.at = "send" /\ c.attempt = call[t].attempt
    BY <1>1, <2>a DEF Calls
  <2>2. Becomes(t, c) /\ fair' = fair - 1
    BY <1>d DEF Wait, MovesTo
  <2> HIDE DEF c
  <2> QED BY <1>7, <2>1, <2>2
<1>e. CASE Wait(t) /\ tokens > 1
  <2> DEFINE c == [Idle EXCEPT !.answer = "failed"]
  <2>1. c \in Calls /\ c.at = "idle"
    BY LimiterBounds DEF Idle, Calls, Places
  <2>2. call' = [call EXCEPT ![t] = c] /\ fair' = fair
    BY <1>1, <1>e DEF Wait, Answers, Becomes
  <2> HIDE DEF c
  <2>3. SendsOf(c) = 0 /\ TakesOf(c) = 0
    BY <2>1 DEF SendsOf, TakesOf
  <2>4. SendsOf(c) <= SendsOf(call[t]) /\ TakesOf(c) <= TakesOf(call[t])
    BY <1>2, <2>3, LimiterBounds
  <2> QED BY <1>1, <1>3, <1>4, <2>1, <2>2, <2>4, CallPays
<1>12. CASE Wake(t) \/ Again(t)
  <2> DEFINE c == [call[t] EXCEPT !.at = "look"]
  <2>1. c.at \notin Outside /\ c.attempt = call[t].attempt
    BY <1>1 DEF Calls
  <2>2. Becomes(t, c) /\ fair' = fair
    BY <1>12 DEF Wake, Again, MovesTo
  <2> QED BY <1>6, <2>1, <2>2
<1>f. Wait(t) => tokens < 1 \/ tokens = 1 \/ tokens > 1
  BY <1>1
<1> QED BY <1>8, <1>9, <1>10, <1>11, <1>12, <1>a, <1>b, <1>c, <1>d, <1>e, <1>f

\* In yfinance's limiter a token is taken on the way to the request.
LEMMA YfPays ==
    ASSUME RInv, PInv, NEW t \in Threads, YfAcquire(t) \/ YfWake(t)
    PROVE  PInv'
<1>1. /\ call \in [Threads -> Calls] /\ call[t] \in Calls /\ call[t].at \in {"lock", "doze"}
      /\ tokens \in Int /\ since \in Nat /\ fair \in Int /\ Burst \in Nat /\ Burst >= 1
      /\ tokens + since <= Burst /\ lock \in Threads \union {None}
  BY LimiterBounds DEF RInv, Typed, PInv, Bounded, YfAcquire, YfWake
<1>2. /\ call[t].attempt \in 0..MaxRetries
      /\ SendsOf(call[t]) = MaxRetries + 1 - call[t].attempt
      /\ TakesOf(call[t]) = MaxRetries + 1 - call[t].attempt
  BY <1>1 DEF Calls, SendsOf, TakesOf
<1>3. UNCHANGED <<source, pause, cooling, crossed, late>>
  BY DEF YfAcquire, YfWake, quota
<1>4. tokens' + since' <= Burst /\ lock' \in Threads \union {None}
  <2>1. CASE YfAcquire(t)
    <3>1. Capped(tokens + since) \in Int /\ Capped(tokens + since) <= Burst
      BY <1>1, CappedFacts
    <3>2. tokens' = Capped(tokens + since) - 1 \/ tokens' = Capped(tokens + since)
      BY <2>1 DEF YfAcquire
    <3>3. since' = 0 /\ (lock' = t \/ lock' = lock)
      BY <2>1 DEF YfAcquire
    <3> QED BY <1>1, <3>1, <3>2, <3>3
  <2>2. CASE YfWake(t)
    <3>1. source = "yfinance" /\ call[t].at = "doze"
      BY <2>2 DEF RInv, Sides, YfWake
    <3>2. tokens = 0 /\ tokens' = 0 /\ since' = since /\ lock' = None
      BY <2>2, <3>1 DEF RInv, LimiterBehind, YfWake, Release
    <3> QED BY <1>1, <3>2
  <2> QED BY <2>1, <2>2
<1>5. CASE MovesTo(t, "send") /\ fair' = fair - 1
  <2> DEFINE c == [call[t] EXCEPT !.at = "send"]
  <2>1. c \in Calls /\ c.at = "send" /\ c.attempt = call[t].attempt
    BY <1>1 DEF Calls, Places
  <2>2. call' = [call EXCEPT ![t] = c] /\ fair' = fair - 1
    BY <1>5 DEF MovesTo, Becomes
  <2> HIDE DEF c
  <2>3. /\ SendsOf(c) = MaxRetries + 1 - call[t].attempt
        /\ TakesOf(c) = MaxRetries - call[t].attempt
    BY <2>1 DEF SendsOf, TakesOf
  <2>4. /\ SendsOf(c) <= SendsOf(call[t]) /\ TakesOf(c) <= TakesOf(call[t])
        /\ TakesOf(c) < TakesOf(call[t])
    BY <1>2, <2>3, LimiterBounds
  <2> QED BY <1>1, <1>3, <1>4, <2>1, <2>2, <2>4, CallPays
<1>6. CASE fair' = fair /\ \E left \in Nat : Becomes(t, [call[t] EXCEPT !.at = "doze", !.left = left])
  <2> PICK left \in Nat : Becomes(t, [call[t] EXCEPT !.at = "doze", !.left = left])
    BY <1>6
  <2> DEFINE c == [call[t] EXCEPT !.at = "doze", !.left = left]
  <2>a. "doze" \in Places
    BY DEF Places
  <2>1. c \in Calls /\ c.at = "doze" /\ c.attempt = call[t].attempt
    BY <1>1, <2>a DEF Calls
  <2>2. call' = [call EXCEPT ![t] = c]
    BY DEF Becomes
  <2> HIDE DEF c
  <2>3. SendsOf(c) = SendsOf(call[t]) /\ TakesOf(c) = TakesOf(call[t])
    BY <1>2, <2>1 DEF SendsOf, TakesOf
  <2>4. SendsOf(c) <= SendsOf(call[t]) /\ TakesOf(c) <= TakesOf(call[t])
    BY <1>2, <2>3, LimiterBounds
  <2> QED BY <1>1, <1>3, <1>4, <1>6, <2>1, <2>2, <2>4, CallPays
<1>7. YfAcquire(t) => \/ MovesTo(t, "send") /\ fair' = fair - 1
                      \/ /\ fair' = fair
                         /\ \E left \in Nat :
                               Becomes(t, [call[t] EXCEPT !.at = "doze", !.left = left])
  <2> SUFFICES ASSUME YfAcquire(t), fair' = fair, Capped(tokens + since) < 1,
                      Becomes(t, [call[t] EXCEPT !.at = "doze", !.left = 1 - Capped(tokens + since)])
               PROVE  \E left \in Nat : Becomes(t, [call[t] EXCEPT !.at = "doze", !.left = left])
    BY DEF YfAcquire
  <2>1. 1 - Capped(tokens + since) \in Nat
    BY <1>1, CappedFacts
  <2> QED BY <2>1
<1> QED BY <1>5, <1>6, <1>7 DEF YfWake

\* A request is sent, and tried again or not.
LEMMA SendPays ==
    ASSUME RInv, PInv, NEW t \in Threads,
           Succeeds(t) \/ Fails(t) \/ Retries(t) \/ (Limited(t) /\ UNCHANGED quota)
    PROVE  PInv'
<1>1. /\ call \in [Threads -> Calls] /\ call[t] \in Calls /\ call[t].at = "send"
      /\ tokens + since <= Burst /\ lock \in Threads \union {None}
  BY DEF RInv, Typed, PInv, Bounded, Succeeds, Fails, Retries, Limited
<1>2. /\ call[t].attempt \in 0..MaxRetries
      /\ SendsOf(call[t]) = MaxRetries + 1 - call[t].attempt
      /\ TakesOf(call[t]) = MaxRetries - call[t].attempt
  BY <1>1 DEF Calls, SendsOf, TakesOf
<1>3. Sent /\ UNCHANGED <<source, tokens, since, lock, fair, pause, cooling, crossed>>
  BY DEF Succeeds, Fails, Retries, Limited, bucket, quota
<1>4. tokens' + since' <= Burst /\ lock' \in Threads \union {None}
  BY <1>1, <1>3
<1>5. CASE \E answer \in {"data", "empty", "failed"} : Answers(t, answer)
  <2> PICK answer \in {"data", "empty", "failed"} : Answers(t, answer)
    BY <1>5
  <2> DEFINE c == [Idle EXCEPT !.answer = answer]
  <2>1. c \in Calls /\ c.at = "idle"
    BY LimiterBounds DEF Idle, Calls, Places
  <2>2. call' = [call EXCEPT ![t] = c]
    BY DEF Answers, Becomes
  <2> HIDE DEF c
  <2>3. SendsOf(c) = 0 /\ TakesOf(c) = 0
    BY <2>1 DEF SendsOf, TakesOf
  <2>4. SendsOf(c) < SendsOf(call[t]) /\ SendsOf(c) <= SendsOf(call[t])
        /\ TakesOf(c) <= TakesOf(call[t])
    BY <1>2, <2>3, LimiterBounds
  <2> QED BY <1>3, <1>4, <2>1, <2>2, <2>4, CallPays
<1>6. CASE Retries(t)
  <2> DEFINE c == [call[t] EXCEPT !.at = "backoff", !.attempt = @ + 1]
  <2>a. "backoff" \in Places /\ call[t].attempt + 1 \in 0..MaxRetries
    BY <1>2, <1>6, LimiterBounds DEF Places, Retries
  <2>1. c \in Calls /\ c.at = "backoff" /\ c.attempt = call[t].attempt + 1
    BY <1>1, <2>a DEF Calls
  <2>2. call' = [call EXCEPT ![t] = c]
    BY <1>6 DEF Retries, Becomes
  <2> HIDE DEF c
  <2>3. /\ SendsOf(c) = MaxRetries + 1 - (call[t].attempt + 1)
        /\ TakesOf(c) = MaxRetries + 1 - (call[t].attempt + 1)
    BY <2>1 DEF SendsOf, TakesOf
  <2>4. SendsOf(c) < SendsOf(call[t]) /\ SendsOf(c) <= SendsOf(call[t])
        /\ TakesOf(c) <= TakesOf(call[t])
    BY <1>2, <2>3, LimiterBounds
  <2> QED BY <1>3, <1>4, <2>1, <2>2, <2>4, CallPays
<1> QED BY <1>5, <1>6 DEF Succeeds, Fails, Limited

\* The pause begins, or begins again, with a thread whose call is over.
LEMMA PauseBegins ==
    ASSUME RInv, PInv, NEW t \in Threads, Limited(t), source = "fmp"
    PROVE  PInv'
<1>1. /\ call \in [Threads -> Calls] /\ call[t] \in Calls /\ call[t].at = "send"
      /\ call[t].attempt = MaxRetries
      /\ Sent /\ pause' = Cooldown /\ cooling' = Cooldown /\ Answers(t, "empty")
      /\ crossed' = (crossed \/ \E u \in Threads : call[u].at = "reset")
      /\ UNCHANGED <<source, tokens, since, lock, fair>>
  BY DEF RInv, Typed, Limited, bucket
<1>2. /\ cooling \in 0..Cooldown /\ Cooldown \in Nat /\ Cooldown >= 1 /\ fair \in Int
      /\ late \in 0..Requests(Cardinality(Threads))
      /\ late' \in 0..Requests(Cardinality(Threads))
      /\ late' = IF cooling > 0 /\ late < Requests(Cardinality(Threads)) THEN late + 1 ELSE late
  BY <1>1, LimiterBounds, RequestsAre DEF RInv, Typed, PInv, Bounded, Sent
<1> DEFINE c == [Idle EXCEPT !.answer = "empty"]
<1>3. c \in Calls /\ c.at = "idle"
  BY LimiterBounds DEF Idle, Calls, Places
<1>4. call' = [call EXCEPT ![t] = c]
  BY <1>1 DEF Answers, Becomes
<1> HIDE DEF c
<1>5. SendsOf(c) = 0 /\ TakesOf(c) = 0 /\ SendsOf(call[t]) = 1 /\ TakesOf(call[t]) = 0
  BY <1>1, <1>3, LimiterBounds DEF SendsOf, TakesOf
<1>6. SendsOf(c) <= SendsOf(call[t]) /\ TakesOf(c) <= TakesOf(call[t]) /\ SendsOf(c) < SendsOf(call[t])
  BY <1>5
<1>7. /\ Cardinality(UpTo(SendsLeft')) + 1 <= Cardinality(UpTo(SendsLeft))
      /\ Cardinality(UpTo(TakesLeft')) <= Cardinality(UpTo(TakesLeft))
  BY <1>3, <1>4, <1>6, CallsShrink
<1>8. SendsLeft'[t] = 0
  BY <1>1, <1>3, <1>4 DEF SendsLeft, SendsOf
<1> HIDE DEF SendsLeft, TakesLeft
<1>9. /\ Cardinality(UpTo(SendsLeft')) \in Nat /\ Cardinality(UpTo(SendsLeft)) \in Nat
      /\ Cardinality(UpTo(TakesLeft')) \in Nat /\ Cardinality(UpTo(TakesLeft)) \in Nat
      /\ Cardinality(UpTo(SendsLeft')) <= Requests(Cardinality(Threads) - 1)
  BY <1>8, UpToSize
<1>10. Bounded'
  <2>1. Cooldown \in Unset..Cooldown /\ Cooldown \in 0..Cooldown /\ crossed' \in BOOLEAN
    BY <1>1, <1>2 DEF Unset
  <2> QED BY <1>1, <1>2, <2>1 DEF PInv, Bounded, AtOnce
<1>11. DebtBounded'
  <2>1. fair - Cardinality(UpTo(TakesLeft)) >= -Debt - Requests(Cardinality(Threads))
    BY DEF PInv, DebtBounded
  <2> QED BY <1>1, <1>2, <1>7, <1>9, <2>1, RequestsAre, LimiterBounds DEF DebtBounded
<1>12. PauseHolds'
  <2> SUFFICES ASSUME ~crossed'
               PROVE  /\ \A u \in Threads : call'[u].at # "reset"
                      /\ late' + Cardinality(UpTo(SendsLeft')) <= Requests(Cardinality(Threads) - 1)
    BY <1>1, <1>2 DEF PauseHolds, Holding
  <2>1. ~crossed /\ \A u \in Threads : call[u].at # "reset"
    BY <1>1
  <2>2. \A u \in Threads : call'[u].at # "reset"
    BY <1>1, <1>3, <1>4, <2>1
  <2>3. CASE cooling = 0
    <3>1. late' = 0
      BY <1>2, <2>3 DEF PInv, PauseHolds
    <3> QED BY <1>9, <2>2, <3>1, RequestsAre
  <2>4. CASE cooling > 0
    <3>1. late + Cardinality(UpTo(SendsLeft)) <= Requests(Cardinality(Threads) - 1)
      BY <2>1, <2>4 DEF PInv, PauseHolds, Holding
    <3> QED BY <1>2, <1>7, <1>9, <2>2, <3>1, RequestsAre
  <2> QED BY <1>2, <2>3, <2>4
<1> QED BY <1>10, <1>11, <1>12 DEF PInv

LEMMA TickPays == ASSUME RInv, PInv, Tick PROVE PInv'
<1>1. /\ call \in [Threads -> Calls] /\ tokens \in Int /\ since \in Nat /\ fair \in Int
      /\ fair <= AtOnce /\ tokens + since <= Burst /\ late \in 0..Requests(Cardinality(Threads))
      /\ pause \in Unset..Cooldown /\ cooling \in 0..Cooldown
      /\ Cooldown \in Nat /\ Burst \in Nat /\ lock \in Threads \union {None}
  BY LimiterBounds DEF RInv, Typed, PInv, Bounded
<1>2. /\ source' = source /\ tokens' = tokens /\ lock' = lock
      /\ since' = IF tokens + since >= Burst THEN since ELSE since + 1
      /\ fair' = IF fair + Rate > AtOnce THEN AtOnce ELSE fair + Rate
      /\ pause' = IF pause > 0 THEN pause - 1 ELSE pause
      /\ cooling' = IF cooling > 0 THEN cooling - 1 ELSE 0
      /\ crossed' = (crossed /\ cooling' > 0)
      /\ late' = IF cooling' = 0 THEN 0 ELSE late
  BY DEF Tick
<1>3. Rate \in {1, 2} /\ AtOnce \in Int /\ AtOnce' = AtOnce
  BY <1>1, <1>2 DEF Rate, AtOnce
<1>4. tokens' + since' <= Burst /\ fair' \in Int /\ fair' <= AtOnce /\ fair' >= fair
  BY <1>1, <1>2, <1>3
<1>5. /\ pause' \in Unset..Cooldown /\ cooling' \in 0..Cooldown
      /\ late' \in 0..Requests(Cardinality(Threads))
      /\ cooling' > 0 => cooling > 0
  BY <1>1, <1>2, RequestsAre DEF Unset
<1>6. \A t \in Threads : call'[t].at = call[t].at /\ call'[t].attempt = call[t].attempt
  <2>1. ASSUME NEW t \in Threads
        PROVE  LET c == [call[t] EXCEPT !.left = IF @ = 0 THEN 0 ELSE @ - 1]
               IN  c.at = call[t].at /\ c.attempt = call[t].attempt
    <3>1. call[t] \in Calls
      BY <1>1
    <3> QED BY <3>1 DEF Calls
  <2> QED BY <2>1 DEF Tick
<1>7. SendsLeft' = SendsLeft /\ TakesLeft' = TakesLeft
  BY <1>6 DEF SendsLeft, TakesLeft, SendsOf, TakesOf
<1> HIDE DEF SendsLeft, TakesLeft
<1>8. Cardinality(UpTo(SendsLeft)) \in Nat /\ Cardinality(UpTo(TakesLeft)) \in Nat
  BY UpToSize
<1>9. Bounded'
  <2>1. crossed' \in BOOLEAN /\ (cooling' > 0 => source' = "fmp")
    BY <1>2, <1>5 DEF PInv, Bounded
  <2> QED BY <1>1, <1>2, <1>3, <1>4, <1>5, <2>1 DEF PInv, Bounded
<1>10. DebtBounded'
  <2>1. fair - Cardinality(UpTo(TakesLeft)) >= -Debt - Requests(Cardinality(Threads))
    BY DEF PInv, DebtBounded
  <2>2. UpTo(TakesLeft') = UpTo(TakesLeft)
    BY <1>7
  <2> QED BY <1>1, <1>4, <1>8, <2>1, <2>2, RequestsAre, LimiterBounds DEF DebtBounded
<1>11. PauseHolds'
  <2>1. Holding' => Holding /\ late' = late
    <3>1. Holding' => cooling' > 0 /\ ~crossed
      BY <1>2, Zenon DEF Holding
    <3>2. cooling' > 0 => cooling > 0 /\ late' = late
      BY <1>2, <1>5, LimiterBounds
    <3> QED BY <3>1, <3>2 DEF Holding
  <2>2. Holding' => pause' = cooling'
    BY <1>1, <1>2, <2>1 DEF PInv, PauseHolds, Holding
  <2>3. cooling' = 0 => late' = 0
    BY <1>2
  <2>4. UpTo(SendsLeft') = UpTo(SendsLeft)
    BY <1>7
  <2>5. Holding' => \A t \in Threads : call'[t].at # "reset"
    BY <1>6, <2>1 DEF PInv, PauseHolds
  <2> QED BY <2>1, <2>2, <2>3, <2>4, <2>5 DEF PInv, PauseHolds
<1> QED BY <1>9, <1>10, <1>11 DEF PInv

LEMMA StepPays == RInv /\ PInv /\ [Next]_vars => PInv'
<1> SUFFICES ASSUME RInv, PInv, [Next]_vars PROVE PInv'
  OBVIOUS
<1>1. ASSUME NEW t \in Threads, Step(t) PROVE PInv'
  <2>1. CASE Limited(t)
    <3>1. source = "fmp" \/ UNCHANGED quota
      BY <2>1 DEF Limited
    <3> QED BY <2>1, <3>1, PauseBegins, SendPays
  <2> QED BY <1>1, <2>1, ComparePays, ResetPays, BucketPays, YfPays, SendPays DEF Step
<1>2. CASE UNCHANGED vars
  <2>1. UNCHANGED <<source, tokens, since, lock, fair, met, pause, cooling, crossed, late, call>>
    BY <1>2 DEF vars
  <2>2. SendsLeft' = SendsLeft /\ TakesLeft' = TakesLeft
    BY <2>1 DEF SendsLeft, TakesLeft, SendsOf, TakesOf
  <2>3. UpTo(SendsLeft') = UpTo(SendsLeft) /\ UpTo(TakesLeft') = UpTo(TakesLeft)
    BY <2>2 DEF UpTo
  <2> QED BY <2>1, <2>3 DEF PInv, Bounded, DebtBounded, PauseHolds, Holding, AtOnce
<1> QED BY <1>1, <1>2, AskPays, TickPays DEF Next

LEMMA AlwaysPaid == Spec => [](RInv /\ PInv)
BY InitiallyRight, StepRight, InitiallyPaid, StepPays, PTL DEF Spec

\* The values the limiters keep: a bucket never holds more than it may, the
\* debt is bounded by the calls, and the pause and its requests by theirs.
THEOREM LimiterTypes == Spec => []TypeOK
<1>1. RInv /\ PInv => TypeOK
  <2> SUFFICES ASSUME RInv, PInv PROVE TypeOK
    OBVIOUS
  <2>1. /\ Cardinality(UpTo(TakesLeft)) \in Nat /\ Cardinality(UpTo(SendsLeft)) \in Nat
    BY UpToSize
  <2> HIDE DEF TakesLeft, SendsLeft
  <2>2. /\ tokens \in Int /\ since \in Nat /\ fair \in Int /\ met \in BOOLEAN
        /\ call \in [Threads -> Calls]
    BY DEF RInv, Typed
  <2>3. /\ source \in Sources /\ tokens + since <= Burst /\ lock \in Threads \union {None}
        /\ fair <= AtOnce /\ pause \in Unset..Cooldown /\ cooling \in 0..Cooldown
        /\ crossed \in BOOLEAN /\ late \in 0..Requests(Cardinality(Threads))
    BY DEF PInv, Bounded
  <2>4. fair \in -Debt - Requests(Cardinality(Threads))..Burst + 1
    <3>1. fair <= Burst + 1
      BY <2>2, <2>3, LimiterBounds DEF AtOnce
    <3>2. fair - Cardinality(UpTo(TakesLeft)) >= -Debt - Requests(Cardinality(Threads))
      BY DEF PInv, DebtBounded
    <3> QED BY <2>1, <2>2, <3>1, <3>2, RequestsAre, LimiterBounds
  <2> QED BY <2>2, <2>3, <2>4, Zenon DEF TypeOK
<1> QED BY <1>1, AlwaysPaid, PTL

\* After the provider said its quota is used up, each other thread sends at most
\* one call's attempts until the cooldown is over, however many threads there are;
\* unless the pause was set while another thread was about to lift an old one, which
\* _is_quota_exhausted does without a lock.
THEOREM PauseIsKept == Spec => []PauseBoundsRequests
<1>1. RInv /\ PInv => PauseBoundsRequests
  <2> SUFFICES ASSUME PInv, ~crossed PROVE late <= Requests(Cardinality(Threads) - 1)
    BY DEF PauseBoundsRequests
  <2>1. Cardinality(UpTo(SendsLeft)) \in Nat
    BY UpToSize
  <2> HIDE DEF SendsLeft
  <2>2. cooling \in 0..Cooldown /\ late \in Int
    BY RequestsAre DEF PInv, Bounded
  <2>3. late = 0 \/ late + Cardinality(UpTo(SendsLeft)) <= Requests(Cardinality(Threads) - 1)
    BY <2>2, LimiterBounds DEF PInv, PauseHolds, Holding
  <2> QED BY <2>1, <2>2, <2>3, RequestsAre
<1> QED BY <1>1, AlwaysPaid, PTL
=============================================================================
