-------------------------- MODULE DataCacheProofs --------------------------
(***************************************************************************)
(* Proofs about DataCache, for any processes, threads and bounds.          *)
(***************************************************************************)
EXTENDS DataCache, TLAPS

----------------------------------------------------------------------------
(* The inductive invariant.                                                *)

\* A set only follows sets of smaller numbers.
Ordered == \A w \in Versions : before[w] \subseteq 1..(w - 1)

\* A thread inside set holds the version it writes.
Writing == \A t \in Threads : pc[t] = "setMem" => reg[t] # 0

\* What the guarantee of ReadIsRegular depends on.
Sound == ~critical /\ faults = 0 /\ (\A p \in Procs : client[p])

(* Then Redis holds the newest version, for longer than any version has    *)
(* left, and Supabase nothing: a get that misses Redis began when          *)
(* everything written so far had expired.                                  *)
RedisNewest ==
    /\ redis # 0 => redis = sets
    /\ \A v \in 1..sets : left[v] <= redisLeft
    /\ db = 0
    /\ \A p \in Procs : upserts[p] = {}
    /\ \A t \in Threads :
          /\ pc[t] \in {"idle", "setMem", "getMem", "getRow"}
          /\ pc[t] \in {"getMem", "getRow"} => \A v \in stale[t] : v <= sets /\ left[v] <= 0

\* Redis drops what it holds, and does so within Grace of its expires_at.
RedisBounded ==
    /\ redis = 0 <=> redisLeft = 0
    /\ redis # 0 => redisLeft <= left[redis] + Grace

\* What has long expired stays so.
AskedExpired == \A t \in Threads : asked[t] \subseteq LongExpired

\* What a get is copying into the other tiers had not expired when it was read.
CopiesInTime ==
    \A t \in Threads :
        /\ Copying(t) => reg[t] # 0 /\ left[reg[t]] >= -busy[t]
        /\ pc[t] = "fillRedis" => ttl[t] > 0 /\ ttl[t] <= left[reg[t]] + busy[t] + Second

IInv ==
    /\ TypeOK
    /\ Ordered
    /\ Writing
    /\ (Sound => RedisNewest)
    /\ RedisBounded
    /\ AskedExpired
    /\ CopiesInTime
    /\ ReadIsRegular
    /\ ReadNotExpired

----------------------------------------------------------------------------
(* Once a command has failed, none of the guarantee is left.               *)
LEMMA SoundBefore ==
    ASSUME TypeOK, UNCHANGED <<critical, client>>, Sound',
           UNCHANGED faults \/ Fault
    PROVE  Sound /\ UNCHANGED faults /\ ~Fault
<1>1. faults \in Nat /\ faults' = 0
  BY CacheBounds DEF TypeOK, Sound
<1>2. UNCHANGED faults /\ ~Fault
  BY <1>1 DEF Fault
<1> QED BY <1>2 DEF Sound

(* Superseded versions are older than the newest one.                      *)
LEMMA SupersededOlder ==
    ASSUME TypeOK, Ordered
    PROVE  /\ Superseded \subseteq 1..(sets - 1)
           /\ Superseded \subseteq Versions
<1>1. ASSUME NEW w \in complete
      PROVE  before[w] \subseteq 1..(sets - 1)
  <2>1. w \in Versions /\ w <= sets
    BY CacheBounds DEF TypeOK, Versions
  <2>2. before[w] \subseteq 1..(w - 1)
    BY <2>1 DEF Ordered
  <2> QED BY <2>1, <2>2 DEF TypeOK, Versions
<1>2. Superseded \subseteq 1..(sets - 1)
  BY <1>1 DEF Superseded
<1>3. 1..(sets - 1) \subseteq Versions
  BY CacheBounds DEF TypeOK, Versions
<1> QED BY <1>2, <1>3

(* What WholeSeconds makes of the rest of a TTL.                           *)
LEMMA WholeSecondsBounds ==
    ASSUME NEW d \in Int, d <= Ttl
    PROVE  /\ WholeSeconds(d) \in 1..Ttl
           /\ WholeSeconds(d) <= d \/ WholeSeconds(d) = Second
           /\ WholeSeconds(Ttl) = Ttl
<1>1. \A n \in Nat : n % Second \in 0..(Second - 1)
  BY TimeAssumption
<1>2. Second <= Ttl
  <2>1. SUFFICES ASSUME Ttl < Second PROVE FALSE
    BY TimeAssumption
  <2>2. Ttl % Second = Ttl
    BY <2>1, TimeAssumption
  <2> QED BY <2>2, TimeAssumption
<1>3. WholeSeconds(Ttl) = Ttl
  BY <1>2, TimeAssumption DEF WholeSeconds
<1>4. CASE d < Second
  BY <1>2, <1>3, <1>4, TimeAssumption DEF WholeSeconds
<1>5. CASE d >= Second
  <2>1. d \in Nat
    BY <1>5, TimeAssumption
  <2>2. d % Second \in 0..(Second - 1)
    BY <1>1, <2>1
  <2>3. WholeSeconds(d) = d - (d % Second)
    BY <1>5, TimeAssumption DEF WholeSeconds
  <2>4. DEFINE m == d % Second
  <2>5. m \in 0..(Second - 1) /\ WholeSeconds(d) = d - m
    BY <2>2, <2>3
  <2> HIDE DEF m
  <2> QED BY <1>3, <1>5, <2>5, TimeAssumption
<1> QED BY <1>4, <1>5, TimeAssumption

(* The initial states satisfy the invariant.                               *)
LEMMA IInvInit == Init => IInv
<1> SUFFICES ASSUME Init PROVE IInv
  OBVIOUS
<1> USE CacheBounds, HomeAssumption, TimeAssumption DEF Init
<1>1. TypeOK
  BY DEF TypeOK, PcValues, Versions, Grace
<1>2. Ordered /\ Writing
  BY DEF Ordered, Writing
<1>3. CopiesInTime /\ RedisBounded /\ AskedExpired
  BY DEF CopiesInTime, Copying, RedisBounded, AskedExpired
<1>4. RedisNewest
  BY DEF RedisNewest
<1>5. ReadIsRegular /\ ReadNotExpired
  BY DEF ReadIsRegular, ReadNotExpired
<1> QED BY <1>1, <1>2, <1>3, <1>4, <1>5 DEF IInv

(* A value that is still found has not long expired.                       *)
LEMMA FoundNotLongExpired ==
    ASSUME TypeOK, NEW v \in 1..sets, left[v] > -Grace
    PROVE  v \notin LongExpired
<1>1. left[v] \in Int /\ Grace \in Int
  BY CacheBounds, TimeAssumption DEF TypeOK, Versions, Grace
<1> QED BY <1>1 DEF LongExpired

(* What a get copies may be returned: the row was read in time.            *)
LEMMA CopyMayBeReturned ==
    ASSUME IInv, NEW t \in Threads, Copying(t)
    PROVE  /\ reg[t] \in 1..sets
           /\ reg[t] \notin LongExpired
           /\ left[reg[t]] > -Grace
<1> USE CacheBounds, TimeAssumption DEF IInv
<1>1. reg[t] \in 1..sets /\ busy[t] \in 0..MaxBusy
  BY DEF CopiesInTime, TypeOK
<1>2. left[reg[t]] >= -busy[t] /\ left[reg[t]] \in Int
  BY <1>1 DEF CopiesInTime, TypeOK, Versions
<1>3. left[reg[t]] > -Grace
  BY <1>1, <1>2 DEF Grace
<1> QED BY <1>1, <1>3, FoundNotLongExpired

----------------------------------------------------------------------------
(* Every step preserves the invariant: one lemma for each group of actions. *)

\* set, first half: the version goes to Redis.
LEMMA SetRedisStep ==
    ASSUME IInv, NEW t \in Threads, SetRedis(t)
    PROVE  IInv'
<1> USE CacheBounds, HomeAssumption, TimeAssumption DEF IInv
<1>1. /\ sets \in Nat /\ sets + 1 \in Versions /\ sets' = sets + 1
      /\ pc[t] = "idle" /\ pc' = [pc EXCEPT ![t] = "setMem"]
      /\ reg' = [reg EXCEPT ![t] = sets + 1]
      /\ UNCHANGED <<critical, client, mem, db, upserts, complete, ttl, busy, restarts>>
  BY DEF TypeOK, SetRedis, Versions, copying
<1>2. PICK d \in 0..MaxBusy : left' = [left EXCEPT ![sets + 1] = Ttl - d]
  BY DEF SetRedis
<1>3. Ttl \in Int /\ WholeSeconds(Ttl) = Ttl
  BY WholeSecondsBounds
<1>4. \/ redis' = sets + 1 /\ redisLeft' = Ttl
      \/ redis' = redis /\ redisLeft' = redisLeft
  BY <1>3 DEF SetRedis, Setex
<1>5. (UNCHANGED faults \/ Fault) /\ faults' \in 0..MaxFaults
  BY DEF SetRedis, Fault, TypeOK
<1>6. \A v \in 1..sets : v \in Versions /\ left'[v] = left[v]
  BY <1>1, <1>2 DEF TypeOK, Versions
<1>7. left'[sets + 1] = Ttl - d /\ Ttl - d \in -Grace..Ttl /\ Ttl - d > -Grace
  BY <1>1, <1>2 DEF TypeOK, Grace
<1>8. stale' = [stale EXCEPT ![t] = {}] /\ asked' = [asked EXCEPT ![t] = {}]
  BY DEF SetRedis, NoGet
<1>9. TypeOK'
  <2>1. redis' \in 0..sets' /\ redisLeft' \in 0..Ttl /\ db' \in 0..sets' /\ sets' \in 0..MaxSets
    BY <1>1, <1>4 DEF TypeOK, SetRedis
  <2>2. mem' \in [Procs -> 0..sets'] /\ upserts' \in [Procs -> SUBSET (1..sets')]
    BY <1>1 DEF TypeOK
  <2>3. before' \in [Versions -> SUBSET Versions] /\ complete' \in SUBSET (1..sets')
    BY <1>1 DEF TypeOK, SetRedis, Versions
  <2>4. pc' \in [Threads -> PcValues] /\ reg' \in [Threads -> 0..sets']
    BY <1>1 DEF TypeOK, PcValues
  <2>5. stale' \in [Threads -> SUBSET Versions] /\ asked' \in [Threads -> SUBSET Versions]
    BY <1>8 DEF TypeOK
  <2>6. left' \in [Versions -> -Grace..Ttl]
    BY <1>2, <1>7 DEF TypeOK
  <2>7. /\ critical' \in BOOLEAN /\ client' \in [Procs -> BOOLEAN] /\ restarts' \in 0..MaxRestarts
        /\ ttl' \in [Threads -> 0..Ttl] /\ busy' \in [Threads -> 0..MaxBusy]
    BY <1>1 DEF TypeOK
  <2> QED BY <1>5, <2>1, <2>2, <2>3, <2>4, <2>5, <2>6, <2>7 DEF TypeOK
<1>10. Ordered'
  <2>1. before' = [before EXCEPT ![sets + 1] = complete] /\ complete \subseteq 1..sets
    BY DEF SetRedis, TypeOK
  <2>2. ASSUME NEW w \in Versions PROVE before'[w] \subseteq 1..(w - 1)
    <3>1. CASE w = sets + 1
      <4>1. before'[w] = complete
        BY <1>1, <2>1, <3>1 DEF TypeOK
      <4>2. w - 1 = sets
        BY <1>1, <3>1
      <4> QED BY <2>1, <4>1, <4>2
    <3>2. CASE w # sets + 1
      BY <2>1, <3>2 DEF Ordered, TypeOK
    <3> QED BY <3>1, <3>2
  <2> QED BY <2>2 DEF Ordered
<1>11. Writing'
  BY <1>1 DEF Writing, TypeOK
<1>12. ASSUME Sound' PROVE RedisNewest'
  <2>1. Sound /\ ~Fault
    BY <1>1, <1>5, <1>12, SoundBefore
  <2>2. client[Home[t]] /\ redis' = sets' /\ redisLeft' = Ttl
    BY <1>1, <1>3, <2>1 DEF SetRedis, Sound, Setex
  <2>3. ASSUME NEW v \in 1..sets' PROVE left'[v] <= redisLeft'
    <3>1. CASE v = sets + 1
      BY <1>7, <2>2, <3>1
    <3>2. CASE v # sets + 1
      <4>1. v \in 1..sets
        BY <1>1, <3>2
      <4>2. left'[v] = left[v] /\ left[v] \in -Grace..Ttl
        BY <1>6, <4>1 DEF TypeOK
      <4> QED BY <2>2, <4>2 DEF Grace
    <3> QED BY <3>1, <3>2
  <2>4. ASSUME NEW u \in Threads
        PROVE  /\ pc'[u] \in {"idle", "setMem", "getMem", "getRow"}
               /\ pc'[u] \in {"getMem", "getRow"} =>
                    \A v \in stale'[u] : v <= sets' /\ left'[v] <= 0
    <3>1. CASE u = t
      BY <1>1, <3>1 DEF TypeOK
    <3>2. CASE u # t
      <4>1. pc'[u] = pc[u] /\ stale'[u] = stale[u] /\ stale[u] \subseteq Versions
        BY <1>1, <1>8, <3>2 DEF TypeOK
      <4>2. \A v \in Versions : v <= sets => v \in 1..sets /\ v <= sets'
        BY <1>1 DEF Versions
      <4> QED BY <1>6, <2>1, <4>1, <4>2 DEF RedisNewest
    <3> QED BY <3>1, <3>2
  <2> QED BY <1>1, <2>1, <2>2, <2>3, <2>4 DEF RedisNewest
<1>13. RedisBounded'
  <2>1. CASE redis' = sets + 1 /\ redisLeft' = Ttl
    <3>1. Ttl <= Ttl - d + Grace
      BY <1>2 DEF Grace
    <3> QED BY <1>1, <1>7, <2>1, <3>1 DEF RedisBounded, Grace
  <2>2. CASE redis' = redis /\ redisLeft' = redisLeft
    <3>1. redis # 0 => left'[redis] = left[redis]
      BY <1>6 DEF TypeOK
    <3> QED BY <2>2, <3>1 DEF RedisBounded, Grace
  <2> QED BY <1>4, <2>1, <2>2
<1>14. AskedExpired'
  <2>1. LongExpired \subseteq LongExpired'
    BY <1>1, <1>6 DEF LongExpired, Grace
  <2> QED BY <1>8, <2>1 DEF AskedExpired, TypeOK
<1>15. CopiesInTime'
  <2>1. \A u \in Threads : Copying(u)' => Copying(u) /\ reg'[u] = reg[u] /\ pc'[u] = pc[u]
    BY <1>1 DEF Copying, TypeOK
  <2>2. \A u \in Threads : Copying(u) => left'[reg[u]] = left[reg[u]]
    BY <1>6 DEF CopiesInTime, TypeOK
  <2>3. \A u \in Threads : pc'[u] = "fillRedis" => Copying(u)'
    BY DEF Copying
  <2> QED BY <1>1, <2>1, <2>2, <2>3 DEF CopiesInTime
<1>16. ReadIsRegular'
  <2>1. Sound' => Sound
    BY <1>1, <1>5, SoundBefore
  <2> QED BY <1>1, <1>8, <2>1 DEF ReadIsRegular, Sound, TypeOK
<1>17. ReadNotExpired'
  BY <1>1, <1>8 DEF ReadNotExpired, TypeOK
<1>18. (Sound => RedisNewest)'
  BY <1>12
<1> QED BY <1>9, <1>10, <1>11, <1>13, <1>14, <1>15, <1>16, <1>17, <1>18

\* set, second half: the dictionary, and the upsert that is left to do.
LEMMA SetMemStep ==
    ASSUME IInv, NEW t \in Threads, SetMem(t)
    PROVE  IInv'
<1> USE CacheBounds, HomeAssumption DEF IInv
<1>1. /\ reg[t] \in 1..sets /\ pc[t] = "setMem"
      /\ UNCHANGED <<redis, redisLeft, db, left, sets, before, stale, asked, ttl, busy>>
      /\ UNCHANGED <<critical, client, faults, restarts>>
      /\ pc' = [pc EXCEPT ![t] = "idle"]
      /\ reg' = [reg EXCEPT ![t] = 0]
  BY DEF TypeOK, Writing, SetMem, limits, copying
<1>2. TypeOK'
  <2>1. mem' \in [Procs -> 0..sets] /\ upserts' \in [Procs -> SUBSET (1..sets)]
    BY <1>1 DEF TypeOK, SetMem
  <2>2. complete' \in SUBSET (1..sets)
    BY <1>1 DEF TypeOK, SetMem
  <2>3. reg' \in [Threads -> 0..sets] /\ pc' \in [Threads -> PcValues]
    BY <1>1 DEF TypeOK, PcValues
  <2> QED BY <1>1, <2>1, <2>2, <2>3 DEF TypeOK
<1>3. Ordered' /\ Writing'
  BY <1>1 DEF Ordered, Writing, TypeOK
<1>4. RedisBounded' /\ AskedExpired' /\ CopiesInTime'
  BY <1>1 DEF RedisBounded, AskedExpired, LongExpired, CopiesInTime, Copying, Grace, TypeOK
<1>5. (Sound => RedisNewest)'
  <2>1. Sound' => Sound /\ upserts' = upserts
    BY <1>1 DEF Sound, SetMem
  <2> QED BY <1>1, <2>1 DEF RedisNewest, TypeOK
<1>6. ReadIsRegular'
  BY <1>1 DEF ReadIsRegular, TypeOK, Versions
<1>7. ReadNotExpired'
  BY <1>1 DEF ReadNotExpired, TypeOK, Versions
<1> QED BY <1>2, <1>3, <1>4, <1>5, <1>6, <1>7

\* An upsert runs, or fails.
LEMMA UpsertStep ==
    ASSUME IInv, NEW p \in Procs, NEW v \in Versions, Upsert(p, v)
    PROVE  IInv'
<1> USE CacheBounds DEF IInv
<1>1. UNCHANGED <<critical, client, redis, redisLeft, mem, clock, locals, restarts>>
  BY DEF Upsert
<1>2. db' \in {db, v} /\ upserts' \in {upserts, [upserts EXCEPT ![p] = @ \ {v}]} /\ v \in 1..sets
  BY DEF Upsert, TypeOK
<1>3. UNCHANGED faults \/ Fault
  BY DEF Upsert
<1>4. ~Sound'
  <2>1. SUFFICES ASSUME Sound PROVE FALSE
    BY <1>1, <1>3, SoundBefore
  <2> QED BY <2>1 DEF RedisNewest, Upsert
<1>5. TypeOK'
  <2>1. faults' \in 0..MaxFaults
    BY <1>3 DEF Fault, TypeOK
  <2>2. db' \in 0..sets /\ upserts' \in [Procs -> SUBSET (1..sets)]
    BY <1>2 DEF TypeOK
  <2> QED BY <1>1, <2>1, <2>2 DEF TypeOK, clock, locals
<1>6. Ordered' /\ Writing' /\ ReadNotExpired' /\ AskedExpired'
  BY <1>1 DEF Ordered, Writing, ReadNotExpired, AskedExpired, LongExpired, Grace, clock, locals
<1>7. CopiesInTime' /\ RedisBounded'
  BY <1>1 DEF CopiesInTime, Copying, RedisBounded, Grace, clock, locals
<1>8. (Sound => RedisNewest)' /\ ReadIsRegular'
  BY <1>4 DEF ReadIsRegular, Sound
<1> QED BY <1>5, <1>6, <1>7, <1>8

\* A get begins: it has its answer, or everything written so far has expired.
LEMMA GetRedisStep ==
    ASSUME IInv, NEW t \in Threads, GetRedis(t)
    PROVE  IInv'
<1> USE CacheBounds, HomeAssumption, TimeAssumption DEF IInv
<1>1. /\ UNCHANGED <<critical, client, tiers, clock, ttl, busy, restarts>>
      /\ UNCHANGED faults \/ Fault
      /\ pc[t] = "idle"
  BY DEF GetRedis, copying
<1>2. Superseded \subseteq 1..(sets - 1) /\ Superseded \subseteq Versions
  BY SupersededOlder
<1>3. /\ stale' = [stale EXCEPT ![t] = Superseded]
      /\ asked' = [asked EXCEPT ![t] = LongExpired]
  BY DEF GetRedis, Ask
<1>4. \/ pc' = pc /\ reg' = [reg EXCEPT ![t] = redis] /\ redis # 0
      \/ pc' = [pc EXCEPT ![t] = "getMem"] /\ reg' = reg
  BY <1>1 DEF GetRedis, Return, Goto, TypeOK
<1>5. LongExpired \subseteq Versions /\ LongExpired' = LongExpired
  BY <1>1 DEF LongExpired, TypeOK, Versions, clock, Grace
<1>6. redis # 0 => redis \notin LongExpired
  <2>1. SUFFICES ASSUME redis # 0 PROVE redis \notin LongExpired
    OBVIOUS
  <2>2. redis \in 1..sets /\ redis \in Versions /\ redisLeft > 0 /\ redisLeft \in Int
    BY <2>1 DEF TypeOK, RedisBounded, Versions
  <2>3. left[redis] \in Int /\ redisLeft <= left[redis] + Grace /\ Grace \in Int
    BY <2>1, <2>2 DEF RedisBounded, TypeOK, Grace
  <2>4. left[redis] > -Grace
    BY <2>2, <2>3
  <2> QED BY <2>2, <2>4, FoundNotLongExpired
<1>7. TypeOK'
  <2>1. faults' \in 0..MaxFaults
    BY <1>1 DEF Fault, TypeOK
  <2>2. pc' \in [Threads -> PcValues] /\ reg' \in [Threads -> 0..sets]
    BY <1>4 DEF TypeOK, PcValues
  <2>3. stale' \in [Threads -> SUBSET Versions] /\ asked' \in [Threads -> SUBSET Versions]
    BY <1>2, <1>3, <1>5 DEF TypeOK
  <2> QED BY <1>1, <2>1, <2>2, <2>3 DEF TypeOK, tiers, clock
<1>8. Ordered' /\ RedisBounded'
  BY <1>1 DEF Ordered, RedisBounded, Grace, clock, tiers
<1>9. Writing' /\ CopiesInTime'
  BY <1>1, <1>4 DEF Writing, CopiesInTime, Copying, TypeOK, clock
<1>10. AskedExpired'
  BY <1>3, <1>5 DEF AskedExpired, TypeOK
<1>11. ReadNotExpired'
  BY <1>1, <1>3, <1>4, <1>6 DEF ReadNotExpired, TypeOK
<1>12. ASSUME Sound'
       PROVE  /\ RedisNewest'
              /\ \A u \in Threads : pc'[u] = "idle" => reg'[u] \notin stale'[u]
  <2>1. Sound /\ UNCHANGED faults /\ ~Fault
    BY <1>1, <1>12, SoundBefore
  <2>2. RedisNewest
    BY <2>1
  <2>3. CASE pc' = pc /\ reg' = [reg EXCEPT ![t] = redis] /\ redis # 0
    <3>1. redis \notin Superseded
      BY <1>2, <2>2, <2>3 DEF TypeOK, RedisNewest
    <3>2. \A u \in Threads : pc'[u] = "idle" => reg'[u] \notin stale'[u]
      BY <1>3, <2>1, <2>3, <3>1 DEF ReadIsRegular, Sound, TypeOK
    <3> QED BY <1>1, <1>3, <2>2, <2>3, <3>2 DEF RedisNewest, TypeOK, tiers, clock
  <2>4. CASE pc' = [pc EXCEPT ![t] = "getMem"] /\ reg' = reg
    <3>1. redis = 0
      <4>1. client[Home[t]]
        BY <2>1 DEF Sound
      <4>2. pc'[t] # "idle"
        BY <2>4 DEF TypeOK
      <4> QED BY <1>1, <2>1, <4>1, <4>2 DEF GetRedis, Return, TypeOK
    <3>2. \A v \in Superseded : v <= sets /\ left[v] <= 0
      BY <1>2, <2>2, <3>1 DEF RedisNewest, RedisBounded, TypeOK
    <3>3. \A u \in Threads : pc'[u] = "idle" => reg'[u] \notin stale'[u]
      BY <1>3, <2>1, <2>4 DEF ReadIsRegular, Sound, TypeOK
    <3> QED BY <1>1, <1>3, <2>2, <2>4, <3>2, <3>3 DEF RedisNewest, TypeOK, tiers, clock
  <2> QED BY <1>4, <2>3, <2>4
<1>13. (Sound => RedisNewest)' /\ ReadIsRegular'
  BY <1>12 DEF ReadIsRegular, Sound, RedisNewest
<1> QED BY <1>7, <1>8, <1>9, <1>10, <1>11, <1>13

\* A get looks into the dictionary.
LEMMA GetMemStep ==
    ASSUME IInv, NEW t \in Threads, GetMem(t)
    PROVE  IInv'
<1> USE CacheBounds, HomeAssumption, TimeAssumption DEF IInv
<1>1. /\ UNCHANGED <<redis, redisLeft, db, upserts, clock, stale, asked, ttl, busy, limits>>
      /\ pc[t] = "getMem"
  BY DEF GetMem, copying
<1> DEFINE v == mem[Home[t]]
<1>2. \/ /\ pc' = [pc EXCEPT ![t] = "idle"] /\ reg' = [reg EXCEPT ![t] = v]
         /\ v # 0 /\ left[v] > 0 /\ mem' = mem
      \/ /\ pc' = [pc EXCEPT ![t] = "getRow"] /\ reg' = reg
         /\ mem' = [mem EXCEPT ![Home[t]] = 0]
  BY DEF GetMem, Return, Goto, Live, TypeOK
<1>3. v \in 0..sets
  BY DEF TypeOK
<1>4. TypeOK'
  <2>1. mem' \in [Procs -> 0..sets] /\ reg' \in [Threads -> 0..sets]
    BY <1>2, <1>3 DEF TypeOK
  <2>2. pc' \in [Threads -> PcValues]
    BY <1>2 DEF TypeOK, PcValues
  <2> QED BY <1>1, <2>1, <2>2 DEF TypeOK, clock, limits
<1>5. Ordered' /\ Writing' /\ RedisBounded' /\ AskedExpired'
  BY <1>1, <1>2 DEF Ordered, Writing, RedisBounded, AskedExpired, LongExpired, Grace, TypeOK, clock
<1>6. CopiesInTime'
  BY <1>1, <1>2 DEF CopiesInTime, Copying, TypeOK, clock
<1>7. ReadNotExpired'
  <2>1. v # 0 /\ left[v] > 0 => v \notin LongExpired
    <3>1. SUFFICES ASSUME v # 0, left[v] > 0 PROVE v \notin LongExpired
      OBVIOUS
    <3>2. v \in 1..sets /\ v \in Versions
      BY <1>3, <3>1 DEF TypeOK, Versions
    <3>3. left[v] > -Grace
      BY <3>1, <3>2 DEF TypeOK, Grace
    <3> QED BY <3>2, <3>3, FoundNotLongExpired
  <2>2. asked[t] \subseteq LongExpired
    BY DEF AskedExpired
  <2> QED BY <1>1, <1>2, <2>1, <2>2 DEF ReadNotExpired, TypeOK
<1>8. ASSUME Sound'
      PROVE  /\ RedisNewest'
             /\ \A u \in Threads : pc'[u] = "idle" => reg'[u] \notin stale'[u]
  <2>1. Sound /\ RedisNewest
    BY <1>1, <1>8 DEF Sound, limits
  <2>2. \A w \in stale[t] : left[w] <= 0
    BY <1>1, <2>1 DEF RedisNewest
  <2>3. RedisNewest'
    BY <1>1, <1>2, <2>1 DEF RedisNewest, TypeOK, clock
  <2>4. v # 0 /\ left[v] > 0 => v \notin stale[t]
    <3>1. v # 0 => left[v] \in Int
      BY <1>3 DEF TypeOK, Versions
    <3> QED BY <2>2, <3>1
  <2>5. ASSUME NEW u \in Threads, pc'[u] = "idle" PROVE reg'[u] \notin stale'[u]
    BY <1>1, <1>2, <2>1, <2>4, <2>5 DEF ReadIsRegular, Sound, TypeOK
  <2> QED BY <2>3, <2>5
<1>9. (Sound => RedisNewest)' /\ ReadIsRegular'
  BY <1>8 DEF ReadIsRegular, Sound, RedisNewest
<1> QED BY <1>4, <1>5, <1>6, <1>7, <1>9

\* A get looks for a row.
LEMMA GetRowStep ==
    ASSUME IInv, NEW t \in Threads, GetRow(t)
    PROVE  IInv'
<1> USE CacheBounds, HomeAssumption, TimeAssumption DEF IInv
<1>1. /\ UNCHANGED <<critical, client, tiers, clock, stale, asked, ttl, busy, restarts>>
      /\ pc[t] = "getRow"
      /\ UNCHANGED faults \/ Fault
  BY DEF GetRow, copying
<1>2. \/ pc' = [pc EXCEPT ![t] = "idle"] /\ reg' = [reg EXCEPT ![t] = 0]
      \/ db # 0 /\ pc' = [pc EXCEPT ![t] = "deleteRow"] /\ reg' = reg
      \/ /\ db # 0 /\ ~(left[db] < 0)
         /\ pc' = [pc EXCEPT ![t] = "fillMem"] /\ reg' = [reg EXCEPT ![t] = db]
  BY DEF GetRow, Return, Goto, RowExpired, TypeOK
<1>3. TypeOK'
  <2>1. faults' \in 0..MaxFaults
    BY <1>1 DEF Fault, TypeOK
  <2>2. pc' \in [Threads -> PcValues]
    BY <1>2 DEF TypeOK, PcValues
  <2>3. reg' \in [Threads -> 0..sets]
    BY <1>2 DEF TypeOK
  <2> QED BY <1>1, <2>1, <2>2, <2>3 DEF TypeOK, tiers, clock
<1>4. Ordered' /\ Writing' /\ RedisBounded' /\ AskedExpired'
  BY <1>1, <1>2 DEF Ordered, Writing, RedisBounded, AskedExpired, LongExpired, Grace, TypeOK,
                    tiers, clock
<1>5. CopiesInTime'
  <2>1. busy[t] \in 0..MaxBusy /\ (db # 0 => left[db] \in Int)
    BY DEF TypeOK, Versions
  <2> QED BY <1>1, <1>2, <2>1 DEF CopiesInTime, Copying, TypeOK, clock
<1>6. ReadNotExpired'
  <2>1. 0 \notin asked[t]
    BY DEF TypeOK, Versions
  <2> QED BY <1>1, <1>2, <2>1 DEF ReadNotExpired, TypeOK
<1>7. ASSUME Sound'
      PROVE  /\ RedisNewest'
             /\ \A u \in Threads : pc'[u] = "idle" => reg'[u] \notin stale'[u]
  <2>1. Sound
    BY <1>1, <1>7, SoundBefore
  <2>2. RedisNewest /\ db = 0
    BY <2>1 DEF RedisNewest
  <2>3. pc' = [pc EXCEPT ![t] = "idle"] /\ reg' = [reg EXCEPT ![t] = 0]
    BY <1>2, <2>2
  <2>4. RedisNewest'
    BY <1>1, <2>2, <2>3 DEF RedisNewest, TypeOK, tiers, clock
  <2>5. \A u \in Threads : pc'[u] = "idle" => reg'[u] \notin stale'[u]
    BY <1>1, <2>1, <2>3 DEF ReadIsRegular, Sound, TypeOK, Versions
  <2> QED BY <2>4, <2>5
<1>8. (Sound => RedisNewest)' /\ ReadIsRegular'
  BY <1>7 DEF ReadIsRegular, Sound, RedisNewest
<1> QED BY <1>3, <1>4, <1>5, <1>6, <1>8

(* These steps are not taken while the guarantee lasts.                    *)
LEMMA NoRowWhileSound ==
    ASSUME IInv, NEW t \in Threads,
           pc[t] \in {"deleteRow", "fillMem", "fillRedis", "clearRow"},
           UNCHANGED <<critical, client>>, UNCHANGED faults \/ Fault
    PROVE  ~Sound'
<1>1. SUFFICES ASSUME Sound PROVE FALSE
  BY SoundBefore DEF IInv
<1> QED BY <1>1 DEF RedisNewest, IInv

\* The row goes.
LEMMA RowSteps ==
    ASSUME IInv, NEW t \in Threads, DeleteRow(t) \/ ClearRow(t)
    PROVE  IInv'
<1> USE CacheBounds, HomeAssumption DEF IInv
<1>1. /\ UNCHANGED <<critical, client, redis, redisLeft, mem, upserts, clock, stale, asked>>
      /\ UNCHANGED <<ttl, busy, restarts>>
      /\ pc[t] \in {"deleteRow", "clearRow"}
      /\ UNCHANGED faults \/ Fault
      /\ db' \in {db, 0}
      /\ pc' = [pc EXCEPT ![t] = "idle"] /\ reg' = [reg EXCEPT ![t] = 0]
  BY DEF DeleteRow, ClearRow, Return, copying
<1>2. TypeOK'
  <2>1. faults' \in 0..MaxFaults
    BY <1>1 DEF Fault, TypeOK
  <2>2. pc' \in [Threads -> PcValues] /\ reg' \in [Threads -> 0..sets] /\ db' \in 0..sets
    BY <1>1 DEF TypeOK, PcValues
  <2> QED BY <1>1, <2>1, <2>2 DEF TypeOK, clock
<1>3. Ordered' /\ Writing' /\ RedisBounded' /\ AskedExpired'
  BY <1>1 DEF Ordered, Writing, RedisBounded, AskedExpired, LongExpired, Grace, TypeOK, clock
<1>4. CopiesInTime'
  BY <1>1 DEF CopiesInTime, Copying, TypeOK, clock
<1>5. ReadNotExpired'
  BY <1>1 DEF ReadNotExpired, TypeOK, Versions
<1>6. ~Sound'
  BY <1>1, NoRowWhileSound
<1>7. (Sound => RedisNewest)' /\ ReadIsRegular'
  BY <1>6 DEF ReadIsRegular, Sound
<1> QED BY <1>2, <1>3, <1>4, <1>5, <1>7

\* A get copies the row into the dictionary.
LEMMA FillMemStep ==
    ASSUME IInv, NEW t \in Threads, FillMem(t)
    PROVE  IInv'
<1> USE CacheBounds, HomeAssumption, TimeAssumption DEF IInv
<1>1. /\ UNCHANGED <<redis, redisLeft, db, upserts, clock, stale, asked, limits, reg>>
      /\ pc[t] = "fillMem" /\ Copying(t)
      /\ mem' = [mem EXCEPT ![Home[t]] = reg[t]]
  BY DEF FillMem, Copying, Return, Goto, TypeOK
<1>2. reg[t] \in 1..sets /\ reg[t] \notin LongExpired
  BY <1>1, CopyMayBeReturned
<1>3. left[reg[t]] \in Int /\ left[reg[t]] <= Ttl
  BY <1>2 DEF TypeOK, Versions
<1> DEFINE w == WholeSeconds(left[reg[t]])
<1>4. w \in 1..Ttl /\ (w <= left[reg[t]] \/ w = Second)
  BY <1>3, WholeSecondsBounds
<1>5. \/ /\ pc' = [pc EXCEPT ![t] = "fillRedis"]
         /\ ttl' = [ttl EXCEPT ![t] = w] /\ busy' = busy
      \/ /\ pc' = [pc EXCEPT ![t] = "idle"]
         /\ ttl' = ttl /\ busy' = [busy EXCEPT ![t] = 0]
  BY DEF FillMem, Return, Goto
<1> HIDE DEF w
<1>6. TypeOK'
  <2>1. pc' \in [Threads -> PcValues] /\ mem' \in [Procs -> 0..sets]
    BY <1>1, <1>2, <1>5 DEF TypeOK, PcValues
  <2>2. w \in 0..Ttl /\ 0 \in 0..MaxBusy
    BY <1>4
  <2>3. ttl' \in [Threads -> 0..Ttl]
    BY <1>5, <2>2 DEF TypeOK
  <2>4. busy' \in [Threads -> 0..MaxBusy]
    BY <1>5, <2>2 DEF TypeOK
  <2> QED BY <1>1, <2>1, <2>3, <2>4 DEF TypeOK, clock, limits
<1>7. Ordered' /\ Writing' /\ RedisBounded' /\ AskedExpired'
  BY <1>1, <1>5 DEF Ordered, Writing, RedisBounded, AskedExpired, LongExpired, Grace, TypeOK, clock
<1>8. CopiesInTime'
  <2>1. busy[t] \in 0..MaxBusy /\ left[reg[t]] >= -busy[t]
    BY <1>1 DEF CopiesInTime, TypeOK
  <2>2. w > 0 /\ w <= left[reg[t]] + busy[t] + Second
    BY <1>3, <1>4, <2>1
  <2>3. left' = left
    BY <1>1 DEF clock
  <2>4. ASSUME NEW u \in Threads
        PROVE  /\ Copying(u)' => reg'[u] # 0 /\ left'[reg'[u]] >= -busy'[u]
               /\ pc'[u] = "fillRedis" => ttl'[u] > 0 /\ ttl'[u] <= left'[reg'[u]] + busy'[u] + Second
    <3>1. CASE u = t
      BY <1>1, <1>2, <1>5, <2>1, <2>2, <2>3, <3>1 DEF Copying, TypeOK
    <3>2. CASE u # t
      <4>1. pc'[u] = pc[u] /\ ttl'[u] = ttl[u] /\ busy'[u] = busy[u] /\ reg'[u] = reg[u]
        BY <1>1, <1>5, <3>2 DEF TypeOK
      <4> QED BY <2>3, <4>1 DEF CopiesInTime, Copying
    <3> QED BY <3>1, <3>2
  <2> QED BY <2>4 DEF CopiesInTime
<1>9. ReadNotExpired'
  <2>1. asked[t] \subseteq LongExpired
    BY DEF AskedExpired
  <2> QED BY <1>1, <1>2, <1>5, <2>1 DEF ReadNotExpired, TypeOK
<1>10. ~Sound'
  BY <1>1, NoRowWhileSound DEF limits
<1>11. (Sound => RedisNewest)' /\ ReadIsRegular'
  BY <1>10 DEF ReadIsRegular, Sound
<1> QED BY <1>6, <1>7, <1>8, <1>9, <1>11

\* A get copies the row into Redis, which keeps it for at most Grace too long.
LEMMA FillRedisStep ==
    ASSUME IInv, NEW t \in Threads, FillRedis(t)
    PROVE  IInv'
<1> USE CacheBounds, HomeAssumption, TimeAssumption DEF IInv
<1>1. /\ UNCHANGED <<critical, client, mem, db, upserts, clock, stale, asked, restarts, reg>>
      /\ pc[t] = "fillRedis" /\ Copying(t)
      /\ UNCHANGED faults \/ Fault
      /\ pc' = [pc EXCEPT ![t] = "idle"]
      /\ ttl' = [ttl EXCEPT ![t] = 0] /\ busy' = [busy EXCEPT ![t] = 0]
      /\ \/ redis' = reg[t] /\ redisLeft' = ttl[t]
         \/ redis' = redis /\ redisLeft' = redisLeft
  BY DEF FillRedis, Copying, Return, Setex, TypeOK
<1>2. reg[t] \in 1..sets /\ reg[t] \notin LongExpired
  BY <1>1, CopyMayBeReturned
<1>3. left[reg[t]] \in Int /\ ttl[t] \in 0..Ttl /\ busy[t] \in 0..MaxBusy
  BY <1>2 DEF TypeOK, Versions
<1>4. ttl[t] > 0 /\ ttl[t] <= left[reg[t]] + busy[t] + Second
  BY <1>1 DEF CopiesInTime
<1>5. TypeOK'
  <2>1. faults' \in 0..MaxFaults
    BY <1>1 DEF Fault, TypeOK
  <2>2. pc' \in [Threads -> PcValues] /\ redis' \in 0..sets /\ redisLeft' \in 0..Ttl
    BY <1>1, <1>2, <1>3 DEF TypeOK, PcValues
  <2>3. ttl' \in [Threads -> 0..Ttl] /\ busy' \in [Threads -> 0..MaxBusy]
    BY <1>1 DEF TypeOK
  <2> QED BY <1>1, <2>1, <2>2, <2>3 DEF TypeOK, clock
<1>6. Ordered' /\ Writing' /\ AskedExpired'
  BY <1>1 DEF Ordered, Writing, AskedExpired, LongExpired, Grace, TypeOK, clock
<1>7. RedisBounded'
  <2>1. ttl[t] <= left[reg[t]] + Grace
    BY <1>3, <1>4 DEF Grace
  <2>2. left' = left /\ Grace' = Grace
    BY <1>1 DEF clock, Grace
  <2> QED BY <1>1, <1>2, <1>3, <1>4, <2>1, <2>2 DEF RedisBounded
<1>8. CopiesInTime'
  BY <1>1 DEF CopiesInTime, Copying, TypeOK, clock
<1>9. ReadNotExpired'
  <2>1. asked[t] \subseteq LongExpired
    BY DEF AskedExpired
  <2> QED BY <1>1, <1>2, <2>1 DEF ReadNotExpired, TypeOK
<1>10. ~Sound'
  BY <1>1, NoRowWhileSound
<1>11. (Sound => RedisNewest)' /\ ReadIsRegular'
  BY <1>10 DEF ReadIsRegular, Sound
<1> QED BY <1>5, <1>6, <1>7, <1>8, <1>9, <1>11

\* clear_expired drops what the dictionary holds too long.
LEMMA ClearMemStep ==
    ASSUME IInv, NEW t \in Threads, ClearMem(t)
    PROVE  IInv'
<1> USE CacheBounds, HomeAssumption DEF IInv
<1>1. /\ UNCHANGED <<redis, redisLeft, db, upserts, clock, ttl, busy, limits>>
      /\ pc[t] = "idle"
  BY DEF ClearMem, copying
<1>2. /\ mem' = [mem EXCEPT ![Home[t]] = Live(mem[Home[t]])]
      /\ reg' = [reg EXCEPT ![t] = 0]
      /\ stale' = [stale EXCEPT ![t] = {}]
      /\ asked' = [asked EXCEPT ![t] = {}]
  BY DEF ClearMem, NoGet
<1>3. pc' = pc \/ (db # 0 /\ pc' = [pc EXCEPT ![t] = "clearRow"])
  BY DEF ClearMem, RowExpired
<1>4. TypeOK'
  <2>1. mem' \in [Procs -> 0..sets]
    BY <1>2 DEF TypeOK, Live
  <2>2. reg' \in [Threads -> 0..sets] /\ pc' \in [Threads -> PcValues]
    BY <1>2, <1>3 DEF TypeOK, PcValues
  <2>3. stale' \in [Threads -> SUBSET Versions] /\ asked' \in [Threads -> SUBSET Versions]
    BY <1>2 DEF TypeOK
  <2> QED BY <1>1, <2>1, <2>2, <2>3 DEF TypeOK, clock, limits
<1>5. Ordered' /\ Writing' /\ RedisBounded' /\ AskedExpired'
  BY <1>1, <1>2, <1>3 DEF Ordered, Writing, RedisBounded, AskedExpired, LongExpired, Grace,
                          TypeOK, clock
<1>6. CopiesInTime'
  <2>1. \A u \in Threads : Copying(u)' => Copying(u) /\ u # t
    BY <1>1, <1>3 DEF Copying, TypeOK
  <2>2. \A u \in Threads : u # t => reg'[u] = reg[u] /\ pc'[u] = pc[u]
    BY <1>2, <1>3 DEF TypeOK
  <2>3. \A u \in Threads : pc'[u] = "fillRedis" => Copying(u)'
    BY DEF Copying
  <2> QED BY <1>1, <2>1, <2>2, <2>3 DEF CopiesInTime, clock
<1>7. ReadNotExpired'
  BY <1>1, <1>2, <1>3 DEF ReadNotExpired, TypeOK
<1>8. ASSUME Sound'
      PROVE  /\ RedisNewest'
             /\ \A u \in Threads : pc'[u] = "idle" => reg'[u] \notin stale'[u]
  <2>1. Sound /\ RedisNewest
    BY <1>1, <1>8 DEF Sound, limits
  <2>2. pc' = pc
    BY <1>3, <2>1 DEF RedisNewest
  <2> QED BY <1>1, <1>2, <2>1, <2>2 DEF RedisNewest, ReadIsRegular, Sound, TypeOK, clock
<1>9. (Sound => RedisNewest)' /\ ReadIsRegular'
  BY <1>8 DEF ReadIsRegular, Sound, RedisNewest
<1> QED BY <1>4, <1>5, <1>6, <1>7, <1>9

\* Time passes, for every tier and every copy alike.
LEMMA TickStep ==
    ASSUME IInv, Tick
    PROVE  IInv'
<1> USE CacheBounds, TimeAssumption DEF IInv
<1>1. /\ UNCHANGED <<mem, db, upserts, sets, before, complete, pc, reg, stale, asked, ttl>>
      /\ UNCHANGED <<critical, client, faults, restarts>>
      /\ Grace \in Nat /\ Grace = MaxBusy + Second
  BY DEF Tick, limits, Grace
<1>2. ASSUME NEW v \in Versions
      PROVE  /\ left[v] \in -Grace..Ttl /\ left'[v] \in -Grace..Ttl
             /\ left'[v] \in {left[v], left[v] - 1}
             /\ v <= sets => \/ left'[v] = left[v] - 1
                             \/ left[v] = -Grace /\ left'[v] = -Grace
  <2>1. left[v] \in -Grace..Ttl
    BY DEF TypeOK
  <2>2. left'[v] = IF v <= sets /\ left[v] > -Grace THEN left[v] - 1 ELSE left[v]
    BY DEF Tick
  <2> QED BY <1>1, <2>1, <2>2
<1>3. ASSUME NEW t \in Threads
      PROVE  /\ busy'[t] = IF Copying(t) THEN busy[t] + 1 ELSE busy[t]
             /\ busy[t] \in 0..MaxBusy /\ busy'[t] \in 0..MaxBusy
  <2>1. busy'[t] = IF Copying(t) THEN busy[t] + 1 ELSE busy[t]
    BY DEF Tick
  <2>2. (Copying(t) => busy[t] < MaxBusy) /\ busy[t] \in 0..MaxBusy
    BY DEF Tick, TypeOK
  <2> QED BY <2>1, <2>2
<1>4. /\ redisLeft \in 0..Ttl
      /\ \/ redisLeft > 1 /\ redis' = redis /\ redisLeft' = redisLeft - 1
         \/ redisLeft <= 1 /\ redis' = 0 /\ redisLeft' = 0
  BY DEF Tick, Setex, TypeOK
<1>5. TypeOK'
  <2>1. left' \in [Versions -> -Grace..Ttl]
    <3>1. left' = [v \in Versions |->
                     IF v <= sets /\ left[v] > -Grace THEN left[v] - 1 ELSE left[v]]
      BY DEF Tick
    <3> QED BY <1>2, <3>1
  <2>2. busy' \in [Threads -> 0..MaxBusy]
    <3>1. busy' = [t \in Threads |-> IF Copying(t) THEN busy[t] + 1 ELSE busy[t]]
      BY DEF Tick
    <3> QED BY <1>3, <3>1
  <2>3. sets \in Nat /\ redis \in 0..sets
    BY DEF TypeOK
  <2>4. redis' \in 0..sets
    BY <1>4, <2>3
  <2>5. redisLeft' \in 0..Ttl
    BY <1>4
  <2> QED BY <1>1, <2>1, <2>2, <2>4, <2>5 DEF TypeOK, Grace
<1>6. Ordered' /\ Writing' /\ ReadNotExpired' /\ ReadIsRegular'
  BY <1>1 DEF Ordered, Writing, ReadNotExpired, ReadIsRegular
<1>7. AskedExpired'
  <2>1. ASSUME NEW v \in LongExpired PROVE v \in LongExpired'
    <3>1. v \in 1..sets /\ v \in Versions /\ left[v] <= -Grace
      BY DEF LongExpired, TypeOK, Versions
    <3>2. left'[v] <= -Grace
      BY <1>1, <1>2, <3>1
    <3> QED BY <1>1, <3>1, <3>2 DEF LongExpired, Grace
  <2> QED BY <1>1, <2>1 DEF AskedExpired
<1>8. RedisBounded'
  <2>1. CASE redisLeft <= 1 /\ redis' = 0 /\ redisLeft' = 0
    BY <2>1 DEF RedisBounded
  <2>2. CASE redisLeft > 1 /\ redis' = redis /\ redisLeft' = redisLeft - 1
    <3>1. redis # 0 /\ redis \in 1..sets /\ redis \in Versions
      BY <1>4, <2>2 DEF RedisBounded, TypeOK, Versions
    <3>2. redisLeft <= left[redis] + Grace /\ left[redis] \in Int
      BY <1>2, <3>1 DEF RedisBounded
    <3>3. left'[redis] = left[redis] - 1
      BY <1>1, <1>2, <1>4, <2>2, <3>1, <3>2
    <3>4. redisLeft' <= left'[redis'] + Grace' /\ redisLeft' # 0 /\ redis' # 0
      BY <1>1, <1>4, <2>2, <3>1, <3>2, <3>3 DEF Grace
    <3> QED BY <3>4 DEF RedisBounded
  <2> QED BY <1>4, <2>1, <2>2
<1>9. CopiesInTime'
  <2>1. ASSUME NEW t \in Threads, Copying(t)
        PROVE  /\ busy'[t] = busy[t] + 1 /\ busy[t] \in Nat
               /\ reg[t] # 0 /\ left[reg[t]] \in Int /\ left[reg[t]] >= -busy[t]
               /\ left'[reg[t]] = left[reg[t]] - 1
    <3>1. reg[t] \in 1..sets /\ reg[t] \in Versions /\ left[reg[t]] >= -busy[t]
      BY <2>1 DEF CopiesInTime, TypeOK, Versions
    <3>2. left[reg[t]] > -Grace
      BY <2>1, CopyMayBeReturned
    <3>3. left'[reg[t]] = left[reg[t]] - 1 /\ left[reg[t]] \in Int
      BY <1>1, <1>2, <3>1, <3>2
    <3> QED BY <1>3, <2>1, <3>1, <3>3
  <2>2. ASSUME NEW t \in Threads, Copying(t)'
        PROVE  reg'[t] # 0 /\ left'[reg'[t]] >= -busy'[t]
    <3>1. Copying(t)
      BY <1>1, <2>2 DEF Copying
    <3> QED BY <1>1, <2>1, <3>1
  <2>3. ASSUME NEW t \in Threads, pc'[t] = "fillRedis"
        PROVE  ttl'[t] > 0 /\ ttl'[t] <= left'[reg'[t]] + busy'[t] + Second
    <3>1. Copying(t) /\ pc[t] = "fillRedis" /\ ttl[t] \in 0..Ttl
      BY <1>1, <2>3 DEF Copying, TypeOK
    <3>2. ttl[t] > 0 /\ ttl[t] <= left[reg[t]] + busy[t] + Second
      BY <3>1 DEF CopiesInTime
    <3> QED BY <1>1, <2>1, <3>1, <3>2
  <2> QED BY <2>2, <2>3 DEF CopiesInTime
<1>10. (Sound => RedisNewest)'
  <2>1. SUFFICES ASSUME RedisNewest PROVE RedisNewest'
    BY <1>1 DEF Sound
  <2>2. ASSUME NEW v \in 1..sets PROVE left'[v] <= redisLeft'
    <3>1. v \in Versions /\ left[v] <= redisLeft
      BY <2>1 DEF RedisNewest, TypeOK, Versions
    <3> QED BY <1>1, <1>2, <1>4, <3>1
  <2>3. ASSUME NEW v \in Versions, left[v] <= 0 PROVE left'[v] <= 0
    BY <1>2, <2>3
  <2>4. redis' # 0 => redis' = sets
    BY <1>4, <2>1 DEF RedisNewest
  <2>5. \A t \in Threads : stale[t] \subseteq Versions
    BY DEF TypeOK
  <2> QED BY <1>1, <2>1, <2>2, <2>3, <2>4, <2>5 DEF RedisNewest
<1> QED BY <1>5, <1>6, <1>7, <1>8, <1>9, <1>10

\* A process loses its threads and its dictionary.
LEMMA RestartStep ==
    ASSUME IInv, NEW p \in Procs, Restart(p)
    PROVE  IInv'
<1> USE CacheBounds, HomeAssumption, TimeAssumption DEF IInv
<1>1. UNCHANGED <<critical, client, redis, redisLeft, db, clock, faults>>
  BY DEF Restart
<1>2. \A t \in Threads :
         \/ /\ pc'[t] = "idle" /\ reg'[t] = 0 /\ stale'[t] = {} /\ asked'[t] = {}
         \/ /\ pc'[t] = pc[t] /\ reg'[t] = reg[t] /\ stale'[t] = stale[t] /\ asked'[t] = asked[t]
            /\ ttl'[t] = ttl[t] /\ busy'[t] = busy[t]
  BY DEF Restart
<1>3. TypeOK'
  <2>1. mem' \in [Procs -> 0..sets] /\ upserts' \in [Procs -> SUBSET (1..sets)]
    BY DEF Restart, TypeOK
  <2>2. pc' \in [Threads -> PcValues] /\ reg' \in [Threads -> 0..sets]
    BY DEF Restart, TypeOK, PcValues
  <2>3. stale' \in [Threads -> SUBSET Versions] /\ asked' \in [Threads -> SUBSET Versions]
    BY DEF Restart, TypeOK
  <2>4. ttl' \in [Threads -> 0..Ttl] /\ busy' \in [Threads -> 0..MaxBusy]
    BY DEF Restart, TypeOK
  <2>5. restarts' \in 0..MaxRestarts
    BY DEF Restart, TypeOK
  <2> QED BY <1>1, <2>1, <2>2, <2>3, <2>4, <2>5 DEF TypeOK, clock
<1>4. Ordered' /\ Writing' /\ RedisBounded'
  BY <1>1, <1>2 DEF Ordered, Writing, RedisBounded, Grace, clock
<1>5. AskedExpired' /\ ReadNotExpired'
  BY <1>1, <1>2 DEF AskedExpired, LongExpired, ReadNotExpired, Grace, clock
<1>6. CopiesInTime'
  BY <1>1, <1>2 DEF CopiesInTime, Copying, clock
<1>7. ReadIsRegular'
  BY <1>1, <1>2 DEF ReadIsRegular
<1>8. (Sound => RedisNewest)'
  <2>1. \A q \in Procs : upserts[q] = {} => upserts'[q] = {}
    BY DEF Restart, TypeOK
  <2> QED BY <1>1, <1>2, <2>1 DEF Sound, RedisNewest, clock
<1> QED BY <1>3, <1>4, <1>5, <1>6, <1>7, <1>8

----------------------------------------------------------------------------
(* Every step of the specification preserves the invariant.                *)
LEMMA IInvStep == IInv /\ [Next]_vars => IInv'
<1> SUFFICES ASSUME IInv, [Next]_vars PROVE IInv'
  OBVIOUS
<1>1. CASE \E t \in Threads : Set(t) \/ Get(t) \/ Clear(t)
  <2> PICK t \in Threads : Set(t) \/ Get(t) \/ Clear(t)
    BY <1>1
  <2>1. CASE Set(t)
    BY <2>1, SetRedisStep, SetMemStep DEF Set
  <2>2. CASE Get(t)
    BY <2>2, GetRedisStep, GetMemStep, GetRowStep, RowSteps, FillMemStep, FillRedisStep DEF Get
  <2>3. CASE Clear(t)
    BY <2>3, ClearMemStep, RowSteps DEF Clear
  <2> QED BY <2>1, <2>2, <2>3
<1>2. CASE \E p \in Procs : Restart(p) \/ \E v \in Versions : Upsert(p, v)
  BY <1>2, RestartStep, UpsertStep
<1>3. CASE Tick
  BY <1>3, TickStep
<1>4. CASE UNCHANGED vars
  <2>1. TypeOK'
    BY <1>4 DEF IInv, vars, TypeOK, Grace
  <2>2. Ordered' /\ Writing' /\ RedisBounded' /\ AskedExpired'
    BY <1>4 DEF IInv, vars, Ordered, Writing, RedisBounded, AskedExpired, LongExpired, Grace
  <2>3. ReadIsRegular' /\ ReadNotExpired' /\ CopiesInTime'
    BY <1>4 DEF IInv, vars, ReadIsRegular, ReadNotExpired, CopiesInTime, Copying
  <2>4. (Sound => RedisNewest)'
    BY <1>4 DEF IInv, vars, Sound, RedisNewest
  <2> QED BY <2>1, <2>2, <2>3, <2>4 DEF IInv
<1> QED BY <1>1, <1>2, <1>3, <1>4 DEF Next

(* Every variable keeps its type: no tier ever holds a version that was    *)
(* not set, and Redis is given no TTL that is not positive, or longer than *)
(* the one of a set.                                                       *)
THEOREM CacheTypesCorrect == Spec => []TypeOK
<1>1. IInv => TypeOK
  BY DEF IInv
<1> QED BY <1>1, IInvInit, IInvStep, PTL DEF Spec

(* Reads of a key without a row are regular while Redis answers (get and   *)
(* set of DataCache), for any number of processes, threads and sets.       *)
THEOREM ReadsAreRegular == Spec => []ReadIsRegular
<1>1. IInv => ReadIsRegular
  BY DEF IInv
<1> QED BY <1>1, IInvInit, IInvStep, PTL DEF Spec

(* No get returns a value that had expired Grace before it began, whatever *)
(* fails, for any TTL of whole seconds and any time that a get may take.   *)
THEOREM ReadsAreNotExpired == Spec => []ReadNotExpired
<1>1. IInv => ReadNotExpired
  BY DEF IInv
<1> QED BY <1>1, IInvInit, IInvStep, PTL DEF Spec
=============================================================================
