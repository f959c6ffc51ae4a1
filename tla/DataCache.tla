----------------------------- MODULE DataCache -----------------------------
(***************************************************************************)
(* One key of the three-tier cache: Redis, the dictionary of each process, *)
(* and a row in Supabase that only critical keys get.  Threads of the API  *)
(* process and of the worker read and write the key at the same time.      *)
(*                                                                         *)
(* The values are versions, numbered in the order in which Redis sees them *)
(* (a set begins with its SETEX); 0 is no value.  The serialised value is  *)
(* opaque.  All sets of one key use the same TTL, a number of whole        *)
(* seconds.  Time passes in ticks: every version has a time left until its *)
(* expires_at, which goes with it into the dictionaries and the row, while *)
(* Redis counts down a time to live of its own.                            *)
(***************************************************************************)
EXTENDS Integers

CONSTANTS
    Procs,          \* the processes that share Redis and Supabase
    Threads,        \* the threads that use the key
    Home,           \* the process of each thread
    Second,         \* the ticks in a second
    Ttl,            \* ttl_hours of every set, in ticks
    MaxBusy,        \* bound: ticks from reading the clock, or the row, to the SETEX
    MaxSets,        \* bound: sets begun
    MaxFaults,      \* bound: failing or repeated commands
    MaxRestarts     \* bound: restarts of processes

ASSUME HomeAssumption == Home \in [Threads -> Procs]
ASSUME TimeAssumption ==
    /\ Second \in Nat \ {0}
    /\ Ttl \in Nat \ {0} /\ Ttl % Second = 0
    /\ MaxBusy \in Nat
ASSUME CacheBounds == MaxSets \in Nat /\ MaxFaults \in Nat /\ MaxRestarts \in Nat

VARIABLES
    critical,       \* whether the key has one of _CRITICAL_PREFIXES
    client,         \* whether each process has a Redis client
    redis,          \* cache:<key> in Redis
    redisLeft,      \* the ticks until Redis drops it
    mem,            \* _mem[key] of each process
    db,             \* the row in Supabase
    upserts,        \* versions a background thread of each process must upsert
    left,           \* the ticks until each version expires, down to -Grace
    sets,           \* sets begun so far
    before,         \* the sets that had returned when each set began
    complete,       \* the sets that have returned
    pc,             \* where each thread stands
    reg,            \* what each thread holds, or has just read
    stale,          \* what was superseded when the thread's get began
    asked,          \* what had long expired when the thread's get began
    ttl,            \* the ttl_sec a thread is about to give Redis, in ticks
    busy,           \* the ticks since a thread has read the row
    faults,         \* commands that have failed or were repeated
    restarts        \* restarts so far

tiers == <<redis, redisLeft, mem, db, upserts>>
clock == <<left, sets, before, complete>>
copying == <<ttl, busy>>
locals == <<pc, reg, stale, asked, ttl, busy>>
limits == <<critical, client, faults, restarts>>
vars == <<critical, client, redis, redisLeft, mem, db, upserts, left, sets, before,
          complete, pc, reg, stale, asked, ttl, busy, faults, restarts>>

Versions == 1..MaxSets

\* Mutant: without max(1, ...); Redis accepts no such TTL.
AnySeconds(d) == d - (d % Second)

\* max(1, int(seconds)), in ticks.
WholeSeconds(d) == IF d < Second THEN Second ELSE d - (d % Second)

\* How long after its expires_at a value may still be found in Redis: the time
\* a set or a get takes, and what the rounding up to a second adds.
Grace == MaxBusy + Second

LongExpired == {v \in 1..sets : left[v] <= -Grace}

\* A dictionary entry that has expired reads as absent.
Live(v) == IF v # 0 /\ left[v] > 0 THEN v ELSE 0

\* The row's expires_at is compared the other way round.
RowExpired == db # 0 /\ left[db] < 0

\* What a get that begins now may no longer return: overwritten by a set that
\* has returned, having itself returned before that set began.
Superseded == UNION {before[w] : w \in complete}

Fault == faults < MaxFaults /\ faults' = faults + 1

----------------------------------------------------------------------------
Init ==
    /\ critical \in BOOLEAN
    /\ client \in [Procs -> BOOLEAN]
    /\ redis = 0 /\ redisLeft = 0
    /\ mem = [p \in Procs |-> 0]
    /\ db = 0
    /\ upserts = [p \in Procs |-> {}]
    /\ left = [v \in Versions |-> Ttl]
    /\ sets = 0
    /\ before = [v \in Versions |-> {}]
    /\ complete = {}
    /\ pc = [t \in Threads |-> "idle"]
    /\ reg = [t \in Threads |-> 0]
    /\ stale = [t \in Threads |-> {}]
    /\ asked = [t \in Threads |-> {}]
    /\ ttl = [t \in Threads |-> 0]
    /\ busy = [t \in Threads |-> 0]
    /\ faults = 0
    /\ restarts = 0

----------------------------------------------------------------------------
(* set: SETEX, then the dictionary, then a thread that upserts the row.    *)

\* The thread's last get is over.
NoGet(t) == stale' = [stale EXCEPT ![t] = {}] /\ asked' = [asked EXCEPT ![t] = {}]

\* Redis has the version for so many ticks.
Setex(v, d) == redis' = v /\ redisLeft' = d

\* set reads the clock some time before the SETEX, which may fail or be
\* repeated: that is only logged.
SetRedis(t) ==
    /\ pc[t] = "idle"
    /\ sets < MaxSets
    /\ sets' = sets + 1
    /\ before' = [before EXCEPT ![sets + 1] = complete]
    /\ \E d \in 0..MaxBusy : left' = [left EXCEPT ![sets + 1] = Ttl - d]
    /\ \/ client[Home[t]] /\ Setex(sets + 1, WholeSeconds(Ttl)) /\ UNCHANGED faults
       \/ /\ client[Home[t]] /\ Fault
          /\ Setex(sets + 1, WholeSeconds(Ttl)) \/ UNCHANGED <<redis, redisLeft>>
       \/ ~client[Home[t]] /\ UNCHANGED <<redis, redisLeft, faults>>
    /\ pc' = [pc EXCEPT ![t] = "setMem"]
    /\ reg' = [reg EXCEPT ![t] = sets + 1]
    /\ NoGet(t)
    /\ UNCHANGED <<critical, client, mem, db, upserts, complete, copying, restarts>>

SetMem(t) ==
    /\ pc[t] = "setMem"
    /\ mem' = [mem EXCEPT ![Home[t]] = reg[t]]
    /\ upserts' = IF critical THEN [upserts EXCEPT ![Home[t]] = @ \cup {reg[t]}] ELSE upserts
    /\ complete' = complete \cup {reg[t]}
    /\ pc' = [pc EXCEPT ![t] = "idle"]
    /\ reg' = [reg EXCEPT ![t] = 0]
    /\ UNCHANGED <<redis, redisLeft, db, left, sets, before, stale, asked, copying, limits>>

(* _with_retry repeats an upsert whose connection broke, although it may   *)
(* have taken effect; when it gives up, that is only logged.               *)
Upsert(p, v) ==
    /\ v \in upserts[p]
    /\ \/ /\ db' = v
          /\ upserts' = [upserts EXCEPT ![p] = @ \ {v}]
          /\ UNCHANGED faults
       \/ /\ Fault
          /\ db' \in {db, v}
          /\ upserts' \in {upserts, [upserts EXCEPT ![p] = @ \ {v}]}
    /\ UNCHANGED <<critical, client, redis, redisLeft, mem, clock, locals, restarts>>

----------------------------------------------------------------------------
(* get: Redis, then the dictionary, then the row, which fills the others.  *)

Return(t, v) ==
    /\ pc' = [pc EXCEPT ![t] = "idle"]
    /\ reg' = [reg EXCEPT ![t] = v]

Goto(t, l) == pc' = [pc EXCEPT ![t] = l] /\ UNCHANGED reg

\* What the get that begins may not return, for either property.
Ask(t) ==
    /\ stale' = [stale EXCEPT ![t] = Superseded]
    /\ asked' = [asked EXCEPT ![t] = LongExpired]

\* Mutant: the dictionary is asked first.
GetRedisLast(t) ==
    /\ pc[t] = "idle"
    /\ Ask(t)
    /\ Goto(t, "getMem")
    /\ UNCHANGED <<tiers, clock, copying, limits>>

GetRedis(t) ==
    /\ pc[t] = "idle"
    /\ Ask(t)
    /\ \/ /\ client[Home[t]] /\ redis # 0
          /\ Return(t, redis)
          /\ UNCHANGED faults
       \/ /\ ~client[Home[t]] \/ redis = 0
          /\ Goto(t, "getMem")
          /\ UNCHANGED faults
       \/ /\ client[Home[t]] /\ Fault
          /\ Goto(t, "getMem")
    /\ UNCHANGED <<critical, client, tiers, clock, copying, restarts>>

GetMem(t) ==
    /\ pc[t] = "getMem"
    /\ LET v == Live(mem[Home[t]])
       IN  IF v # 0 THEN Return(t, v) /\ UNCHANGED mem
           ELSE Goto(t, "getRow") /\ mem' = [mem EXCEPT ![Home[t]] = 0]
    /\ UNCHANGED <<redis, redisLeft, db, upserts, clock, stale, asked, copying, limits>>

\* Mutant: the row's expires_at is not looked at.
GetRowUnchecked(t) ==
    /\ pc[t] = "getRow"
    /\ IF db = 0 THEN Return(t, 0)
       ELSE pc' = [pc EXCEPT ![t] = "fillMem"] /\ reg' = [reg EXCEPT ![t] = db]
    /\ UNCHANGED <<tiers, clock, stale, asked, copying, limits>>

\* An expired row will be deleted; a failing select reads as no row.
GetRow(t) ==
    /\ pc[t] = "getRow"
    /\ \/ db = 0 /\ Return(t, 0) /\ UNCHANGED faults
       \/ RowExpired /\ Goto(t, "deleteRow") /\ UNCHANGED faults
       \/ /\ db # 0 /\ ~RowExpired
          /\ pc' = [pc EXCEPT ![t] = "fillMem"]
          /\ reg' = [reg EXCEPT ![t] = db]
          /\ UNCHANGED faults
       \/ Fault /\ Return(t, 0)
    /\ UNCHANGED <<critical, client, tiers, clock, stale, asked, copying, restarts>>

\* The row is deleted by its key, whatever it holds by now.
DeleteRow(t) ==
    /\ pc[t] = "deleteRow"
    /\ \/ db' = 0 /\ UNCHANGED faults
       \/ db' \in {0, db} /\ Fault
    /\ Return(t, 0)
    /\ UNCHANGED <<critical, client, redis, redisLeft, mem, upserts, clock, stale, asked,
                   copying, restarts>>

\* The dictionary takes over expires_at; for Redis the rest of the TTL is
\* computed anew, by a clock that may have passed expires_at by now.
FillMem(t) ==
    /\ pc[t] = "fillMem"
    /\ mem' = [mem EXCEPT ![Home[t]] = reg[t]]
    /\ IF client[Home[t]]
       THEN /\ Goto(t, "fillRedis")
            /\ ttl' = [ttl EXCEPT ![t] = WholeSeconds(left[reg[t]])]
            /\ UNCHANGED busy
       ELSE Return(t, reg[t]) /\ busy' = [busy EXCEPT ![t] = 0] /\ UNCHANGED ttl
    /\ UNCHANGED <<redis, redisLeft, db, upserts, clock, stale, asked, limits>>

FillRedis(t) ==
    /\ pc[t] = "fillRedis"
    /\ \/ Setex(reg[t], ttl[t]) /\ UNCHANGED faults
       \/ (Setex(reg[t], ttl[t]) \/ UNCHANGED <<redis, redisLeft>>) /\ Fault
    /\ Return(t, reg[t])
    /\ ttl' = [ttl EXCEPT ![t] = 0]
    /\ busy' = [busy EXCEPT ![t] = 0]
    /\ UNCHANGED <<critical, client, mem, db, upserts, clock, stale, asked, restarts>>

----------------------------------------------------------------------------
(* clear_expired, at the start of the API process: the dictionary, then    *)
(* the row, which is selected by expires_at and then deleted by its id (an *)
(* upsert in between keeps the id).                                        *)

ClearMem(t) ==
    /\ pc[t] = "idle"
    /\ LET p == Home[t]
       IN  mem' = [mem EXCEPT ![p] = Live(@)]
    /\ IF RowExpired
       THEN pc' = [pc EXCEPT ![t] = "clearRow"]
       ELSE UNCHANGED pc
    /\ reg' = [reg EXCEPT ![t] = 0]
    /\ NoGet(t)
    /\ UNCHANGED <<redis, redisLeft, db, upserts, clock, copying, limits>>

ClearRow(t) ==
    /\ pc[t] = "clearRow"
    /\ \/ db' = 0 /\ UNCHANGED faults
       \/ db' \in {0, db} /\ Fault
    /\ Return(t, 0)
    /\ UNCHANGED <<critical, client, redis, redisLeft, mem, upserts, clock, stale, asked,
                   copying, restarts>>

----------------------------------------------------------------------------
Copying(t) == pc[t] \in {"fillMem", "fillRedis"}

(* Time passes.  No thread takes more than MaxBusy ticks from reading the  *)
(* row to the SETEX of its copy.                                           *)
Tick ==
    /\ sets > 0
    /\ \A t \in Threads : Copying(t) => busy[t] < MaxBusy
    /\ left' = [v \in Versions |->
                  IF v <= sets /\ left[v] > -Grace THEN left[v] - 1 ELSE left[v]]
    /\ IF redisLeft > 1 THEN Setex(redis, redisLeft - 1) ELSE Setex(0, 0)
    /\ busy' = [t \in Threads |-> IF Copying(t) THEN busy[t] + 1 ELSE busy[t]]
    /\ UNCHANGED <<mem, db, upserts, sets, before, complete, pc, reg, stale, asked, ttl, limits>>

\* A process dies and comes back: its dictionary and its threads are lost.
Restart(p) ==
    /\ restarts < MaxRestarts
    /\ restarts' = restarts + 1
    /\ mem' = [mem EXCEPT ![p] = 0]
    /\ upserts' = [upserts EXCEPT ![p] = {}]
    /\ pc' = [t \in Threads |-> IF Home[t] = p THEN "idle" ELSE pc[t]]
    /\ reg' = [t \in Threads |-> IF Home[t] = p THEN 0 ELSE reg[t]]
    /\ ttl' = [t \in Threads |-> IF Home[t] = p THEN 0 ELSE ttl[t]]
    /\ busy' = [t \in Threads |-> IF Home[t] = p THEN 0 ELSE busy[t]]
    /\ stale' = [t \in Threads |-> IF Home[t] = p THEN {} ELSE stale[t]]
    /\ asked' = [t \in Threads |-> IF Home[t] = p THEN {} ELSE asked[t]]
    /\ UNCHANGED <<critical, client, redis, redisLeft, db, clock, faults>>

Set(t) == SetRedis(t) \/ SetMem(t)
Get(t) ==
    \/ GetRedis(t) \/ GetMem(t) \/ GetRow(t)
    \/ DeleteRow(t) \/ FillMem(t) \/ FillRedis(t)
Clear(t) == ClearMem(t) \/ ClearRow(t)

Next ==
    \/ \E t \in Threads : Set(t) \/ Get(t) \/ Clear(t)
    \/ \E p \in Procs : Restart(p) \/ \E v \in Versions : Upsert(p, v)
    \/ Tick

Spec == Init /\ [][Next]_vars

----------------------------------------------------------------------------
(* Properties.                                                             *)

PcValues ==
    {"idle", "setMem", "getMem", "getRow", "deleteRow", "fillMem", "fillRedis", "clearRow"}

TypeOK ==
    /\ critical \in BOOLEAN
    /\ client \in [Procs -> BOOLEAN]
    /\ redis \in 0..sets
    /\ redisLeft \in 0..Ttl
    /\ mem \in [Procs -> 0..sets]
    /\ db \in 0..sets
    /\ upserts \in [Procs -> SUBSET (1..sets)]
    /\ sets \in 0..MaxSets
    /\ left \in [Versions -> -Grace..Ttl]
    /\ before \in [Versions -> SUBSET Versions]
    /\ complete \in SUBSET (1..sets)
    /\ pc \in [Threads -> PcValues]
    /\ reg \in [Threads -> 0..sets]
    /\ stale \in [Threads -> SUBSET Versions]
    /\ asked \in [Threads -> SUBSET Versions]
    /\ ttl \in [Threads -> 0..Ttl]
    /\ busy \in [Threads -> 0..MaxBusy]
    /\ faults \in 0..MaxFaults
    /\ restarts \in 0..MaxRestarts

(* While every process reaches Redis and no command fails, a get of a key  *)
(* without a row in Supabase never returns a value that a set, by any      *)
(* process, had overwritten before the get began: expiry, the dictionaries *)
(* of other processes and restarts notwithstanding.                        *)
ReadIsRegular ==
    ~critical /\ faults = 0 /\ (\A p \in Procs : client[p])
        => \A t \in Threads : pc[t] = "idle" => reg[t] \notin stale[t]

(* Whatever fails: a get never returns a value whose expires_at was more   *)
(* than the time of a set or get and one second past when the get began,   *)
(* also when it was copied from the row, which rounds its rest up to a     *)
(* second, or the copy lives on in Redis while its row is already deleted. *)
ReadNotExpired ==
    \A t \in Threads : pc[t] = "idle" => reg[t] \notin asked[t]
=============================================================================
