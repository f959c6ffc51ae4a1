-------------------------- MODULE OvernightProofs ---------------------------
(***************************************************************************)
(* The overnight logs keep their order and, as long as no two jobs meet,   *)
(* everything: for any processes, threads, symbols and bounds.             *)
(*                                                                         *)
(*   TInv  the types, and what a job at work carries;                      *)
(*   HInv  the logs and what jobs have read of them lie, in order, within  *)
(*         the history of what was bought;                                 *)
(*   UInv  no pick is bought twice: a scan's number is its own;            *)
(*   NInv  with one store and while no two jobs have met: one at most is   *)
(*         between its read and its write, what it has read is there       *)
(*         still, and the logs are whole.                                  *)
(***************************************************************************)
EXTENDS Overnight, SequenceTheorems, FiniteSetTheorems, TLAPS

(* Sequences, and the values of the cache.                                 *)

LEMMA BoundsAre ==
    /\ Home \in [Threads -> Procs] /\ Api \in Procs
    /\ MaxTime \in Nat /\ MaxLog \in Nat /\ MaxLog >= 1 /\ MaxScans \in Nat /\ MaxChecks \in Nat
  BY OvernightBounds

LEMMA LastOfIs ==
    ASSUME NEW E, NEW s \in Seq(E), NEW n \in Nat
    PROVE  /\ LastOf(s, n) \in Seq(E)
           /\ Len(LastOf(s, n)) = IF Len(s) <= n THEN Len(s) ELSE n
           /\ \A i \in 1..Len(LastOf(s, n)) : LastOf(s, n)[i] = s[Len(s) - Len(LastOf(s, n)) + i]
<1>1. Len(s) \in Nat
  OBVIOUS
<1>2. CASE Len(s) <= n
  BY <1>1, <1>2 DEF LastOf
<1>3. CASE Len(s) > n
  <2> DEFINE m == Len(s) - n + 1
  <2>1. /\ m \in Int /\ Len(s) \in Int /\ Len(s) - m + 1 = n
        /\ (IF m <= Len(s) THEN Len(s) - m + 1 ELSE 0) = n
    BY <1>1, <1>3
  <2>2. \A i \in m..Len(s) : s[i] \in E
    BY <1>1, <1>3
  <2>3. LastOf(s, n) = SubSeq(s, m, Len(s))
    BY <1>1, <1>3 DEF LastOf
  <2> HIDE DEF m
  <2>4. /\ SubSeq(s, m, Len(s)) \in Seq(E)
        /\ Len(SubSeq(s, m, Len(s))) = IF m <= Len(s) THEN Len(s) - m + 1 ELSE 0
        /\ \A i \in 1..Len(s) - m + 1 : SubSeq(s, m, Len(s))[i] = s[m + i - 1]
    BY <2>1, <2>2, SubSeqProperties
  <2>5. /\ LastOf(s, n) \in Seq(E) /\ Len(LastOf(s, n)) = n
        /\ \A i \in 1..n : LastOf(s, n)[i] = s[m + i - 1]
    BY <2>1, <2>3, <2>4
  <2>6. \A i \in 1..n : m + i - 1 = Len(s) - n + i
    BY <1>1 DEF m
  <2> QED BY <1>1, <1>3, <2>5, <2>6
<1> QED BY <1>1, <1>2, <1>3

LEMMA WrittenIs ==
    ASSUME NEW V, NEW f \in [Procs -> V], NEW v \in V, NEW p \in Procs
    PROVE  /\ Written(f, p, v) \in [Procs -> V]
           /\ \A q \in Procs : Written(f, p, v)[q] \in {v, f[q]}
           /\ shared => \A q \in Procs : Written(f, p, v)[q] = v
  BY DEF Written

\* A finite set is listed without repetition.
LEMMA ListIs ==
    ASSUME NEW S, IsFiniteSet(S)
    PROVE  /\ Cardinality(S) \in Nat
           /\ SetToSeq(S) \in [1..Cardinality(S) -> S]
           /\ \A i, j \in 1..Cardinality(S) : SetToSeq(S)[i] = SetToSeq(S)[j] => i = j
<1>1. Cardinality(S) \in Nat /\ ExistsBijection(1..Cardinality(S), S)
  BY FS_CardinalityType
<1>2. \E f \in [1..Cardinality(S) -> S] : IsInjective(f)
  BY <1>1 DEF ExistsBijection, Bijection, Injection
<1>3. SetToSeq(S) \in [1..Cardinality(S) -> S] /\ IsInjective(SetToSeq(S))
  BY <1>2 DEF SetToSeq
<1> QED BY <1>1, <1>3 DEF IsInjective

----------------------------------------------------------------------------
(* Types.                                                                  *)

ScanKinds == {"manual", "stocks", "crypto"}
OutcomeSet == [at : -1..MaxTime, won : BOOLEAN, error : BOOLEAN]

Jobs ==
    [kind : ScanKinds \cup {"none", "check"}, scan : 0..MaxScans, buys : SUBSET Symbols,
     priced : SUBSET Symbols, seen : Seq(Entries), bills : SUBSET (1..MaxScans)]

\* A scan that has its answer and has not logged it.
Scanning(t) == pc[t] \in {"answered", "billed", "parsed", "read"}

Pcs == {"idle", "answered", "billed", "parsed", "read", "resolved"}

DataTypes ==
    /\ now \in 0..MaxTime /\ shared \in BOOLEAN /\ alone \in BOOLEAN
    /\ log \in [Procs -> Seq(Entries)] /\ \A p \in Procs : Len(log[p]) <= MaxLog
    /\ costs \in [Procs -> SUBSET (1..MaxScans)] /\ charged \subseteq 1..MaxScans
    /\ checks \in 0..MaxChecks /\ bought \in Seq(Entries)

JobTypes ==
    /\ pc \in [Threads -> Pcs] /\ job \in [Threads -> Jobs] /\ scans \in 0..MaxScans
    /\ \A t \in Threads :
          /\ Scanning(t) => job[t].kind \in ScanKinds /\ job[t].scan \in 1..scans
          /\ pc[t] = "resolved" => Len(job[t].seen) <= MaxLog

TInv == DataTypes /\ JobTypes

LEMMA NoJobIs == NoJob \in Jobs /\ <<>> \in Seq(Entries)
<1>1. <<>> \in Seq(Entries)
  OBVIOUS
<1>2. 0 \in 0..MaxScans
  BY BoundsAre
<1> QED BY <1>1, <1>2 DEF NoJob, Jobs

LEMMA InitialTypes == Init => TInv
<1> SUFFICES ASSUME Init PROVE TInv
  OBVIOUS
<1>1. now \in 0..MaxTime /\ scans \in 0..MaxScans /\ checks \in 0..MaxChecks
  BY BoundsAre DEF Init
<1>2. log \in [Procs -> Seq(Entries)] /\ \A p \in Procs : Len(log[p]) <= MaxLog
  BY NoJobIs, BoundsAre DEF Init
<1>3. costs \in [Procs -> SUBSET (1..MaxScans)] /\ charged \subseteq 1..MaxScans
  BY DEF Init
<1>4. pc \in [Threads -> Pcs] /\ job \in [Threads -> Jobs]
  BY NoJobIs DEF Init, Pcs
<1>5. \A t \in Threads : pc[t] = "idle"
  BY DEF Init
<1>6. shared \in BOOLEAN /\ alone \in BOOLEAN /\ bought \in Seq(Entries)
  BY NoJobIs DEF Init
<1>7. DataTypes
  BY <1>1, <1>2, <1>3, <1>6 DEF DataTypes
<1>8. JobTypes
  BY <1>1, <1>4, <1>5 DEF JobTypes, Scanning
<1> QED BY <1>7, <1>8 DEF TInv

\* The picks a scan logs.
New(t) == Logged(t, job[t].buys \cap Stocks) \o Logged(t, job[t].buys \cap Coins)

LEMMA OutcomesAre == Pending \in OutcomeSet /\ NoPrice \in OutcomeSet /\ Pending # NoPrice
  BY BoundsAre DEF Pending, NoPrice, OutcomeSet

LEMMA EntryIs ==
    ASSUME NEW A, NEW B, NEW C, NEW D, NEW E, NEW F,
           NEW a \in A, NEW b \in B, NEW c \in C, NEW d \in D, NEW e \in E, NEW f \in F
    PROVE  [scan |-> a, kind |-> b, symbol |-> c, at |-> d, priced |-> e, outcome |-> f]
              \in [scan : A, kind : B, symbol : C, at : D, priced : E, outcome : F]
  OBVIOUS

LEMMA PickIs ==
    ASSUME TInv, NEW t \in Threads, Scanning(t), NEW s \in Symbols
    PROVE  /\ Pick(t, s) \in Entries
           /\ Pick(t, s).scan = job[t].scan /\ Pick(t, s).symbol = s /\ Pick(t, s).outcome = Pending
<1>1. job[t].scan \in 1..MaxScans /\ job[t].kind \in ScanKinds /\ now \in 0..MaxTime
  <2>1. /\ job[t].scan \in 1..scans /\ scans \in 0..MaxScans /\ job[t].kind \in ScanKinds
        /\ now \in 0..MaxTime
    BY DEF TInv, DataTypes, JobTypes
  <2> QED BY <2>1, BoundsAre
<1>2. (s \in job[t].priced) \in BOOLEAN
  OBVIOUS
<1>3. Pending \in OutcomeSet
  BY OutcomesAre
<1> DEFINE b == s \in job[t].priced
<1>4. b \in BOOLEAN
  BY <1>2
<1> HIDE DEF b
<1>5. [scan |-> job[t].scan, kind |-> job[t].kind, symbol |-> s, at |-> now,
       priced |-> b, outcome |-> Pending] \in Entries
  <2>1. Entries = [scan : 1..MaxScans, kind : ScanKinds, symbol : Symbols, at : 0..MaxTime,
                   priced : BOOLEAN, outcome : OutcomeSet]
    BY DEF Entries, ScanKinds, OutcomeSet
  <2> QED BY <1>1, <1>3, <1>4, <2>1, EntryIs
<1>6. Pick(t, s) = [scan |-> job[t].scan, kind |-> job[t].kind, symbol |-> s, at |-> now,
                    priced |-> b, outcome |-> Pending]
  BY DEF Pick, b
<1> QED BY <1>5, <1>6

LEMMA LoggedIs ==
    ASSUME TInv, NEW t \in Threads, Scanning(t), NEW S \in SUBSET Symbols, IsFiniteSet(S)
    PROVE  /\ Logged(t, S) \in Seq(Entries)
           /\ \A i \in 1..Len(Logged(t, S)) :
                 /\ Logged(t, S)[i].scan = job[t].scan
                 /\ Logged(t, S)[i].symbol \in S
           /\ \A i, j \in 1..Len(Logged(t, S)) :
                 Logged(t, S)[i].symbol = Logged(t, S)[j].symbol => i = j
<1> DEFINE n == Cardinality(S)
           f == SetToSeq(S)
<1>1. n \in Nat /\ f \in [1..n -> S] /\ \A i, j \in 1..n : f[i] = f[j] => i = j
  BY ListIs
<1>2. Logged(t, S) = [i \in 1..n |-> Pick(t, f[i])]
  BY DEF Logged
<1> HIDE DEF n, f
<1>3. \A i \in 1..n : /\ Pick(t, f[i]) \in Entries
                      /\ Pick(t, f[i]).scan = job[t].scan /\ Pick(t, f[i]).symbol = f[i]
  BY <1>1, PickIs
<1>4. Logged(t, S) \in Seq(Entries) /\ Len(Logged(t, S)) = n
      /\ \A i \in 1..n : Logged(t, S)[i] = Pick(t, f[i])
  <2> DEFINE g == [i \in 1..n |-> Pick(t, f[i])]
  <2>1. g \in [1..n -> Entries] /\ \A i \in 1..n : g[i] = Pick(t, f[i])
    BY <1>3
  <2> HIDE DEF g
  <2>2. g \in Seq(Entries) /\ Len(g) = n
    BY <1>1, <2>1
  <2> QED BY <1>2, <2>1, <2>2 DEF g
<1> QED BY <1>1, <1>3, <1>4

LEMMA NewIs ==
    ASSUME TInv, NEW t \in Threads, Scanning(t)
    PROVE  /\ New(t) \in Seq(Entries)
           /\ \A i \in 1..Len(New(t)) : New(t)[i].scan = job[t].scan
           /\ \A i, j \in 1..Len(New(t)) : New(t)[i].symbol = New(t)[j].symbol => i = j
<1> DEFINE A == job[t].buys \cap Stocks
           B == job[t].buys \cap Coins
           a == Logged(t, A)
           b == Logged(t, B)
<1>1. A \in SUBSET Symbols /\ B \in SUBSET Symbols /\ A \cap B = {} /\ IsFiniteSet(A) /\ IsFiniteSet(B)
  BY OvernightBounds, FS_Subset DEF Symbols
<1> HIDE DEF A, B
<1>2. /\ a \in Seq(Entries)
      /\ \A i \in 1..Len(a) : a[i].scan = job[t].scan /\ a[i].symbol \in A
      /\ \A i, j \in 1..Len(a) : a[i].symbol = a[j].symbol => i = j
  BY <1>1, LoggedIs
<1>3. /\ b \in Seq(Entries)
      /\ \A i \in 1..Len(b) : b[i].scan = job[t].scan /\ b[i].symbol \in B
      /\ \A i, j \in 1..Len(b) : b[i].symbol = b[j].symbol => i = j
  BY <1>1, LoggedIs
<1>4. New(t) = a \o b
  BY DEF New, A, B
<1> HIDE DEF a, b
<1> DEFINE c == a \o b
<1>5. /\ Len(a) \in Nat /\ Len(b) \in Nat
      /\ c \in Seq(Entries) /\ Len(c) = Len(a) + Len(b)
      /\ \A i \in 1..Len(a) + Len(b) : c[i] = IF i <= Len(a) THEN a[i] ELSE b[i - Len(a)]
  BY <1>2, <1>3
<1> HIDE DEF c
<1>6. \A i \in 1..Len(c) : \/ i \in 1..Len(a) /\ c[i] = a[i]
                           \/ i - Len(a) \in 1..Len(b) /\ c[i] = b[i - Len(a)]
  BY <1>5
<1>7. \A i \in 1..Len(c) : c[i].scan = job[t].scan
  BY <1>2, <1>3, <1>6
<1>8. ASSUME NEW i \in 1..Len(c), NEW j \in 1..Len(c), c[i].symbol = c[j].symbol PROVE i = j
  <2>1. CASE i \in 1..Len(a) /\ c[i] = a[i] /\ j \in 1..Len(a) /\ c[j] = a[j]
    BY <1>2, <1>8, <2>1
  <2>2. CASE /\ i - Len(a) \in 1..Len(b) /\ c[i] = b[i - Len(a)]
             /\ j - Len(a) \in 1..Len(b) /\ c[j] = b[j - Len(a)]
    <3>1. i - Len(a) = j - Len(a)
      BY <1>3, <1>8, <2>2
    <3> QED BY <1>5, <3>1
  <2>3. CASE \/ i \in 1..Len(a) /\ c[i] = a[i] /\ j - Len(a) \in 1..Len(b) /\ c[j] = b[j - Len(a)]
             \/ j \in 1..Len(a) /\ c[j] = a[j] /\ i - Len(a) \in 1..Len(b) /\ c[i] = b[i - Len(a)]
    BY <1>1, <1>2, <1>3, <1>8, <2>3
  <2> QED BY <1>6, <2>1, <2>2, <2>3
<1> QED BY <1>4, <1>5, <1>7, <1>8 DEF c

\* What pricing comes to.
LEMMA OutcomesTyped ==
    ASSUME TInv, NEW p \in Entries
    PROVE  /\ Outcomes(p) \subseteq OutcomeSet
           /\ p.outcome # Pending => Outcomes(p) = {p.outcome}
<1>1. now \in Nat /\ now <= MaxTime
  BY BoundsAre DEF TInv, DataTypes
<1>2. p.outcome \in OutcomeSet
  BY DEF Entries, OutcomeSet
<1>3. ASSUME Bars # {} PROVE 2 * LatestOpen \in 0..MaxTime
  <2>1. Day \in Nat /\ 2 * Day <= now /\ now < 2 * Day + 2
    BY <1>1 DEF Day
  <2>2. Bars \subseteq Nat /\ \A d \in Bars : d >= Day - 2 /\ d <= Day /\ 2 * d <= now
    <3>1. ASSUME NEW d \in Bars PROVE d \in Nat /\ d >= Day - 2 /\ 2 * d <= now
      BY OvernightBounds DEF Bars
    <3>2. ASSUME NEW d \in Nat, 2 * d <= now PROVE d <= Day
      BY <1>1, <2>1, <3>2
    <3> QED BY <3>1, <3>2
  <2>3. \E d \in Bars : \A e \in Bars : e <= d
    <3>1. CASE Day \in Bars
      BY <2>1, <2>2, <3>1
    <3>2. CASE Day \notin Bars /\ Day - 1 \in Bars
      <4>1. \A e \in Bars : e <= Day - 1
        BY <2>1, <2>2, <3>2
      <4> QED BY <3>2, <4>1
    <3>3. CASE Day \notin Bars /\ Day - 1 \notin Bars
      <4>1. \A e \in Bars : e = Day - 2
        BY <2>1, <2>2, <3>3
      <4> QED BY <1>3, <2>1, <2>2, <4>1
    <3> QED BY <3>1, <3>2, <3>3
  <2>4. LatestOpen \in Bars
    BY <2>3 DEF LatestOpen
  <2>5. LatestOpen \in Nat /\ 2 * LatestOpen <= now
    BY <2>2, <2>4
  <2> QED BY <1>1, <2>5, BoundsAre
<1>4. Priced(p) \subseteq OutcomeSet
  <2> DEFINE At == IF p.symbol \in Coins THEN {now} ELSE IF Bars = {} THEN {} ELSE {2 * LatestOpen}
  <2>1. At \subseteq -1..MaxTime
    <3>1. now \in -1..MaxTime /\ (Bars # {} => 2 * LatestOpen \in -1..MaxTime)
      BY <1>1, <1>3, BoundsAre
    <3> QED BY <3>1
  <2> HIDE DEF At
  <2>2. [at : At, won : BOOLEAN, error : {FALSE}] \subseteq OutcomeSet
    BY <2>1 DEF OutcomeSet
  <2>3. Priced(p) = {NoPrice} \/ Priced(p) = {Pending} \cup [at : At, won : BOOLEAN, error : {FALSE}]
    BY DEF Priced, At
  <2> QED BY <2>2, <2>3, OutcomesAre
<1> QED BY <1>2, <1>4 DEF Outcomes

LEMMA EntryOutcome ==
    ASSUME NEW e \in Entries, NEW o \in OutcomeSet
    PROVE  /\ [e EXCEPT !.outcome = o] \in Entries
           /\ SamePick([e EXCEPT !.outcome = o], e)
           /\ [e EXCEPT !.outcome = o].outcome = o
  BY DEF Entries, OutcomeSet, SamePick

\* After a check a log has the same picks; what had an outcome has it still.
Resolves(s, l) ==
    /\ Len(s) = Len(l)
    /\ \A i \in 1..Len(l) :
          /\ SamePick(s[i], l[i])
          /\ l[i].outcome # Pending => s[i].outcome = l[i].outcome

LEMMA CheckIs ==
    ASSUME TInv, NEW t \in Threads, CheckOutcomes(t)
    PROVE  \E r \in Jobs :
              /\ job' = [job EXCEPT ![t] = r] /\ r.kind = "check"
              /\ Resolves(r.seen, log[Home[t]]) /\ Len(r.seen) <= MaxLog
<1> DEFINE l == log[Home[t]]
<1>1. l \in Seq(Entries) /\ Len(l) \in Nat /\ Len(l) <= MaxLog
  BY BoundsAre DEF TInv, DataTypes
<1>2. PICK res \in [1..Len(l) -> UNION {Outcomes(p) : p \in ToSet(l)}] :
        /\ \A i \in DOMAIN res : res[i] \in Outcomes(l[i])
        /\ job' = [job EXCEPT ![t] = [NoJob EXCEPT !.kind = "check",
                       !.seen = [i \in DOMAIN res |-> [l[i] EXCEPT !.outcome = res[i]]]]]
  BY DEF CheckOutcomes
<1> HIDE DEF l
<1> DEFINE seen == [i \in 1..Len(l) |-> [l[i] EXCEPT !.outcome = res[i]]]
           r == [NoJob EXCEPT !.kind = "check", !.seen = seen]
<1>3. DOMAIN res = 1..Len(l)
  BY <1>2
<1>4. job' = [job EXCEPT ![t] = r]
  BY <1>2, <1>3
<1>5. ASSUME NEW i \in 1..Len(l)
      PROVE  /\ seen[i] \in Entries /\ SamePick(seen[i], l[i])
             /\ l[i].outcome # Pending => seen[i].outcome = l[i].outcome
  <2>1. l[i] \in Entries /\ res[i] \in Outcomes(l[i])
    BY <1>1, <1>2, <1>3
  <2>2. res[i] \in OutcomeSet /\ (l[i].outcome # Pending => res[i] = l[i].outcome)
    BY <2>1, OutcomesTyped
  <2> QED BY <2>1, <2>2, EntryOutcome
<1>6. seen \in Seq(Entries) /\ Len(seen) = Len(l)
  <2>1. seen \in [1..Len(l) -> Entries]
    BY <1>5
  <2> HIDE DEF seen
  <2> QED BY <1>1, <2>1
<1> HIDE DEF seen
<1>7. r \in Jobs /\ r.kind = "check" /\ r.seen = seen
  BY <1>6, NoJobIs DEF Jobs, NoJob
<1> HIDE DEF r
<1> QED BY <1>1, <1>4, <1>5, <1>6, <1>7 DEF Resolves, l

LEMMA ScanIs ==
    ASSUME TInv, NEW t \in Threads, ManualScan(t) \/ ScheduledStocks(t) \/ ScheduledCrypto(t)
    PROVE  /\ scans < MaxScans /\ scans' = scans + 1 /\ pc[t] = "idle"
           /\ \E r \in Jobs :
                 /\ job' = [job EXCEPT ![t] = r] /\ r.kind \in ScanKinds /\ r.scan = scans + 1
           /\ pc' = [pc EXCEPT ![t] = "answered"]
           /\ UNCHANGED <<now, shared, log, costs, checks, bought, charged, alone>>
<1>1. PICK kind \in ScanKinds : \E S, C : Scan(t, kind, S, C)
  BY DEF ManualScan, ScheduledStocks, ScheduledCrypto, ScanKinds
<1>2. PICK S, C : Scan(t, kind, S, C)
  BY <1>1
<1>3. PICK sent \in S, pairs \in C, buys \in SUBSET Symbols :
          job' = [job EXCEPT ![t] =
              [kind |-> kind, scan |-> scans + 1, buys |-> buys, seen |-> <<>>, bills |-> {},
               priced |-> InjectEntryPrices(kind, buys, sent \cup pairs)]]
  BY <1>2 DEF Scan
<1> DEFINE priced == InjectEntryPrices(kind, buys, sent \cup pairs)
           n == scans + 1
           r == [kind |-> kind, scan |-> n, buys |-> buys, seen |-> <<>>, bills |-> {},
                 priced |-> priced]
<1>4. priced \in SUBSET Symbols
  BY DEF InjectEntryPrices
<1>5. scans \in 0..MaxScans /\ scans < MaxScans /\ n \in 0..MaxScans
  BY <1>2, BoundsAre DEF Scan, TInv, JobTypes
<1> HIDE DEF priced, n
<1>6. r \in Jobs
  BY <1>4, <1>5, NoJobIs DEF Jobs
<1>7. job' = [job EXCEPT ![t] = r] /\ r.kind \in ScanKinds /\ r.scan = scans + 1
  BY <1>3 DEF priced, n
<1> HIDE DEF r
<1>8. \E x \in Jobs : job' = [job EXCEPT ![t] = x] /\ x.kind \in ScanKinds /\ x.scan = scans + 1
  BY <1>6, <1>7
<1> QED BY <1>2, <1>5, <1>8 DEF Scan

\* The job of one thread changes.
LEMMA JobTyped ==
    ASSUME TInv, NEW t \in Threads, NEW r \in Jobs, NEW c \in Pcs,
           job' = [job EXCEPT ![t] = r], pc' = [pc EXCEPT ![t] = c],
           scans' \in scans..MaxScans,
           c \in {"answered", "billed", "parsed", "read"} => r.kind \in ScanKinds /\ r.scan \in 1..scans',
           c = "resolved" => Len(r.seen) <= MaxLog
    PROVE  JobTypes'
<1>1. /\ pc' \in [Threads -> Pcs] /\ job' \in [Threads -> Jobs]
      /\ \A u \in Threads : /\ job'[u] = IF u = t THEN r ELSE job[u]
                            /\ pc'[u] = IF u = t THEN c ELSE pc[u]
  BY DEF TInv, JobTypes
<1>2. scans \in 0..MaxScans /\ scans' \in 0..MaxScans /\ scans <= scans'
  BY BoundsAre DEF TInv, JobTypes
<1>3. ASSUME NEW u \in Threads \ {t}
      PROVE  /\ Scanning(u)' => job'[u].kind \in ScanKinds /\ job'[u].scan \in 1..scans'
             /\ pc'[u] = "resolved" => Len(job'[u].seen) <= MaxLog
  <2>1. job'[u] = job[u] /\ pc'[u] = pc[u]
    BY <1>1
  <2>2. /\ Scanning(u) => job[u].kind \in ScanKinds /\ job[u].scan \in 1..scans
        /\ pc[u] = "resolved" => Len(job[u].seen) <= MaxLog
    BY DEF TInv, JobTypes
  <2>3. 1..scans \subseteq 1..scans'
    BY <1>2
  <2> QED BY <2>1, <2>2, <2>3 DEF Scanning
<1>4. /\ Scanning(t)' => job'[t].kind \in ScanKinds /\ job'[t].scan \in 1..scans'
      /\ pc'[t] = "resolved" => Len(job'[t].seen) <= MaxLog
  BY <1>1 DEF Scanning
<1> QED BY <1>1, <1>2, <1>3, <1>4 DEF JobTypes

LEMMA ReadCostsIs ==
    ASSUME TInv, NEW t \in Threads, ReadCosts(t)
    PROVE  \E r \in Jobs :
              /\ job' = [job EXCEPT ![t] = r] /\ pc' = [pc EXCEPT ![t] = "billed"] /\ pc[t] = "answered"
              /\ r.kind = job[t].kind /\ r.scan = job[t].scan /\ r.seen = job[t].seen
              /\ r.bills = costs[Home[t]]
<1> DEFINE r == [job[t] EXCEPT !.bills = costs[Home[t]]]
<1>1. job[t] \in Jobs /\ costs[Home[t]] \in SUBSET (1..MaxScans)
  BY BoundsAre DEF TInv, DataTypes, JobTypes
<1>2. /\ r \in Jobs /\ r.kind = job[t].kind /\ r.scan = job[t].scan /\ r.seen = job[t].seen
      /\ r.bills = costs[Home[t]]
  BY <1>1 DEF Jobs
<1>3. job' = [job EXCEPT ![t] = r] /\ pc' = [pc EXCEPT ![t] = "billed"] /\ pc[t] = "answered"
  BY DEF ReadCosts
<1> HIDE DEF r
<1> QED BY <1>2, <1>3

LEMMA ReadLogIs ==
    ASSUME TInv, NEW t \in Threads, ReadLog(t)
    PROVE  \E r \in Jobs :
              /\ job' = [job EXCEPT ![t] = r] /\ pc' = [pc EXCEPT ![t] = "read"] /\ pc[t] = "parsed"
              /\ r.kind = job[t].kind /\ r.scan = job[t].scan
              /\ r.seen = log[Home[t]]
<1> DEFINE r == [job[t] EXCEPT !.seen = log[Home[t]]]
<1>1. job[t] \in Jobs /\ log[Home[t]] \in Seq(Entries)
  BY BoundsAre DEF TInv, DataTypes, JobTypes
<1>2. /\ r \in Jobs /\ r.kind = job[t].kind /\ r.scan = job[t].scan
      /\ r.seen = log[Home[t]]
  BY <1>1 DEF Jobs
<1>3. job' = [job EXCEPT ![t] = r] /\ pc' = [pc EXCEPT ![t] = "read"] /\ pc[t] = "parsed"
  BY DEF ReadLog
<1> HIDE DEF r
<1> QED BY <1>2, <1>3

\* A scan is paid for, and its answer read, or dropped.
LEMMA WriteCostsIs ==
    ASSUME TInv, NEW t \in Threads, WriteCosts(t)
    PROVE  /\ pc[t] = "billed"
           /\ \/ job' = [job EXCEPT ![t] = job[t]] /\ pc' = [pc EXCEPT ![t] = "parsed"]
              \/ job' = [job EXCEPT ![t] = NoJob] /\ pc' = [pc EXCEPT ![t] = "idle"]
<1>1. job = [job EXCEPT ![t] = job[t]]
  BY DEF TInv, JobTypes
<1> QED BY <1>1 DEF WriteCosts

LEMMA WriteLogIs ==
    ASSUME TInv, NEW t \in Threads, WriteLog(t)
    PROVE  /\ pc[t] = "read" /\ Scanning(t) /\ job[t].seen \in Seq(Entries) /\ New(t) \in Seq(Entries)
           /\ log' = Written(log, Home[t], LastOf(job[t].seen \o New(t), MaxLog))
           /\ bought' = bought \o New(t)
           /\ LastOf(job[t].seen \o New(t), MaxLog) \in Seq(Entries)
           /\ Len(LastOf(job[t].seen \o New(t), MaxLog)) <= MaxLog
<1>1. pc[t] = "read" /\ Scanning(t) /\ job[t].seen \in Seq(Entries)
  BY DEF WriteLog, Scanning, TInv, JobTypes, Jobs
<1>2. New(t) \in Seq(Entries)
  BY <1>1, NewIs
<1>3. job[t].seen \o New(t) \in Seq(Entries)
  BY <1>1, <1>2
<1>4. /\ log' = Written(log, Home[t], LastOf(job[t].seen \o New(t), MaxLog))
      /\ bought' = bought \o New(t)
  BY DEF WriteLog, New, Extended
<1> DEFINE s == job[t].seen \o New(t)
<1>5. s \in Seq(Entries) /\ Len(s) \in Nat
  BY <1>3
<1> HIDE DEF s
<1>6. LastOf(s, MaxLog) \in Seq(Entries) /\ Len(LastOf(s, MaxLog)) <= MaxLog
  BY <1>5, LastOfIs, BoundsAre
<1> QED BY <1>1, <1>2, <1>4, <1>6 DEF s

LEMMA WriteLogTypes == ASSUME TInv, NEW t \in Threads, WriteLog(t) PROVE TInv'
<1> DEFINE v == LastOf(job[t].seen \o New(t), MaxLog)
<1>1. /\ log' = Written(log, Home[t], v) /\ bought' = bought \o New(t) /\ New(t) \in Seq(Entries)
      /\ v \in Seq(Entries) /\ Len(v) <= MaxLog
  BY WriteLogIs
<1> HIDE DEF v
<1>2. /\ log' \in [Procs -> Seq(Entries)] /\ \A p \in Procs : log'[p] \in {v, log[p]}
  BY <1>1, WrittenIs, BoundsAre DEF TInv, DataTypes
<1>3. \A p \in Procs : Len(log'[p]) <= MaxLog
  BY <1>1, <1>2 DEF TInv, DataTypes
<1>4. bought' \in Seq(Entries)
  BY <1>1 DEF TInv, DataTypes
<1>5. UNCHANGED <<now, shared, costs, scans, checks, alone, charged>>
  BY DEF WriteLog
<1>6. DataTypes'
  BY <1>2, <1>3, <1>4, <1>5 DEF TInv, DataTypes
<1>7. job' = [job EXCEPT ![t] = NoJob] /\ pc' = [pc EXCEPT ![t] = "idle"] /\ "idle" \in Pcs
  BY DEF WriteLog, Pcs
<1>8. scans' \in scans..MaxScans
  BY <1>5 DEF TInv, JobTypes
<1>9. JobTypes'
  BY <1>7, <1>8, NoJobIs, JobTyped
<1> QED BY <1>6, <1>9 DEF TInv

LEMMA WriteOutcomesTypes == ASSUME TInv, NEW t \in Threads, WriteOutcomes(t) PROVE TInv'
<1>1. job[t].seen \in Seq(Entries) /\ Len(job[t].seen) <= MaxLog
  BY DEF WriteOutcomes, TInv, JobTypes, Jobs
<1>2. /\ log' \in [Procs -> Seq(Entries)] /\ \A p \in Procs : log'[p] \in {job[t].seen, log[p]}
  BY <1>1, WrittenIs, BoundsAre DEF WriteOutcomes, TInv, DataTypes
<1>3. \A p \in Procs : Len(log'[p]) <= MaxLog
  BY <1>1, <1>2 DEF TInv, DataTypes
<1>5. UNCHANGED <<now, shared, costs, scans, checks, bought, charged, alone>>
  BY DEF WriteOutcomes
<1>6. DataTypes'
  BY <1>2, <1>3, <1>5 DEF TInv, DataTypes
<1>7. job' = [job EXCEPT ![t] = NoJob] /\ pc' = [pc EXCEPT ![t] = "idle"] /\ "idle" \in Pcs
  BY DEF WriteOutcomes, Pcs
<1>8. scans' \in scans..MaxScans
  BY <1>5 DEF TInv, JobTypes
<1>9. JobTypes'
  BY <1>7, <1>8, NoJobIs, JobTyped
<1> QED BY <1>6, <1>9 DEF TInv

LEMMA WriteCostsTypes == ASSUME TInv, NEW t \in Threads, WriteCosts(t) PROVE TInv'
<1> DEFINE v == job[t].bills \cup {job[t].scan}
<1>1. Scanning(t) /\ pc[t] = "billed" /\ job[t] \in Jobs
  BY DEF WriteCosts, Scanning, TInv, JobTypes
<1>2. job[t].scan \in 1..MaxScans /\ job[t].kind \in ScanKinds /\ job[t].scan \in 1..scans
      /\ scans \in 0..MaxScans
  <2>1. job[t].scan \in 1..scans /\ scans \in 0..MaxScans /\ job[t].kind \in ScanKinds
    BY <1>1 DEF TInv, JobTypes
  <2> QED BY <2>1, BoundsAre
<1>3. v \in SUBSET (1..MaxScans) /\ charged' \subseteq 1..MaxScans
  BY <1>1, <1>2 DEF Jobs, WriteCosts, TInv, DataTypes
<1> HIDE DEF v
<1>4. costs' = Written(costs, Home[t], v)
  BY DEF WriteCosts, v
<1>5. costs' \in [Procs -> SUBSET (1..MaxScans)]
  BY <1>3, <1>4, WrittenIs, BoundsAre DEF TInv, DataTypes
<1>6. UNCHANGED <<now, shared, log, scans, checks, bought, alone>>
  BY DEF WriteCosts
<1>7. DataTypes'
  BY <1>3, <1>5, <1>6 DEF TInv, DataTypes
<1>8. scans' \in scans..MaxScans /\ {"idle", "parsed"} \subseteq Pcs
  BY <1>2, <1>6 DEF Pcs
<1>9. CASE job' = [job EXCEPT ![t] = job[t]] /\ pc' = [pc EXCEPT ![t] = "parsed"]
  BY <1>1, <1>2, <1>6, <1>7, <1>8, <1>9, JobTyped DEF TInv
<1>10. CASE job' = [job EXCEPT ![t] = NoJob] /\ pc' = [pc EXCEPT ![t] = "idle"]
  BY <1>7, <1>8, <1>10, NoJobIs, JobTyped DEF TInv
<1> QED BY <1>9, <1>10, WriteCostsIs

\* What reads, scans and checks leave alone.
LEMMA SameData ==
    ASSUME TInv, UNCHANGED <<now, shared, log, costs, bought, charged>>, alone' \in BOOLEAN,
           checks' \in 0..MaxChecks
    PROVE  DataTypes'
  BY DEF TInv, DataTypes

LEMMA ReadTypes == ASSUME TInv, NEW t \in Threads, ReadCosts(t) \/ ReadLog(t) PROVE TInv'
<1>1. DataTypes' /\ UNCHANGED scans
  <2>1. /\ UNCHANGED <<now, shared, log, costs, scans, checks, bought, charged>>
        /\ alone' \in BOOLEAN /\ checks \in 0..MaxChecks
    BY DEF ReadCosts, ReadLog, TInv, DataTypes
  <2> QED BY <2>1, SameData
<1>2. \E r \in Jobs, c \in {"billed", "read"} :
        /\ job' = [job EXCEPT ![t] = r] /\ pc' = [pc EXCEPT ![t] = c]
        /\ r.kind = job[t].kind /\ r.scan = job[t].scan
  BY ReadCostsIs, ReadLogIs
<1>3. job[t].kind \in ScanKinds /\ job[t].scan \in 1..scans
  BY DEF ReadCosts, ReadLog, Scanning, TInv, JobTypes
<1>4. {"billed", "read"} \subseteq Pcs /\ scans' \in scans..MaxScans
  BY <1>1 DEF Pcs, TInv, JobTypes
<1>5. JobTypes'
  BY <1>1, <1>2, <1>3, <1>4, JobTyped
<1> QED BY <1>1, <1>5 DEF TInv

LEMMA ScanTypes ==
    ASSUME TInv, NEW t \in Threads, ManualScan(t) \/ ScheduledStocks(t) \/ ScheduledCrypto(t)
    PROVE  TInv'
<1>1. /\ scans < MaxScans /\ scans' = scans + 1 /\ pc' = [pc EXCEPT ![t] = "answered"]
      /\ UNCHANGED <<now, shared, log, costs, checks, bought, charged, alone>>
  BY ScanIs
<1>2. PICK r \in Jobs : job' = [job EXCEPT ![t] = r] /\ r.kind \in ScanKinds /\ r.scan = scans + 1
  BY ScanIs
<1>3. scans' \in scans..MaxScans /\ r.scan \in 1..scans' /\ "answered" \in Pcs
  BY <1>1, <1>2, BoundsAre DEF TInv, JobTypes, Pcs
<1>4. JobTypes'
  BY <1>1, <1>2, <1>3, JobTyped
<1>5. DataTypes'
  BY <1>1, SameData DEF TInv, DataTypes
<1> QED BY <1>4, <1>5 DEF TInv

LEMMA CheckTypes == ASSUME TInv, NEW t \in Threads, CheckOutcomes(t) PROVE TInv'
<1>1. PICK r \in Jobs : job' = [job EXCEPT ![t] = r] /\ Len(r.seen) <= MaxLog
  BY CheckIs
<1>2. pc' = [pc EXCEPT ![t] = "resolved"] /\ "resolved" \in Pcs /\ scans' \in scans..MaxScans
  BY DEF CheckOutcomes, Pcs, TInv, JobTypes
<1>3. JobTypes'
  BY <1>1, <1>2, JobTyped
<1>4. DataTypes'
  <2>1. /\ UNCHANGED <<now, shared, log, costs, bought, charged>>
        /\ checks < MaxChecks /\ checks' = checks + 1
        /\ alone' = (alone /\ \A u \in Threads : ~Busy(u))
    BY DEF CheckOutcomes
  <2>2. checks \in 0..MaxChecks
    BY DEF TInv, DataTypes
  <2>3. checks' \in 0..MaxChecks
    BY <2>1, <2>2, BoundsAre
  <2>4. alone' \in BOOLEAN
    BY <2>1 DEF TInv, DataTypes
  <2> QED BY <2>1, <2>3, <2>4, SameData
<1> QED BY <1>3, <1>4 DEF TInv

\* What a restart keeps of the logs.
LEMMA RestartIs ==
    ASSUME TInv, NEW p \in Procs, Restart(p)
    PROVE  /\ log' \in [Procs -> Seq(Entries)] /\ \A q \in Procs : log'[q] \in {<<>>, log[q]}
           /\ costs' \in [Procs -> SUBSET (1..MaxScans)]
           /\ shared => UNCHANGED <<log, costs, alone>>
           /\ ~shared => ~alone'
           /\ \A t \in Threads : \/ pc'[t] = "idle" /\ job'[t] = NoJob
                                 \/ pc'[t] = pc[t] /\ job'[t] = job[t]
           /\ UNCHANGED <<now, shared, scans, checks, bought, charged>>
<1>1. log' \in [Procs -> Seq(Entries)] /\ \A q \in Procs : log'[q] \in {<<>>, log[q]}
  BY NoJobIs DEF Restart, TInv, DataTypes
<1>2. costs' \in [Procs -> SUBSET (1..MaxScans)]
  BY DEF Restart, TInv, DataTypes
<1> QED BY <1>1, <1>2 DEF Restart

LEMMA RestartTypes == ASSUME TInv, NEW p \in Procs, Restart(p) PROVE TInv'
<1>1. DataTypes'
  <2>1. \A q \in Procs : Len(log'[q]) <= MaxLog
    BY RestartIs, BoundsAre DEF TInv, DataTypes
  <2>2. alone' \in BOOLEAN
    BY RestartIs DEF TInv, DataTypes, Restart
  <2> QED BY <2>1, <2>2, RestartIs DEF TInv, DataTypes
<1>2. /\ pc' = [t \in Threads |-> IF Home[t] = p THEN "idle" ELSE pc[t]]
      /\ job' = [t \in Threads |-> IF Home[t] = p THEN NoJob ELSE job[t]]
  BY DEF Restart
<1>3. pc' \in [Threads -> Pcs] /\ job' \in [Threads -> Jobs]
  BY <1>2, NoJobIs DEF TInv, JobTypes, Pcs
<1>4. ASSUME NEW t \in Threads
      PROVE  /\ Scanning(t)' => job'[t].kind \in ScanKinds /\ job'[t].scan \in 1..scans'
             /\ pc'[t] = "resolved" => Len(job'[t].seen) <= MaxLog
  BY RestartIs DEF Scanning, TInv, JobTypes
<1>5. JobTypes'
  BY <1>3, <1>4, RestartIs DEF TInv, JobTypes
<1> QED BY <1>1, <1>5 DEF TInv

LEMMA TickTypes == ASSUME TInv, Tick PROVE TInv'
<1>1. now' \in 0..MaxTime
  BY BoundsAre DEF Tick, TInv, DataTypes
<1>2. UNCHANGED <<shared, log, costs, pc, job, scans, checks, bought, charged, alone>>
  BY DEF Tick
<1> QED BY <1>1, <1>2 DEF TInv, DataTypes, JobTypes, Scanning

LEMMA TypeStep == TInv /\ [Next]_vars => TInv'
<1> SUFFICES ASSUME TInv, [Next]_vars PROVE TInv'
  OBVIOUS
<1>1. CASE UNCHANGED vars
  BY <1>1 DEF vars, TInv, DataTypes, JobTypes, Scanning
<1> QED BY <1>1, TickTypes, RestartTypes, ScanTypes, ReadTypes, WriteCostsTypes, WriteLogTypes,
           CheckTypes, WriteOutcomesTypes DEF Next

----------------------------------------------------------------------------
(* The logs are parts of what was bought.                                  *)

PlacedIn(s, b) ==
    \E place \in [1..Len(s) -> 1..Len(b)] :
        /\ \A i \in 1..Len(s) : SamePick(s[i], b[place[i]])
        /\ \A i, j \in 1..Len(s) : i < j => place[i] < place[j]

HInv ==
    /\ \A p \in Procs : PlacedIn(log[p], bought)
    /\ \A t \in Threads : pc[t] \in {"read", "resolved"} => PlacedIn(job[t].seen, bought)

LEMMA PlacedEmpty == \A b : PlacedIn(<<>>, b)
<1> TAKE b
<1> DEFINE f == [i \in 1..Len(<<>>) |-> 1]
<1>1. 1..Len(<<>>) = {}
  OBVIOUS
<1>2. f \in [1..Len(<<>>) -> 1..Len(b)]
  BY <1>1
<1> QED BY <1>1, <1>2 DEF PlacedIn

LEMMA SamePickIs ==
    /\ \A p : SamePick(p, p)
    /\ \A p, q : SamePick(p, q) => SamePick(q, p)
    /\ \A p, q, r : SamePick(p, q) /\ SamePick(q, r) => SamePick(p, r)
  BY DEF SamePick

\* A concatenation, position by position.
LEMMA ConcatIs ==
    ASSUME NEW s \in Seq(Entries), NEW w \in Seq(Entries)
    PROVE  /\ s \o w \in Seq(Entries) /\ Len(s) \in Nat /\ Len(w) \in Nat
           /\ Len(s \o w) = Len(s) + Len(w)
           /\ \A i \in 1..Len(s) : i \in 1..Len(s \o w) /\ (s \o w)[i] = s[i]
           /\ \A i \in 1..Len(w) : Len(s) + i \in 1..Len(s \o w) /\ (s \o w)[Len(s) + i] = w[i]
           /\ \A i \in 1..Len(s \o w) : i \in 1..Len(s) \/ i - Len(s) \in 1..Len(w)
  OBVIOUS

LEMMA PlacedLonger ==
    ASSUME NEW s \in Seq(Entries), NEW b \in Seq(Entries), NEW w \in Seq(Entries), PlacedIn(s, b)
    PROVE  PlacedIn(s, b \o w)
<1> DEFINE c == b \o w
<1>1. /\ Len(b) \in Nat /\ Len(c) \in Nat /\ Len(b) <= Len(c)
      /\ \A i \in 1..Len(b) : i \in 1..Len(c) /\ c[i] = b[i]
  BY ConcatIs
<1> HIDE DEF c
<1>2. PICK place \in [1..Len(s) -> 1..Len(b)] :
        /\ \A i \in 1..Len(s) : SamePick(s[i], b[place[i]])
        /\ \A i, j \in 1..Len(s) : i < j => place[i] < place[j]
  BY DEF PlacedIn
<1>3. place \in [1..Len(s) -> 1..Len(c)] /\ \A i \in 1..Len(s) : c[place[i]] = b[place[i]]
  BY <1>1, <1>2
<1>4. PlacedIn(s, c)
  BY <1>2, <1>3 DEF PlacedIn
<1> QED BY <1>4 DEF c

LEMMA PlacedConcat ==
    ASSUME NEW s \in Seq(Entries), NEW b \in Seq(Entries), NEW w \in Seq(Entries), PlacedIn(s, b)
    PROVE  PlacedIn(s \o w, b \o w)
<1> DEFINE c == b \o w
           v == s \o w
<1>1. /\ Len(b) \in Nat /\ Len(w) \in Nat /\ Len(c) = Len(b) + Len(w)
      /\ \A i \in 1..Len(b) : i \in 1..Len(c) /\ c[i] = b[i]
      /\ \A i \in 1..Len(w) : Len(b) + i \in 1..Len(c) /\ c[Len(b) + i] = w[i]
  BY ConcatIs
<1>2. /\ Len(s) \in Nat /\ Len(v) = Len(s) + Len(w)
      /\ \A i \in 1..Len(s) : v[i] = s[i]
      /\ \A i \in 1..Len(w) : v[Len(s) + i] = w[i]
  BY ConcatIs
<1> HIDE DEF c, v
<1>3. PICK place \in [1..Len(s) -> 1..Len(b)] :
        /\ \A i \in 1..Len(s) : SamePick(s[i], b[place[i]])
        /\ \A i, j \in 1..Len(s) : i < j => place[i] < place[j]
  BY DEF PlacedIn
<1> DEFINE at == [i \in 1..Len(v) |-> IF i <= Len(s) THEN place[i] ELSE Len(b) + (i - Len(s))]
<1>4. ASSUME NEW i \in 1..Len(v)
      PROVE  \/ i \in 1..Len(s) /\ at[i] = place[i] /\ place[i] \in 1..Len(b)
             \/ /\ i > Len(s) /\ i - Len(s) \in 1..Len(w)
                /\ at[i] = Len(b) + (i - Len(s))
  <2>1. CASE i <= Len(s)
    <3>1. at[i] = place[i]
      BY <2>1
    <3>2. i \in 1..Len(s)
      BY <1>2, <2>1
    <3> QED BY <1>3, <3>1, <3>2
  <2>2. CASE ~(i <= Len(s))
    <3>1. at[i] = Len(b) + (i - Len(s))
      BY <2>2
    <3>2. i > Len(s) /\ i - Len(s) \in 1..Len(w)
      BY <1>1, <1>2, <2>2
    <3> QED BY <3>1, <3>2
  <2> QED BY <2>1, <2>2
<1>5. DOMAIN at = 1..Len(v)
  OBVIOUS
<1>6. ASSUME NEW i \in 1..Len(v) PROVE at[i] \in 1..Len(c) /\ SamePick(v[i], c[at[i]])
  <2>1. CASE i \in 1..Len(s) /\ at[i] = place[i] /\ place[i] \in 1..Len(b)
    <3>1. v[i] = s[i] /\ c[place[i]] = b[place[i]] /\ place[i] \in 1..Len(c)
      BY <1>1, <1>2, <2>1
    <3> HIDE DEF at
    <3> QED BY <1>3, <2>1, <3>1
  <2>2. CASE i > Len(s) /\ i - Len(s) \in 1..Len(w) /\ at[i] = Len(b) + (i - Len(s))
    <3> DEFINE k == i - Len(s)
    <3>1. k \in 1..Len(w) /\ at[i] = Len(b) + k /\ Len(s) + k = i
      BY <1>2, <2>2
    <3> HIDE DEF k, at
    <3>2. v[i] = w[k] /\ c[at[i]] = w[k] /\ at[i] \in 1..Len(c)
      <4>1. v[Len(s) + k] = w[k] /\ c[Len(b) + k] = w[k] /\ Len(b) + k \in 1..Len(c)
        BY <1>1, <1>2, <3>1
      <4> QED BY <3>1, <4>1
    <3> QED BY <3>2, SamePickIs
  <2> HIDE DEF at
  <2> QED BY <1>4, <2>1, <2>2
<1>7. ASSUME NEW i \in 1..Len(v), NEW j \in 1..Len(v), i < j PROVE at[i] < at[j]
  <2> HIDE DEF at
  <2>1. CASE i \in 1..Len(s) /\ at[i] = place[i] /\ place[i] \in 1..Len(b)
    <3>1. CASE j \in 1..Len(s) /\ at[j] = place[j] /\ place[j] \in 1..Len(b)
      BY <1>3, <1>7, <2>1, <3>1
    <3>2. CASE j > Len(s) /\ j - Len(s) \in 1..Len(w) /\ at[j] = Len(b) + (j - Len(s))
      BY <1>1, <1>2, <2>1, <3>2
    <3> QED BY <1>4, <3>1, <3>2
  <2>2. CASE i > Len(s) /\ i - Len(s) \in 1..Len(w) /\ at[i] = Len(b) + (i - Len(s))
    <3>1. ~(j \in 1..Len(s))
      BY <1>2, <1>7, <2>2
    <3>2. j > Len(s) /\ j - Len(s) \in 1..Len(w) /\ at[j] = Len(b) + (j - Len(s))
      BY <1>4, <3>1
    <3> QED BY <1>1, <1>2, <1>7, <2>2, <3>2
  <2> QED BY <1>4, <2>1, <2>2
<1>8. at \in [1..Len(v) -> 1..Len(c)]
  BY <1>6
<1> HIDE DEF at
<1>9. PlacedIn(v, c)
  BY <1>6, <1>7, <1>8 DEF PlacedIn
<1> QED BY <1>9 DEF v, c

LEMMA PlacedLast ==
    ASSUME NEW s \in Seq(Entries), NEW b \in Seq(Entries), PlacedIn(s, b), NEW n \in Nat
    PROVE  PlacedIn(LastOf(s, n), b)
<1> DEFINE v == LastOf(s, n)
           k == Len(s) - Len(v)
<1>1. /\ Len(s) \in Nat /\ v \in Seq(Entries) /\ Len(v) \in Nat /\ Len(v) <= Len(s)
      /\ \A i \in 1..Len(v) : v[i] = s[k + i]
  BY LastOfIs
<1>2. k \in Nat /\ Len(v) + k = Len(s)
  BY <1>1
<1> HIDE DEF v, k
<1>3. PICK place \in [1..Len(s) -> 1..Len(b)] :
        /\ \A i \in 1..Len(s) : SamePick(s[i], b[place[i]])
        /\ \A i, j \in 1..Len(s) : i < j => place[i] < place[j]
  BY DEF PlacedIn
<1> DEFINE at == [i \in 1..Len(v) |-> place[k + i]]
<1>4. \A i \in 1..Len(v) : k + i \in 1..Len(s) /\ at[i] = place[k + i]
  BY <1>1, <1>2
<1>5. at \in [1..Len(v) -> 1..Len(b)]
  BY <1>3, <1>4
<1> HIDE DEF at
<1>6. \A i \in 1..Len(v) : SamePick(v[i], b[at[i]])
  BY <1>1, <1>3, <1>4
<1>7. \A i, j \in 1..Len(v) : i < j => at[i] < at[j]
  <2> SUFFICES ASSUME NEW i \in 1..Len(v), NEW j \in 1..Len(v), i < j PROVE at[i] < at[j]
    OBVIOUS
  <2>1. k + i \in 1..Len(s) /\ k + j \in 1..Len(s) /\ k + i < k + j
    BY <1>2, <1>4
  <2> QED BY <1>3, <1>4, <2>1
<1> QED BY <1>5, <1>6, <1>7 DEF PlacedIn, v

LEMMA PlacedSame ==
    ASSUME NEW s, NEW l, NEW b, PlacedIn(l, b), Len(s) = Len(l),
           \A i \in 1..Len(l) : SamePick(s[i], l[i])
    PROVE  PlacedIn(s, b)
<1>1. PICK place \in [1..Len(l) -> 1..Len(b)] :
        /\ \A i \in 1..Len(l) : SamePick(l[i], b[place[i]])
        /\ \A i, j \in 1..Len(l) : i < j => place[i] < place[j]
  BY DEF PlacedIn
<1> QED BY <1>1, SamePickIs DEF PlacedIn

LEMMA InitialHistory == Init => HInv
  BY PlacedEmpty DEF Init, HInv

LEMMA HistoryStep == TInv /\ HInv /\ [Next]_vars => HInv'
<1> SUFFICES ASSUME TInv, HInv, [Next]_vars PROVE HInv'
  OBVIOUS
\* The logs stay, and so do the other threads.
<1>1. ASSUME UNCHANGED <<log, bought>>, NEW t \in Threads, NEW r, NEW c,
             job' = [job EXCEPT ![t] = r], pc' = [pc EXCEPT ![t] = c],
             c \in {"read", "resolved"} => PlacedIn(r.seen, bought)
      PROVE  HInv'
  <2>1. \A u \in Threads : \/ job'[u] = job[u] /\ pc'[u] = pc[u]
                           \/ u = t /\ job'[u] = r /\ pc'[u] = c
    BY <1>1 DEF TInv, JobTypes
  <2> QED BY <1>1, <2>1 DEF HInv
<1>2. CASE UNCHANGED <<log, bought, pc, job>>
  BY <1>2 DEF HInv
<1>3. CASE UNCHANGED vars \/ Tick
  BY <1>2, <1>3 DEF vars, Tick
<1>4. ASSUME NEW p \in Procs, Restart(p) PROVE HInv'
  BY <1>4, RestartIs, PlacedEmpty DEF HInv
<1>5. ASSUME NEW t \in Threads, ManualScan(t) \/ ScheduledStocks(t) \/ ScheduledCrypto(t) PROVE HInv'
  BY <1>1, <1>5, ScanIs
<1>6. ASSUME NEW t \in Threads, ReadCosts(t) PROVE HInv'
  BY <1>1, <1>6, ReadCostsIs DEF ReadCosts
<1>7. ASSUME NEW t \in Threads, WriteCosts(t) PROVE HInv'
  BY <1>1, <1>7, WriteCostsIs DEF WriteCosts
<1>8. ASSUME NEW t \in Threads, ReadLog(t) PROVE HInv'
  <2>1. PlacedIn(log[Home[t]], bought)
    BY BoundsAre DEF HInv
  <2> QED BY <1>1, <1>8, <2>1, ReadLogIs DEF ReadLog
<1>9. ASSUME NEW t \in Threads, CheckOutcomes(t) PROVE HInv'
  <2>1. PICK r \in Jobs : job' = [job EXCEPT ![t] = r] /\ Resolves(r.seen, log[Home[t]])
    BY <1>9, CheckIs
  <2>2. PlacedIn(log[Home[t]], bought)
    BY BoundsAre DEF HInv
  <2>3. PlacedIn(r.seen, bought)
    BY <2>1, <2>2, PlacedSame DEF Resolves
  <2> QED BY <1>1, <1>9, <2>1, <2>3 DEF CheckOutcomes
<1>10. ASSUME NEW t \in Threads, WriteOutcomes(t) PROVE HInv'
  <2>1. /\ pc[t] = "resolved" /\ PlacedIn(job[t].seen, bought) /\ bought' = bought
        /\ log' = Written(log, Home[t], job[t].seen)
    BY <1>10 DEF WriteOutcomes, HInv
  <2>2. \A p \in Procs : log'[p] \in {job[t].seen, log[p]}
    BY <2>1 DEF Written
  <2>3. \A u \in Threads : pc'[u] = "idle" \/ (pc'[u] = pc[u] /\ job'[u] = job[u])
    BY <1>10 DEF WriteOutcomes, TInv, JobTypes
  <2> QED BY <2>1, <2>2, <2>3 DEF HInv
<1>11. ASSUME NEW t \in Threads, WriteLog(t) PROVE HInv'
  <2> DEFINE v == LastOf(job[t].seen \o New(t), MaxLog)
             s == job[t].seen \o New(t)
  <2>1. /\ pc[t] = "read" /\ job[t].seen \in Seq(Entries) /\ New(t) \in Seq(Entries)
        /\ log' = Written(log, Home[t], v) /\ bought' = bought \o New(t)
    BY <1>11, WriteLogIs
  <2>2. PlacedIn(job[t].seen, bought) /\ bought \in Seq(Entries)
    BY <2>1 DEF HInv, TInv, DataTypes
  <2>3. PlacedIn(s, bought') /\ s \in Seq(Entries) /\ bought' \in Seq(Entries)
    BY <2>1, <2>2, PlacedConcat, ConcatIs
  <2> HIDE DEF s
  <2>4. PlacedIn(v, bought')
    BY <2>3, PlacedLast, BoundsAre DEF s
  <2> HIDE DEF v
  <2>5. \A p \in Procs : log'[p] \in {v, log[p]}
    BY <2>1 DEF Written
  <2>6. ASSUME NEW p \in Procs PROVE PlacedIn(log[p], bought')
    BY <2>1, <2>2, PlacedLonger DEF HInv, TInv, DataTypes
  <2>7. ASSUME NEW u \in Threads, pc[u] \in {"read", "resolved"} PROVE PlacedIn(job[u].seen, bought')
    <3>1. PlacedIn(job[u].seen, bought) /\ job[u].seen \in Seq(Entries)
      BY <2>7 DEF HInv, TInv, JobTypes, Jobs
    <3> QED BY <2>1, <2>2, <3>1, PlacedLonger
  <2>8. \A u \in Threads : pc'[u] = "idle" \/ (pc'[u] = pc[u] /\ job'[u] = job[u])
    BY <1>11 DEF WriteLog, TInv, JobTypes
  <2>9. \A p \in Procs : PlacedIn(log'[p], bought')
    BY <2>4, <2>5, <2>6
  <2>10. \A u \in Threads : pc'[u] \in {"read", "resolved"} => PlacedIn(job'[u].seen, bought')
    BY <2>7, <2>8
  <2> QED BY <2>9, <2>10 DEF HInv
<1> QED BY <1>3, <1>4, <1>5, <1>6, <1>7, <1>8, <1>9, <1>10, <1>11 DEF Next

----------------------------------------------------------------------------
(* Every pick is logged once: a scan's number is its own.                  *)

Distinct(s) == \A i, j \in 1..Len(s) : SamePick(s[i], s[j]) => i = j

UInv ==
    /\ Distinct(bought)
    /\ \A i \in 1..Len(bought) : bought[i].scan <= scans
    /\ \A t \in Threads : Scanning(t) => \A i \in 1..Len(bought) : bought[i].scan # job[t].scan
    /\ \A t, u \in Threads : t # u /\ Scanning(t) /\ Scanning(u) => job[t].scan # job[u].scan

LEMMA InitialOnce == Init => UInv
<1> SUFFICES ASSUME Init PROVE UInv
  OBVIOUS
<1>1. 1..Len(bought) = {} /\ \A t \in Threads : ~Scanning(t)
  BY DEF Init, Scanning
<1> QED BY <1>1 DEF UInv, Distinct

\* The part of the sequence that is new is distinct, and of a scan of its own.
LEMMA DistinctConcat ==
    ASSUME NEW b \in Seq(Entries), NEW w \in Seq(Entries), NEW n, Distinct(b),
           \A i \in 1..Len(b) : b[i].scan # n,
           \A i \in 1..Len(w) : w[i].scan = n,
           \A i, j \in 1..Len(w) : w[i].symbol = w[j].symbol => i = j
    PROVE  Distinct(b \o w)
<1> DEFINE c == b \o w
<1>1. /\ Len(b) \in Nat /\ Len(w) \in Nat
      /\ \A i \in 1..Len(b) : c[i] = b[i]
      /\ \A i \in 1..Len(w) : c[Len(b) + i] = w[i]
      /\ \A i \in 1..Len(c) : i \in 1..Len(b) \/ i - Len(b) \in 1..Len(w)
  BY ConcatIs
<1>2. \A i \in 1..Len(c) : Len(b) + (i - Len(b)) = i
  BY <1>1
<1> HIDE DEF c
<1>3. ASSUME NEW i \in 1..Len(c), i - Len(b) \in 1..Len(w) PROVE c[i] = w[i - Len(b)]
  BY <1>1, <1>2, <1>3
<1> SUFFICES ASSUME NEW i \in 1..Len(c), NEW j \in 1..Len(c), SamePick(c[i], c[j]) PROVE i = j
  BY DEF Distinct, c
<1>4. CASE i \in 1..Len(b) /\ j \in 1..Len(b)
  BY <1>1, <1>4 DEF Distinct
<1>5. CASE i - Len(b) \in 1..Len(w) /\ j - Len(b) \in 1..Len(w)
  <2>1. i - Len(b) = j - Len(b)
    BY <1>3, <1>5 DEF SamePick
  <2> QED BY <1>2, <2>1
<1>6. CASE i \in 1..Len(b) /\ j - Len(b) \in 1..Len(w)
  BY <1>1, <1>3, <1>6 DEF SamePick
<1>7. CASE i - Len(b) \in 1..Len(w) /\ j \in 1..Len(b)
  BY <1>1, <1>3, <1>7 DEF SamePick
<1> QED BY <1>1, <1>4, <1>5, <1>6, <1>7

LEMMA OnceStep == TInv /\ UInv /\ [Next]_vars => UInv'
<1> SUFFICES ASSUME TInv, UInv, [Next]_vars PROVE UInv'
  OBVIOUS
\* Nothing is bought, and no scan begins.
<1>1. ASSUME UNCHANGED <<bought, scans>>,
             \A t \in Threads : Scanning(t)' => Scanning(t) /\ job'[t].scan = job[t].scan
      PROVE  UInv'
  BY <1>1 DEF UInv, Distinct
<1>2. ASSUME NEW t \in Threads, NEW r, NEW c, UNCHANGED <<bought, scans>>,
             job' = [job EXCEPT ![t] = r], pc' = [pc EXCEPT ![t] = c],
             c \notin {"idle", "resolved"} => Scanning(t) /\ r.scan = job[t].scan,
             c \in Pcs
      PROVE  UInv'
  <2>1. \A u \in Threads : \/ job'[u] = job[u] /\ pc'[u] = pc[u]
                           \/ u = t /\ job'[u] = r /\ pc'[u] = c
    BY <1>2 DEF TInv, JobTypes
  <2> QED BY <1>1, <1>2, <2>1 DEF Scanning
<1>3. CASE UNCHANGED vars \/ Tick
  BY <1>1, <1>3 DEF vars, Tick, Scanning
<1>4. ASSUME NEW p \in Procs, Restart(p) PROVE UInv'
  BY <1>1, <1>4, RestartIs DEF Scanning
<1>5. ASSUME NEW t \in Threads, ReadCosts(t) \/ ReadLog(t) PROVE UInv'
  <2>1. PICK r \in Jobs, c \in {"billed", "read"} :
          job' = [job EXCEPT ![t] = r] /\ pc' = [pc EXCEPT ![t] = c] /\ r.scan = job[t].scan
    BY <1>5, ReadCostsIs, ReadLogIs
  <2>2. UNCHANGED <<bought, scans>> /\ Scanning(t) /\ c \in Pcs
    BY <1>5 DEF ReadCosts, ReadLog, Scanning, Pcs
  <2> QED BY <1>2, <2>1, <2>2
<1>6. ASSUME NEW t \in Threads, WriteCosts(t) PROVE UInv'
  <2>1. UNCHANGED <<bought, scans>> /\ Scanning(t) /\ {"idle", "parsed"} \subseteq Pcs
    BY <1>6 DEF WriteCosts, Scanning, Pcs
  <2> QED BY <1>2, <1>6, <2>1, WriteCostsIs
<1>7. ASSUME NEW t \in Threads, CheckOutcomes(t) PROVE UInv'
  <2>1. PICK r \in Jobs : job' = [job EXCEPT ![t] = r]
    BY <1>7, CheckIs
  <2>2. UNCHANGED <<bought, scans>> /\ pc' = [pc EXCEPT ![t] = "resolved"] /\ "resolved" \in Pcs
    BY <1>7 DEF CheckOutcomes, Pcs
  <2> QED BY <1>2, <2>1, <2>2
<1>8. ASSUME NEW t \in Threads, WriteOutcomes(t) PROVE UInv'
  <2>1. /\ UNCHANGED <<bought, scans>> /\ pc' = [pc EXCEPT ![t] = "idle"] /\ "idle" \in Pcs
        /\ job' = [job EXCEPT ![t] = NoJob]
    BY <1>8 DEF WriteOutcomes, Pcs
  <2> QED BY <1>2, <2>1
<1>9. ASSUME NEW t \in Threads, ManualScan(t) \/ ScheduledStocks(t) \/ ScheduledCrypto(t) PROVE UInv'
  <2>1. PICK r \in Jobs : job' = [job EXCEPT ![t] = r] /\ r.scan = scans + 1
    BY <1>9, ScanIs
  <2>2. scans' = scans + 1 /\ bought' = bought /\ pc' = [pc EXCEPT ![t] = "answered"] /\ scans \in Nat
    BY <1>9, ScanIs DEF TInv, JobTypes
  <2>3. \A i \in 1..Len(bought) : bought[i].scan \in Int /\ bought[i].scan <= scans
    <3>1. ASSUME NEW e \in Entries PROVE e.scan \in Int
      BY <3>1 DEF Entries
    <3>2. \A i \in 1..Len(bought) : bought[i] \in Entries
      BY DEF TInv, DataTypes
    <3> QED BY <3>1, <3>2 DEF UInv
  <2>4. \A u \in Threads : u # t /\ Scanning(u)' => Scanning(u) /\ job'[u] = job[u]
    BY <2>1, <2>2 DEF Scanning, TInv, JobTypes
  <2>5. job'[t].scan = scans + 1
    BY <2>1 DEF TInv, JobTypes
  <2>6. \A u \in Threads : Scanning(u) => job[u].scan \in 1..scans
    BY DEF TInv, JobTypes
  <2>7. \A u \in Threads : u # t /\ Scanning(u)' => job'[u].scan # scans + 1
    BY <2>2, <2>4, <2>6
  <2>8. \A i \in 1..Len(bought) : bought[i].scan <= scans + 1 /\ bought[i].scan # scans + 1
    BY <2>2, <2>3
  <2>9. \A u \in Threads : Scanning(u)' => \A i \in 1..Len(bought) : bought[i].scan # job'[u].scan
    BY <2>4, <2>5, <2>8 DEF UInv
  <2>10. \A u, v \in Threads : u # v /\ Scanning(u)' /\ Scanning(v)' => job'[u].scan # job'[v].scan
    BY <2>4, <2>5, <2>7 DEF UInv
  <2> QED BY <2>2, <2>8, <2>9, <2>10 DEF UInv, Distinct
<1>10. ASSUME NEW t \in Threads, WriteLog(t) PROVE UInv'
  <2> DEFINE w == New(t)
  <2>1. pc[t] = "read" /\ Scanning(t) /\ bought' = bought \o w
    BY <1>10, WriteLogIs
  <2>2. /\ w \in Seq(Entries) /\ bought \in Seq(Entries)
        /\ \A i \in 1..Len(w) : w[i].scan = job[t].scan
        /\ \A i, j \in 1..Len(w) : w[i].symbol = w[j].symbol => i = j
    BY <2>1, NewIs DEF TInv, DataTypes
  <2> HIDE DEF w
  <2>3. \A i \in 1..Len(bought) : bought[i].scan # job[t].scan
    BY <2>1 DEF UInv
  <2>4. Distinct(bought')
    BY <2>1, <2>2, <2>3, DistinctConcat DEF UInv
  <2>5. \A i \in 1..Len(bought') :
            \/ i \in 1..Len(bought) /\ bought'[i] = bought[i]
            \/ bought'[i].scan = job[t].scan
    <3> DEFINE c == bought \o w
    <3>1. /\ Len(bought) \in Nat
          /\ \A i \in 1..Len(bought) : c[i] = bought[i]
          /\ \A i \in 1..Len(w) : c[Len(bought) + i] = w[i]
          /\ \A i \in 1..Len(c) : i \in 1..Len(bought) \/ i - Len(bought) \in 1..Len(w)
      BY <2>2, ConcatIs
    <3>2. \A i \in 1..Len(c) : Len(bought) + (i - Len(bought)) = i
      BY <3>1
    <3> HIDE DEF c
    <3>3. \A i \in 1..Len(c) : i - Len(bought) \in 1..Len(w) => c[i].scan = job[t].scan
      <4> SUFFICES ASSUME NEW i \in 1..Len(c), i - Len(bought) \in 1..Len(w) PROVE c[i].scan = job[t].scan
        OBVIOUS
      <4>1. c[Len(bought) + (i - Len(bought))] = w[i - Len(bought)]
        BY <3>1
      <4> QED BY <2>2, <3>2, <4>1
    <3> QED BY <2>1, <3>1, <3>3 DEF c
  <2>6. scans' = scans /\ job' = [job EXCEPT ![t] = NoJob] /\ pc' = [pc EXCEPT ![t] = "idle"]
    BY <1>10 DEF WriteLog
  <2>7. \A u \in Threads : Scanning(u)' => u # t /\ Scanning(u) /\ job'[u] = job[u]
    BY <2>6 DEF Scanning, TInv, JobTypes
  <2>8. job[t].scan <= scans
    BY <2>1 DEF TInv, JobTypes
  <2>9. \A i \in 1..Len(bought') : bought'[i].scan <= scans'
    BY <2>5, <2>6, <2>8 DEF UInv
  <2>10. \A u \in Threads : Scanning(u)' => \A i \in 1..Len(bought') : bought'[i].scan # job'[u].scan
    BY <2>1, <2>5, <2>7 DEF UInv
  <2>11. \A u, v \in Threads : u # v /\ Scanning(u)' /\ Scanning(v)' => job'[u].scan # job'[v].scan
    BY <2>7 DEF UInv
  <2> QED BY <2>4, <2>9, <2>10, <2>11 DEF UInv
<1> QED BY <1>3, <1>4, <1>5, <1>6, <1>7, <1>8, <1>9, <1>10 DEF Next

----------------------------------------------------------------------------
(* While no two jobs meet.                                                 *)

\* The same picks, whatever their outcomes.
Alike(s, l) == Len(s) = Len(l) /\ \A i \in 1..Len(l) : SamePick(s[i], l[i])

AtMostOne == \A t, u \in Threads : Busy(t) /\ Busy(u) => t = u

LogsWhole == \A p \in Procs : Alike(log[p], LastOf(bought, MaxLog)) /\ \A q \in Procs : log[p] = log[q]

CostsWhole == \A p \in Procs : costs[p] = charged

\* What a job has read is what is there still.
ReadingsFresh ==
    \A t \in Threads :
        /\ pc[t] = "billed" => job[t].bills = costs[Home[t]]
        /\ pc[t] = "read" => job[t].seen = log[Home[t]]
        /\ pc[t] = "resolved" => Resolves(job[t].seen, log[Home[t]])

NInv == shared /\ alone => AtMostOne /\ LogsWhole /\ CostsWhole /\ ReadingsFresh

LEMMA InitialAlone == Init => NInv
<1> SUFFICES ASSUME Init PROVE NInv
  OBVIOUS
<1>1. LastOf(bought, MaxLog) = <<>>
  BY BoundsAre DEF Init, LastOf
<1>2. \A i \in 1..Len(<<>>) : FALSE
  OBVIOUS
<1>3. Alike(<<>>, <<>>)
  BY <1>2 DEF Alike
<1> QED BY <1>1, <1>3 DEF Init, NInv, AtMostOne, LogsWhole, CostsWhole, ReadingsFresh, Busy

\* Extending and cutting keeps the last picks the last picks.
LEMMA LastAlike ==
    ASSUME NEW s \in Seq(Entries), NEW b \in Seq(Entries), NEW w \in Seq(Entries), NEW n \in Nat,
           Alike(s, LastOf(b, n))
    PROVE  Alike(LastOf(s \o w, n), LastOf(b \o w, n))
<1> DEFINE l == LastOf(b, n)
           k == Len(b) - Len(s)
           sw == s \o w
           bw == b \o w
           L == Len(LastOf(bw, n))
<1>1. /\ Len(s) \in Nat /\ Len(b) \in Nat /\ Len(w) \in Nat
      /\ Len(sw) = Len(s) + Len(w) /\ Len(bw) = Len(b) + Len(w)
      /\ sw \in Seq(Entries) /\ bw \in Seq(Entries)
  BY ConcatIs
<1>2. /\ Len(s) = Len(l) /\ Len(l) = IF Len(b) <= n THEN Len(b) ELSE n
      /\ \A i \in 1..Len(l) : SamePick(s[i], l[i]) /\ l[i] = b[Len(b) - Len(l) + i]
  BY LastOfIs DEF Alike
<1>3. k \in Nat /\ \A i \in 1..Len(s) : SamePick(s[i], b[k + i])
  <2>1. k \in Nat
    BY <1>1, <1>2
  <2> QED BY <1>2, <2>1
\* Position by position, the two are alike at a distance of k.
<1>4. ASSUME NEW x \in 1..Len(sw) PROVE SamePick(sw[x], bw[k + x])
  <2>1. CASE x \in 1..Len(s)
    <3>1. k + x \in 1..Len(b)
      BY <1>1, <1>3, <2>1
    <3>2. sw[x] = s[x]
      BY <2>1, ConcatIs
    <3>3. bw[k + x] = b[k + x]
      BY <3>1, ConcatIs
    <3> QED BY <1>3, <2>1, <3>2, <3>3
  <2>2. CASE x - Len(s) \in 1..Len(w)
    <3> DEFINE y == x - Len(s)
    <3>1. y \in 1..Len(w) /\ Len(s) + y = x /\ Len(b) + y = k + x
      BY <1>1, <2>2
    <3> HIDE DEF y, k
    <3>2. sw[Len(s) + y] = w[y] /\ bw[Len(b) + y] = w[y]
      BY <3>1, ConcatIs
    <3> QED BY <3>1, <3>2, SamePickIs
  <2>3. x \in 1..Len(s) \/ x - Len(s) \in 1..Len(w)
    BY ConcatIs
  <2> QED BY <2>1, <2>2, <2>3
<1> HIDE DEF sw, bw, l
<1>7. /\ \A i \in 1..Len(LastOf(sw, n)) : LastOf(sw, n)[i] = sw[Len(sw) - Len(LastOf(sw, n)) + i]
      /\ \A i \in 1..Len(LastOf(bw, n)) : LastOf(bw, n)[i] = bw[Len(bw) - Len(LastOf(bw, n)) + i]
  BY <1>1, LastOfIs
<1>5. Len(LastOf(sw, n)) = L /\ L \in Nat /\ L <= Len(sw)
  <2>1. /\ Len(LastOf(sw, n)) = IF Len(sw) <= n THEN Len(sw) ELSE n
        /\ L = IF Len(bw) <= n THEN Len(bw) ELSE n
    BY <1>1, LastOfIs
  <2> QED BY <1>1, <1>2, <2>1
<1>6. ASSUME NEW i \in 1..L PROVE SamePick(LastOf(sw, n)[i], LastOf(bw, n)[i])
  <2> DEFINE x == Len(sw) - L + i
  <2>1. x \in 1..Len(sw) /\ k + x = Len(bw) - L + i
    BY <1>1, <1>5
  <2>2. LastOf(sw, n)[i] = sw[x]
    BY <1>5, <1>7
  <2>3. LastOf(bw, n)[i] = bw[Len(bw) - L + i]
    BY <1>7
  <2> HIDE DEF x, k, L
  <2> QED BY <1>4, <2>1, <2>2, <2>3
<1> QED BY <1>5, <1>6 DEF Alike, sw, bw

LEMMA AloneBefore ==
    ASSUME TInv, [Next]_vars
    PROVE  shared' = shared /\ (alone' => alone \/ ~shared)
<1>1. CASE UNCHANGED vars \/ Tick
  BY <1>1 DEF vars, Tick
<1>2. ASSUME NEW p \in Procs, Restart(p) PROVE shared' = shared /\ (alone' => alone \/ ~shared)
  BY <1>2, RestartIs
<1>3. ASSUME NEW t \in Threads, ManualScan(t) \/ ScheduledStocks(t) \/ ScheduledCrypto(t)
      PROVE  shared' = shared /\ (alone' => alone)
  BY <1>3, ScanIs
<1>4. ASSUME NEW t \in Threads, \/ ReadCosts(t) \/ WriteCosts(t) \/ ReadLog(t) \/ WriteLog(t)
                                \/ CheckOutcomes(t) \/ WriteOutcomes(t)
      PROVE  shared' = shared /\ (alone' => alone)
  <2>1. CASE ReadCosts(t) \/ ReadLog(t) \/ CheckOutcomes(t)
    <3>1. shared' = shared /\ alone' = (alone /\ \A u \in Threads : ~Busy(u))
      BY <2>1 DEF ReadCosts, ReadLog, CheckOutcomes
    <3> QED BY <3>1, Zenon
  <2>2. CASE WriteCosts(t) \/ WriteLog(t) \/ WriteOutcomes(t)
    <3>1. shared' = shared /\ alone' = alone
      BY <2>2 DEF WriteCosts, WriteLog, WriteOutcomes
    <3> QED BY <3>1
  <2> QED BY <1>4, <2>1, <2>2
<1> QED BY <1>1, <1>2, <1>3, <1>4 DEF Next

LEMMA AloneStep == TInv /\ NInv /\ [Next]_vars => NInv'
<1> SUFFICES ASSUME TInv, NInv, [Next]_vars, shared', alone'
             PROVE  (AtMostOne /\ LogsWhole /\ CostsWhole /\ ReadingsFresh)'
  BY DEF NInv
<1> DEFINE Goal == (AtMostOne /\ LogsWhole /\ CostsWhole /\ ReadingsFresh)'
<1>1. shared /\ alone /\ AtMostOne /\ LogsWhole /\ CostsWhole /\ ReadingsFresh
  BY AloneBefore DEF NInv
<1>2. \A t \in Threads : Home[t] \in Procs
  BY BoundsAre
\* The logs stay, and no thread reads one.
<1>3. ASSUME UNCHANGED <<log, costs, bought, charged>>,
             \A t \in Threads : Busy(t)' => Busy(t) /\ pc'[t] = pc[t] /\ job'[t] = job[t]
      PROVE  Goal
  <2>1. LogsWhole' /\ CostsWhole'
    BY <1>1, <1>3 DEF LogsWhole, CostsWhole
  <2>2. AtMostOne'
    BY <1>1, <1>3 DEF AtMostOne
  <2>3. ReadingsFresh'
    BY <1>1, <1>3 DEF ReadingsFresh, Busy
  <2> QED BY <2>1, <2>2, <2>3
\* A thread reads one, and no other was at work.
<1>4. ASSUME NEW t \in Threads, NEW r, NEW c, UNCHANGED <<log, costs, bought, charged>>,
             job' = [job EXCEPT ![t] = r], pc' = [pc EXCEPT ![t] = c],
             \A u \in Threads : ~Busy(u),
             c = "billed" => r.bills = costs[Home[t]],
             c = "read" => r.seen = log[Home[t]],
             c = "resolved" => Resolves(r.seen, log[Home[t]])
      PROVE  Goal
  <2>1. LogsWhole' /\ CostsWhole'
    BY <1>1, <1>4 DEF LogsWhole, CostsWhole
  <2>2. \A u \in Threads : Busy(u)' => u = t /\ job'[u] = r /\ pc'[u] = c
    BY <1>4 DEF Busy, TInv, JobTypes
  <2>3. AtMostOne'
    BY <2>2 DEF AtMostOne
  <2>4. ReadingsFresh'
    BY <1>4, <2>2 DEF ReadingsFresh, Busy
  <2> QED BY <2>1, <2>3, <2>4
\* A thread that was at work writes, and ends its work.
<1>5. ASSUME NEW t \in Threads, NEW r, NEW c, Busy(t), c \notin {"billed", "read", "resolved"},
             job' = [job EXCEPT ![t] = r], pc' = [pc EXCEPT ![t] = c]
      PROVE  AtMostOne' /\ ReadingsFresh'
  <2>1. \A u \in Threads : ~Busy(u)'
    BY <1>1, <1>5 DEF AtMostOne, Busy, TInv, JobTypes
  <2> QED BY <2>1 DEF AtMostOne, ReadingsFresh, Busy
<1>6. CASE UNCHANGED vars \/ Tick
  BY <1>3, <1>6 DEF vars, Tick, Busy
<1>7. ASSUME NEW p \in Procs, Restart(p) PROVE Goal
  <2>1. UNCHANGED <<log, costs, bought, charged>>
    BY <1>1, <1>7, RestartIs
  <2>2. \A t \in Threads : Busy(t)' => Busy(t) /\ pc'[t] = pc[t] /\ job'[t] = job[t]
    BY <1>7, RestartIs DEF Busy
  <2> QED BY <1>3, <2>1, <2>2
<1>8. ASSUME NEW t \in Threads, ManualScan(t) \/ ScheduledStocks(t) \/ ScheduledCrypto(t) PROVE Goal
  <2>1. PICK r \in Jobs : job' = [job EXCEPT ![t] = r]
    BY <1>8, ScanIs
  <2>2. pc' = [pc EXCEPT ![t] = "answered"] /\ UNCHANGED <<log, costs, bought, charged>>
    BY <1>8, ScanIs
  <2>3. \A u \in Threads : Busy(u)' => Busy(u) /\ pc'[u] = pc[u] /\ job'[u] = job[u]
    BY <2>1, <2>2 DEF Busy, TInv, JobTypes
  <2> QED BY <1>3, <2>2, <2>3
<1>9. ASSUME NEW t \in Threads, ReadCosts(t) PROVE Goal
  <2>1. PICK r \in Jobs : /\ job' = [job EXCEPT ![t] = r] /\ pc' = [pc EXCEPT ![t] = "billed"]
                          /\ r.bills = costs[Home[t]]
    BY <1>9, ReadCostsIs
  <2>2. UNCHANGED <<log, costs, bought, charged>> /\ \A u \in Threads : ~Busy(u)
    BY <1>9 DEF ReadCosts
  <2> QED BY <1>4, <2>1, <2>2
<1>10. ASSUME NEW t \in Threads, ReadLog(t) PROVE Goal
  <2>1. PICK r \in Jobs : /\ job' = [job EXCEPT ![t] = r] /\ pc' = [pc EXCEPT ![t] = "read"]
                          /\ r.seen = log[Home[t]]
    BY <1>10, ReadLogIs
  <2>2. UNCHANGED <<log, costs, bought, charged>> /\ \A u \in Threads : ~Busy(u)
    BY <1>10 DEF ReadLog
  <2> QED BY <1>4, <2>1, <2>2
<1>11. ASSUME NEW t \in Threads, CheckOutcomes(t) PROVE Goal
  <2>1. PICK r \in Jobs : job' = [job EXCEPT ![t] = r] /\ Resolves(r.seen, log[Home[t]])
    BY <1>11, CheckIs
  <2>2. /\ UNCHANGED <<log, costs, bought, charged>> /\ \A u \in Threads : ~Busy(u)
        /\ pc' = [pc EXCEPT ![t] = "resolved"]
    BY <1>11 DEF CheckOutcomes
  <2> QED BY <1>4, <2>1, <2>2
<1>12. ASSUME NEW t \in Threads, WriteCosts(t) PROVE Goal
  <2>1. Busy(t) /\ pc[t] = "billed" /\ UNCHANGED <<log, bought>>
    BY <1>12 DEF WriteCosts, Busy
  <2>2. AtMostOne' /\ ReadingsFresh'
    BY <1>5, <1>12, <2>1, WriteCostsIs
  <2>3. job[t].bills = charged
    BY <1>1, <1>2, <2>1 DEF ReadingsFresh, CostsWhole
  <2>4. CostsWhole'
    BY <1>1, <1>12, <2>3 DEF WriteCosts, Written, CostsWhole
  <2>5. LogsWhole'
    BY <1>1, <2>1 DEF LogsWhole
  <2> QED BY <2>2, <2>4, <2>5
<1>13. ASSUME NEW t \in Threads, WriteOutcomes(t) PROVE Goal
  <2>1. /\ Busy(t) /\ pc[t] = "resolved" /\ UNCHANGED <<costs, bought, charged>>
        /\ log' = Written(log, Home[t], job[t].seen)
        /\ job' = [job EXCEPT ![t] = NoJob] /\ pc' = [pc EXCEPT ![t] = "idle"]
    BY <1>13 DEF WriteOutcomes, Busy
  <2>2. AtMostOne' /\ ReadingsFresh'
    BY <1>5, <2>1
  <2>3. \A p \in Procs : log'[p] = job[t].seen
    BY <1>1, <2>1 DEF Written
  <2>4. Resolves(job[t].seen, log[Home[t]]) /\ Alike(log[Home[t]], LastOf(bought, MaxLog))
    BY <1>1, <1>2, <2>1 DEF ReadingsFresh, LogsWhole
  <2>5. Alike(job[t].seen, LastOf(bought, MaxLog))
    BY <2>4, SamePickIs DEF Resolves, Alike
  <2>6. LogsWhole'
    BY <2>1, <2>3, <2>5 DEF LogsWhole
  <2>7. CostsWhole'
    BY <1>1, <2>1 DEF CostsWhole
  <2> QED BY <2>2, <2>6, <2>7
<1>14. ASSUME NEW t \in Threads, WriteLog(t) PROVE Goal
  <2> DEFINE v == LastOf(job[t].seen \o New(t), MaxLog)
  <2>1. /\ Busy(t) /\ pc[t] = "read" /\ UNCHANGED <<costs, charged>>
        /\ job' = [job EXCEPT ![t] = NoJob] /\ pc' = [pc EXCEPT ![t] = "idle"]
    BY <1>14 DEF WriteLog, Busy
  <2>2. /\ job[t].seen \in Seq(Entries) /\ New(t) \in Seq(Entries)
        /\ log' = Written(log, Home[t], v) /\ bought' = bought \o New(t)
    BY <1>14, WriteLogIs
  <2>3. Alike(job[t].seen, LastOf(bought, MaxLog))
    BY <1>1, <1>2, <2>1 DEF ReadingsFresh, LogsWhole
  <2>4. Alike(v, LastOf(bought \o New(t), MaxLog))
    BY <2>2, <2>3, LastAlike, BoundsAre DEF TInv, DataTypes
  <2> HIDE DEF v
  <2>5. \A p \in Procs : log'[p] = v
    BY <1>1, <2>2 DEF Written
  <2>6. LogsWhole'
    BY <2>2, <2>4, <2>5 DEF LogsWhole
  <2>7. CostsWhole'
    BY <1>1, <2>1 DEF CostsWhole
  <2>8. AtMostOne' /\ ReadingsFresh'
    BY <1>5, <2>1
  <2> QED BY <2>6, <2>7, <2>8
<1> QED BY <1>6, <1>7, <1>8, <1>9, <1>10, <1>11, <1>12, <1>13, <1>14 DEF Next

----------------------------------------------------------------------------
(* Outcomes, while no two jobs meet.                                       *)

LEMMA LogDistinct ==
    ASSUME NEW s, NEW b, PlacedIn(s, b), Distinct(b), Len(s) \in Nat, Len(b) \in Nat
    PROVE  Distinct(s) /\ \A i \in 1..Len(s) : \E k \in 1..Len(b) : SamePick(s[i], b[k])
<1>1. PICK place \in [1..Len(s) -> 1..Len(b)] :
        /\ \A i \in 1..Len(s) : SamePick(s[i], b[place[i]])
        /\ \A i, j \in 1..Len(s) : i < j => place[i] < place[j]
  BY DEF PlacedIn
<1>2. ASSUME NEW i \in 1..Len(s), NEW j \in 1..Len(s), SamePick(s[i], s[j]) PROVE i = j
  <2>1. SamePick(b[place[i]], b[place[j]])
    BY <1>1, <1>2 DEF SamePick
  <2>2. place[i] = place[j] /\ place[i] \in Int /\ place[j] \in Int
    BY <1>1, <2>1 DEF Distinct
  <2>3. ~(i < j) /\ ~(j < i)
    BY <1>1, <2>2
  <2> QED BY <2>3
<1> QED BY <1>1, <1>2 DEF Distinct

\* Of a pick that has an outcome in one log, the other has it too.
Keeps(s, l) ==
    \A i \in DOMAIN l, j \in DOMAIN s :
        SamePick(l[i], s[j]) /\ l[i].outcome # Pending => s[j].outcome = l[i].outcome

Kept == shared /\ alone' => \A p \in Procs : Keeps(log'[p], log[p])

LEMMA OutcomesKept == TInv /\ HInv /\ UInv /\ NInv /\ [Next]_vars => [Kept]_vars
<1> SUFFICES ASSUME TInv, HInv, UInv, NInv, [Next]_vars, shared, alone', NEW p \in Procs
             PROVE  Keeps(log'[p], log[p])
  BY DEF Kept
<1> DEFINE l == log[p]
<1>1. shared /\ alone /\ LogsWhole /\ ReadingsFresh
  BY AloneBefore DEF NInv
<1>2. \A t \in Threads : Home[t] \in Procs
  BY BoundsAre
<1>3. /\ l \in Seq(Entries) /\ bought \in Seq(Entries)
      /\ Len(l) \in Nat /\ Len(bought) \in Nat /\ DOMAIN l = 1..Len(l)
  BY DEF TInv, DataTypes
<1>4. Distinct(l) /\ \A i \in 1..Len(l) : \E k \in 1..Len(bought) : SamePick(l[i], bought[k])
  BY <1>3, LogDistinct DEF HInv, UInv
<1>5. \A t \in Threads : log[Home[t]] = l
  BY <1>1, <1>2 DEF LogsWhole
<1>6. CASE log' = log
  BY <1>3, <1>4, <1>6 DEF Keeps, Distinct
<1>7. ASSUME NEW t \in Threads, WriteOutcomes(t) PROVE Keeps(log'[p], l)
  <2> DEFINE s == job[t].seen
  <2>1. log'[p] = s /\ Resolves(s, l)
    BY <1>1, <1>5, <1>7 DEF WriteOutcomes, Written, ReadingsFresh
  <2>2. s \in Seq(Entries)
    BY DEF TInv, JobTypes, Jobs
  <2> HIDE DEF s, l
  <2>3. DOMAIN s = 1..Len(l)
    BY <2>1, <2>2 DEF Resolves
  <2>4. ASSUME NEW i \in 1..Len(l), NEW j \in 1..Len(l), SamePick(l[i], s[j]) PROVE i = j
    BY <1>4, <2>1, <2>4 DEF Resolves, Distinct, SamePick
  <2> QED BY <1>3, <2>1, <2>3, <2>4 DEF Resolves, Keeps
<1>8. ASSUME NEW t \in Threads, WriteLog(t) PROVE Keeps(log'[p], l)
  <2> DEFINE w == New(t)
             c == l \o w
             s == LastOf(c, MaxLog)
             k == Len(c) - Len(s)
  <2>1. /\ pc[t] = "read" /\ Scanning(t)
        /\ log' = Written(log, Home[t], LastOf(job[t].seen \o w, MaxLog)) /\ w \in Seq(Entries)
    BY <1>8, WriteLogIs
  <2>2. job[t].seen = l
    BY <1>1, <1>5, <2>1 DEF ReadingsFresh
  <2>3. log'[p] = s
    BY <1>1, <2>1, <2>2 DEF Written
  <2>4. \A i \in 1..Len(w) : w[i].scan = job[t].scan
    BY <2>1, NewIs
  <2>5. \A i \in 1..Len(bought) : bought[i].scan # job[t].scan
    BY <2>1 DEF UInv
  <2> HIDE DEF w, l
  <2>6. /\ c \in Seq(Entries)
        /\ \A i \in 1..Len(l) : c[i] = l[i]
        /\ \A i \in 1..Len(w) : c[Len(l) + i] = w[i]
        /\ \A i \in 1..Len(c) : i \in 1..Len(l) \/ i - Len(l) \in 1..Len(w)
    BY <1>3, <2>1, ConcatIs
  <2> HIDE DEF c
  <2>7. /\ s \in Seq(Entries) /\ Len(s) <= Len(c) /\ Len(s) \in Nat /\ Len(c) \in Nat
        /\ \A i \in 1..Len(s) : s[i] = c[k + i]
    BY <2>6, LastOfIs, BoundsAre
  <2>8. DOMAIN s = 1..Len(s) /\ \A j \in 1..Len(s) : k + j \in 1..Len(c)
    BY <2>7
  <2> HIDE DEF s, k
  <2>9. ASSUME NEW i \in 1..Len(l), NEW m \in 1..Len(c), SamePick(l[i], c[m]) PROVE c[m] = l[i]
    <3>1. CASE m \in 1..Len(l)
      <4>1. c[m] = l[m]
        BY <2>6, <3>1
      <4>2. i = m
        BY <1>4, <2>9, <3>1, <4>1 DEF Distinct
      <4> QED BY <4>1, <4>2
    <3>2. CASE m - Len(l) \in 1..Len(w)
      <4>1. Len(l) + (m - Len(l)) = m
        BY <1>3
      <4>2. c[m] = w[m - Len(l)]
        BY <2>6, <3>2, <4>1
      <4>3. c[m].scan = job[t].scan
        BY <2>4, <3>2, <4>2
      <4>4. PICK n \in 1..Len(bought) : SamePick(l[i], bought[n])
        BY <1>4
      <4> QED BY <2>5, <2>9, <4>3, <4>4 DEF SamePick
    <3> QED BY <2>6, <3>1, <3>2
  <2> QED BY <1>3, <2>3, <2>7, <2>8, <2>9 DEF Keeps
<1>9. ASSUME NEW q \in Procs, Restart(q) PROVE log' = log
  BY <1>1, <1>9, RestartIs
<1>10. ASSUME NEW t \in Threads, \/ ManualScan(t) \/ ScheduledStocks(t) \/ ScheduledCrypto(t)
                                 \/ ReadCosts(t) \/ WriteCosts(t) \/ ReadLog(t) \/ CheckOutcomes(t)
       PROVE  log' = log
  BY <1>10, ScanIs DEF ReadCosts, WriteCosts, ReadLog, CheckOutcomes
<1>11. CASE UNCHANGED vars \/ Tick
  BY <1>6, <1>11 DEF vars, Tick
<1> QED BY <1>6, <1>7, <1>8, <1>9, <1>10, <1>11 DEF Next

----------------------------------------------------------------------------
LEMMA Invariants == Spec => [](TInv /\ HInv /\ UInv /\ NInv)
<1>1. Init => TInv /\ HInv /\ UInv /\ NInv
  BY InitialTypes, InitialHistory, InitialOnce, InitialAlone
<1>2. (TInv /\ HInv /\ UInv /\ NInv) /\ [Next]_vars => (TInv /\ HInv /\ UInv /\ NInv)'
  BY TypeStep, HistoryStep, OnceStep, AloneStep
<1> QED BY <1>1, <1>2, PTL DEF Spec

\* Every variable has its type, and no log is longer than _MAX_LOG_ENTRIES:
\* what a job writes back is cut, and a check writes as much as it read.
\* (log_scan_result, check_morning_outcomes)
THEOREM OvernightTypes == Spec => []TypeOK
<1>1. TInv => TypeOK
  <2> SUFFICES ASSUME TInv PROVE TypeOK
    OBVIOUS
  <2>1. \A t \in Threads : job[t].seen \in Seq(Entries) /\ job[t].bills \subseteq 1..MaxScans
    BY DEF TInv, JobTypes, Jobs
  <2> QED BY <2>1 DEF TInv, DataTypes, JobTypes, TypeOK, Pcs
<1> QED BY <1>1, Invariants, PTL

\* However jobs overwrite each other's logs, with and without Redis, and after
\* a restart, a log holds picks that were made, each once, in the order they
\* were logged in. (log_scan_result, check_morning_outcomes)
THEOREM LogsAreHistory == Spec => []LogIsHistory
<1>1. TInv /\ HInv => LogIsHistory
  <2> SUFFICES ASSUME TInv, HInv, NEW p \in Procs
               PROVE  \E place \in [DOMAIN log[p] -> DOMAIN bought] :
                        /\ \A i \in DOMAIN log[p] : SamePick(log[p][i], bought[place[i]])
                        /\ \A i, j \in DOMAIN log[p] : i < j => place[i] < place[j]
    BY DEF LogIsHistory
  <2>1. DOMAIN log[p] = 1..Len(log[p]) /\ DOMAIN bought = 1..Len(bought)
    BY DEF TInv, DataTypes
  <2> QED BY <2>1 DEF HInv, PlacedIn
<1> QED BY <1>1, Invariants, PTL

\* With one store and as long as no two jobs meet, the logs hold the last
\* MaxLog picks and every call that was paid for. (log_scan_result,
\* _call_claude_tracked)
THEOREM NothingIsLost == Spec => []AloneNothingLost
<1>1. TInv /\ NInv => AloneNothingLost
  <2> SUFFICES ASSUME TInv, NInv, shared, alone PROVE AloneNothingLost
    BY DEF AloneNothingLost
  <2>1. LogsWhole /\ CostsWhole
    BY DEF NInv
  <2>2. LastOf(bought, MaxLog) \in Seq(Entries)
    BY LastOfIs, BoundsAre DEF TInv, DataTypes
  <2>3. DOMAIN LastOf(bought, MaxLog) = 1..Len(LastOf(bought, MaxLog))
    BY <2>2
  <2> QED BY <2>1, <2>3 DEF AloneNothingLost, LogsWhole, CostsWhole, Alike
<1> QED BY <1>1, Invariants, PTL

\* And an outcome that is logged is final: no check prices the pick again, no
\* scan drops the outcome. (check_morning_outcomes)
THEOREM OutcomesAreKept == Spec => OutcomesStay
<1>1. TInv /\ HInv /\ UInv /\ NInv /\ [Next]_vars => [Kept]_vars
  BY OutcomesKept
<1> QED BY <1>1, Invariants, PTL DEF Spec, OutcomesStay, Kept, Keeps
=============================================================================
