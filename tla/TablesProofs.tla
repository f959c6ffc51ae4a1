---------------------------- MODULE TablesProofs ----------------------------
(***************************************************************************)
(* The pre-fetched tables, for any processes, tickers and days: what a run *)
(* that went well leaves to the readers, and whom a reader has asked when  *)
(* it comes back with nothing.                                             *)
(***************************************************************************)
EXTENDS Tables, TLAPS, WellFoundedInduction

(***************************************************************************)
(* The types.                                                              *)
(***************************************************************************)
Keys == {"fmp", "polygon", "finnhub", "fred", "edgar", "steadyapi"}
Known == IF table = None THEN {} ELSE Columns[table]
Fills == IF table = None THEN {} ELSE Filled(table)

RowSet == [cols : SUBSET Known, seen : Ages]
Runs == [at : {"idle", "ask", "write"}, todo : SUBSET Tickers,
         has : [Tickers -> SUBSET Fills], age : 0..1, good : BOOLEAN]
Reads == [reader : DOMAIN Readers \union {None}, silent : BOOLEAN,
          asked : SUBSET (keys \union Free), got : SUBSET (AllColumns \union AllFields)]

\* A run writes what it has before it asks for more; one that asks for everything at
\* once has then nothing left to ask.
InOrder(j) ==
    /\ j.at # "idle" => table # None
    /\ j.at = "ask" => Waiting(j) = {}
    /\ j.at = "write" /\ Job[table].atOnce => j.todo = {}

TInv ==
    /\ table \in DOMAIN Job \union {None} /\ keys \subseteq Keys
    /\ rows \in [Tickers -> [Ages -> RowSet]]
    /\ \A k \in Tickers, a \in Ages : rows[k][a] # NoData => rows[k][a].cols # {}
    /\ job \in [Procs -> Runs]
    /\ \A p \in Procs : InOrder(job[p])
    /\ done \subseteq 0..Horizon - 1 /\ (table = None => done = {})
    /\ read \in Reads

(***************************************************************************)
(* The rows of a run that went well: they are there, and young enough for  *)
(* the cleanup to leave them for as long as it promises.  A run that has   *)
(* gone well so far has left those of the tickers it is through with.      *)
(***************************************************************************)
LatestSeen(a, d) ==
    IF table \in ByEvent THEN a ELSE IF table \in Inserted THEN d ELSE d + 1

Kept(k, d) ==
    \A a \in DaysOf(d) : Promised(a, d) =>
        /\ rows[k][a].cols # {}
        /\ table \notin Undated => rows[k][a].seen <= LatestSeen(a, d)

Through(j) == Wanted \ (j.todo \union Waiting(j))

KInv ==
    /\ \A d \in done, k \in Wanted : Kept(k, d)
    /\ \A p \in Procs : job[p].at # "idle" /\ job[p].good =>
          \A k \in Through(job[p]) : Kept(k, job[p].age)

----------------------------------------------------------------------------
(* Constants.                                                              *)

LEMMA NumbersAre ==
    /\ Horizon \in Nat /\ Horizon >= 2 /\ Keep \in Nat /\ Keep >= 1 /\ Keep < Horizon
    /\ 0 \in Ages /\ 1 \in Ages /\ 0..1 \subseteq Ages
    /\ \A a \in Ages : a \in Nat /\ a <= Horizon
    /\ 1..Hundred \subseteq Tickers
  BY TablesBounds DEF Ages, Tickers

LEMMA TablesAre ==
    /\ DOMAIN Job = DOMAIN Columns
    /\ None \notin DOMAIN Job
    /\ \A t \in DOMAIN Job : Filled(t) \subseteq AllColumns /\ Columns[t] \subseteq AllColumns
<1>1. DOMAIN Job = DOMAIN Columns
  BY DEF Job, Columns
<1>2. None \notin DOMAIN Job
  BY DEF Job, None
<1>3. ASSUME NEW t \in DOMAIN Job
      PROVE  Filled(t) \subseteq AllColumns /\ Columns[t] \subseteq AllColumns
  BY <1>1 DEF AllColumns
<1> QED BY <1>1, <1>2, <1>3

LEMMA WantedAre == Wanted \subseteq Tickers
  BY NumbersAre DEF Wanted

\* What is not nothing has a least element.
LEMMA MinIs ==
    ASSUME NEW S, S \subseteq Nat, S # {}
    PROVE  Min(S) \in S /\ \A n \in S : Min(S) <= n
<1> DEFINE R == OpToRel(<, Nat)
<1>1. IsWellFoundedOn(R, Nat)
  BY NatLessThanWellFounded
<1>2. \A x, y \in Nat : y < x => <<y, x>> \in R
  BY DEF OpToRel
<1>3. PICK x \in S : \A y \in S : ~(<<y, x>> \in R)
  <2> HIDE DEF R
  <2> QED BY <1>1, WFMin
<1> HIDE DEF R
<1>4. ASSUME NEW y \in S PROVE x <= y
  <2>1. x \in Nat /\ y \in Nat
    OBVIOUS
  <2>2. ~(y < x)
    BY <1>2, <1>3, <2>1
  <2> QED BY <2>1, <2>2
<1> QED BY <1>4 DEF Min

\* The answers of an operation are of its calls' fields.
LEMMA AnswersAre ==
    ASSUME NEW op, NEW a \in Answers(op)
    PROVE  a \subseteq FieldsOf(op)
<1>1. PICK outcome \in [DOMAIN op.calls -> Outcomes] : a = Returns(op.calls, outcome)
  BY DEF Answers
<1>2. Made(op.calls, outcome) \subseteq DOMAIN op.calls
  BY DEF Made
<1> HIDE DEF Answers, Outcomes
<1> QED BY <1>1, <1>2 DEF Returns, FieldsOf

----------------------------------------------------------------------------
(* Runs.                                                                   *)

LEMMA NoRunIs == NoRun \in Runs /\ NoRun.at = "idle" /\ InOrder(NoRun)
  BY DEF NoRun, Runs, InOrder

\* The row a job may make of what it was told.
LEMMA AskedIs ==
    ASSUME table \in DOMAIN Job, NEW r \in Asked(Job[table].asks), r.got # {},
           DOMAIN Job[table].asks \subseteq Nat
    PROVE  DOMAIN r.fill \subseteq Fills
<1> DEFINE asks == Job[table].asks
<1>1. table # None
  BY TablesAre
<1>2. PICK said \in Says(asks) :
        LET answered == {i \in InTurn(asks) : said[i] # {}}
        IN  r = IF answered = {} THEN [got |-> {}, fill |-> NoRow]
                ELSE [got |-> said[Min(answered)], fill |-> asks[Min(answered)].fill]
  BY DEF Asked
<1> DEFINE answered == {i \in InTurn(asks) : said[i] # {}}
<1>3. answered # {} /\ r.fill = asks[Min(answered)].fill
  BY <1>2
<1>4. answered \subseteq DOMAIN asks
  BY DEF InTurn
<1>5. Min(answered) \in DOMAIN asks
  <2> HIDE DEF answered, asks
  <2>1. answered \subseteq Nat
    BY <1>4 DEF asks
  <2> QED BY <2>1, <1>3, <1>4, MinIs
<1> QED BY <1>1, <1>3, <1>5 DEF Fills, Filled

\* The numbers of the asks of each job.
LEMMA AsksAre == \A t \in DOMAIN Job : DOMAIN Job[t].asks \subseteq Nat
  BY DEF Job, RefreshUniverse, RefreshMarketPrices, RefreshCrossAssetPrices, RefreshFundamentals,
         RefreshEarnings, RefreshRevisions, RefreshNewsSentiment, RefreshOptionsFlow,
         RefreshDarkPool, RefreshInsiderTrades

\* A reader asks one provider or two, each by a key that exists or without one; and the
\* word of the first is final only if nobody follows, save Finnhub's on revisions.
Proper(f, r) ==
    /\ DOMAIN r.asks \in {{1}, {1, 2}}
    /\ \A i \in DOMAIN r.asks : r.asks[i].op.source \in Keys \union Free
    /\ r.asks[1].only /\ 2 \in DOMAIN r.asks => f = "analyst_revisions"

LEMMA ReadersAre == \A f \in DOMAIN Readers : Proper(f, Readers[f])
<1> USE DEF Proper, Reader, Ask, Only, Op, One, Keys, Free
<1>1. Proper("daily_ohlcv", GetDailyOhlcv)
  BY DEF GetDailyOhlcv, PolygonGetDailyOhlcv, YfGetDailyOhlcv
<1>2. Proper("multiple_ohlcv", GetMultipleOhlcv)
  BY DEF GetMultipleOhlcv, YfGetMultipleOhlcv
<1>3. Proper("current_price", GetCurrentPrice)
  BY DEF GetCurrentPrice, YfGetCurrentPrice
<1>4. Proper("fundamentals", GetFundamentals)
  BY DEF GetFundamentals, FmpGetFundamentals, YfGetFundamentals
<1>5. Proper("shares_outstanding", GetSharesOutstanding)
  BY DEF GetSharesOutstanding, YfGetSharesOutstanding
<1>6. Proper("earnings_data", GetEarningsData)
  BY DEF GetEarningsData, FmpGetEarnings, YfGetEarningsHistory
<1>7. Proper("analyst_revisions", GetAnalystRevisions)
  BY DEF GetAnalystRevisions, FinnhubGetAnalystRevisions, YfGetAnalystRevisions
<1>8. Proper("news_sentiment", GetNewsSentiment)
  BY DEF GetNewsSentiment, FinnhubGetNews
<1>9. Proper("insider_trades", GetInsiderTrades)
  BY DEF GetInsiderTrades, EdgarGetInsiderTrades
<1>10. Proper("dark_pool_activity", GetDarkPoolActivity)
  BY DEF GetDarkPoolActivity, PolygonGetShortVolume, FinraComputeDarkPoolMetrics
<1>11. Proper("steadyapi_sweeps", GetSteadyapiSweeps)
  BY DEF GetSteadyapiSweeps, SteadyGetInstitutionalSweeps, SteadyGetOptionsFlow
<1>12. Proper("earnings_calendar", GetEarningsCalendar)
  BY DEF GetEarningsCalendar, FmpGetEarningsCalendar
<1>13. Proper("recommendation_trends", GetRecommendationTrends)
  BY DEF GetRecommendationTrends, FinnhubGetRecommendationTrends, YfGetRecommendationTrends
<1>14. Proper("yield_curve_slope", GetYieldCurveSlope)
  BY DEF GetYieldCurveSlope, FredGetYieldCurveSlope, ComputeYieldCurveSlope
<1>15. Proper("credit_spread", GetCreditSpread)
  BY DEF GetCreditSpread, FredGetCreditSpread, ComputeCreditSpread
<1>16. Proper("insider_buying_score", GetInsiderBuyingScore)
  BY DEF GetInsiderBuyingScore, EdgarGetInsiderTrades
<1>17. Proper("short_interest", GetShortInterest)
  BY DEF GetShortInterest, SteadyGetShortInterest
<1>18. Proper("institutional_holdings", GetInstitutionalHoldings)
  BY DEF GetInstitutionalHoldings, SteadyGetInstitutionalHoldings
<1> HIDE DEF Proper, Reader, Ask, Only, Op, One, Keys, Free
<1> QED BY <1>1, <1>2, <1>3, <1>4, <1>5, <1>6, <1>7, <1>8, <1>9, <1>10,
         <1>11, <1>12, <1>13, <1>14, <1>15, <1>16, <1>17, <1>18 DEF Readers

LEMMA InitialTables == Init => TInv /\ KInv
<1> SUFFICES ASSUME Init PROVE TInv /\ KInv
  OBVIOUS
<1>1. NoData \in RowSet
  BY NumbersAre DEF NoData, RowSet
<1>2. keys \subseteq Keys
  <2>1. Keyed(table) \subseteq Keys
    BY ReadersAre DEF Keyed, Proper
  <2> QED BY <2>1 DEF Init
<1>3. read \in Reads
  BY DEF Init, NoRead, Reads
<1>4. rows \in [Tickers -> [Ages -> RowSet]]
  BY <1>1 DEF Init
<1>5. TInv
  BY <1>2, <1>3, <1>4, NoRunIs DEF Init, TInv
<1>6. KInv
  BY NoRunIs DEF Init, KInv
<1> QED BY <1>5, <1>6

\* A run that goes on, or ends, keeps what holds of runs.
LEMMA GoesTyped ==
    ASSUME TInv, NEW p \in Procs, NEW j \in Runs, table \in DOMAIN Job, Goes(p, j),
           Job[table].atOnce => j.todo = {}, UNCHANGED table
    PROVE  /\ job' \in [Procs -> Runs] /\ \A q \in Procs : InOrder(job[q])'
           /\ done' \subseteq 0..Horizon - 1
<1>1. table # None
  BY TablesAre
<1>2. CASE Waiting(j) = {} /\ (Job[table].atOnce \/ j.todo = {})
  <2>1. job' = [job EXCEPT ![p] = NoRun] /\ (done' = done \/ done' = done \union {j.age})
    BY <1>2 DEF Goes
  <2>2. j.age \in 0..Horizon - 1
    BY NumbersAre DEF Runs
  <2> QED BY <2>1, <2>2, NoRunIs DEF TInv, InOrder, Waiting
<1>3. CASE ~(Waiting(j) = {} /\ (Job[table].atOnce \/ j.todo = {}))
  <2> DEFINE at == IF Waiting(j) = {} THEN "ask" ELSE "write"
             n == [j EXCEPT !.at = at]
  <2>1. job' = [job EXCEPT ![p] = n] /\ done' = done
    BY <1>3 DEF Goes
  <2>2. n \in Runs /\ n.at = at /\ n.todo = j.todo /\ n.has = j.has
    BY DEF Runs
  <2>3. InOrder(n)
    BY <1>1, <2>2 DEF InOrder, Waiting
  <2> HIDE DEF n
  <2>4. \A q \in Procs : InOrder(job'[q])
    BY <2>1, <2>3 DEF TInv
  <2>5. \A q \in Procs : InOrder(job[q])'
    BY <2>4 DEF InOrder, Waiting
  <2> QED BY <2>1, <2>2, <2>5 DEF TInv
<1> QED BY <1>2, <1>3

LEMMA GoesKeeps ==
    ASSUME TInv, KInv, NEW p \in Procs, NEW j \in Runs, table \in DOMAIN Job, Goes(p, j),
           Job[table].atOnce => j.todo = {}, UNCHANGED table,
           \A k \in Tickers, d \in 0..Horizon : Kept(k, d) => Kept(k, d)',
           j.good => \A k \in Through(j) : Kept(k, j.age)'
    PROVE  KInv'
<1>1. Wanted' = Wanted /\ Wanted \subseteq Tickers
  BY WantedAre DEF Wanted
<1>2. \A r : Through(r)' = Through(r) /\ Through(r) \subseteq Tickers
  BY <1>1 DEF Through, Waiting
<1>3. done \subseteq 0..Horizon /\ j.age \in 0..Horizon /\ \A q \in Procs : job[q].age \in 0..Horizon
  BY NumbersAre DEF TInv, Runs
<1>4. \A d \in done, k \in Wanted : Kept(k, d)'
  BY <1>1, <1>3 DEF KInv
<1>5. ASSUME NEW q \in Procs, job[q].at # "idle", job[q].good, NEW n, n = job[q].age, NEW k \in Through(job[q])
      PROVE  Kept(k, n)'
  BY <1>2, <1>3, <1>5 DEF KInv
<1>6. CASE Waiting(j) = {} /\ (Job[table].atOnce \/ j.todo = {})
  <2>1. /\ job' = [job EXCEPT ![p] = NoRun]
        /\ done' = IF j.good THEN done \union {j.age} ELSE done
    BY <1>6 DEF Goes
  <2>2. Through(j) = Wanted
    BY <1>6 DEF Through
  <2>3. \A d \in done', k \in Wanted' : Kept(k, d)'
    BY <1>1, <1>4, <2>1, <2>2
  <2>4. ASSUME NEW q \in Procs, job'[q].at # "idle", job'[q].good, NEW k \in Through(job'[q])
        PROVE  Kept(k, job[q].age)'
    <3>1. q # p /\ job'[q] = job[q]
      BY <2>1, <2>4, NoRunIs DEF TInv
    <3>2. PICK n : n = job[q].age
      OBVIOUS
    <3>3. Kept(k, n)'
      BY <1>5, <2>4, <3>1, <3>2
    <3> QED BY <3>1, <3>2, <3>3
  <2> QED BY <2>3, <2>4, <1>2 DEF KInv
<1>7. CASE ~(Waiting(j) = {} /\ (Job[table].atOnce \/ j.todo = {}))
  <2> DEFINE at == IF Waiting(j) = {} THEN "ask" ELSE "write"
  <2>0. PICK n : n = [j EXCEPT !.at = at]
    OBVIOUS
  <2>1. job' = [job EXCEPT ![p] = n] /\ done' = done
    BY <1>7, <2>0 DEF Goes
  <2>2. n.todo = j.todo /\ n.has = j.has /\ n.good = j.good /\ n.age = j.age
    BY <2>0 DEF Runs
  <2>3. Through(n) = Through(j)
    BY <2>2 DEF Through, Waiting
  <2>4. ASSUME NEW q \in Procs, job'[q].at # "idle", job'[q].good, NEW k \in Through(job'[q])
        PROVE  Kept(k, job[q].age)'
    <3>1. CASE q = p
      <4>1. job'[q] = n
        BY <2>1, <3>1 DEF TInv
      <4>2. Kept(k, j.age)'
        BY <2>2, <2>3, <2>4, <4>1
      <4> QED BY <2>2, <4>1, <4>2
    <3>2. CASE q # p
      <4>1. job'[q] = job[q]
        BY <2>1, <3>2 DEF TInv
      <4>2. PICK m : m = job[q].age
        OBVIOUS
      <4>3. Kept(k, m)'
        BY <1>5, <2>4, <4>1, <4>2
      <4> QED BY <4>1, <4>2, <4>3
    <3> QED BY <3>1, <3>2
  <2> QED BY <1>1, <1>2, <1>4, <2>1, <2>4 DEF KInv
<1> QED BY <1>6, <1>7

\* What is not about the rows keeps them.
LEMMA RowsStay ==
    ASSUME UNCHANGED <<table, rows>>
    PROVE  \A k \in Tickers, d \in 0..Horizon : Kept(k, d) => Kept(k, d)'
  BY DEF Kept, DaysOf, Promised, LatestSeen

LEMMA ABegunRun ==
    ASSUME NEW run \in Runs, NEW todo \in SUBSET Tickers
    PROVE  \E n \in Runs :
              /\ n = [run EXCEPT !.at = "ask", !.todo = todo]
              /\ n.at = "ask" /\ n.todo = todo /\ n.age = run.age /\ n.has = run.has
<1> PICK n : n = [run EXCEPT !.at = "ask", !.todo = todo]
  OBVIOUS
<1>1. n \in Runs /\ n.at = "ask" /\ n.todo = todo /\ n.age = run.age /\ n.has = run.has
  BY DEF Runs
<1> QED BY <1>1, Zenon

LEMMA BeginStep ==
    ASSUME TInv, KInv, NEW p \in Procs, Begin(p)
    PROVE  TInv' /\ KInv'
<1>1. PICK n \in Runs :
        /\ n = [NoRun EXCEPT !.at = "ask", !.todo = Wanted]
        /\ n.at = "ask" /\ n.todo = Wanted /\ Waiting(n) = {} /\ n.age = 0
  <2>1. PICK n \in Runs :
          /\ n = [NoRun EXCEPT !.at = "ask", !.todo = Wanted]
          /\ n.at = "ask" /\ n.todo = Wanted /\ n.age = NoRun.age /\ n.has = NoRun.has
    BY ABegunRun, NoRunIs, WantedAre, Zenon
  <2>2. NoRun.age = 0 /\ NoRun.has = [k \in Tickers |-> {}]
    BY DEF NoRun
  <2>3. Waiting(n) = {}
    <3> n.has = [k \in Tickers |-> {}]
      BY <2>1, <2>2, Zenon
    <3> QED BY DEF Waiting
  <2> QED BY <2>1, <2>2, <2>3, Zenon
<1>2. job' = [job EXCEPT ![p] = n] /\ UNCHANGED <<table, keys, rows, done, read>> /\ table # None
  BY <1>1, Zenon DEF Begin
<1>3. \A q \in Procs : job'[q] = IF q = p THEN n ELSE job[q]
  BY <1>2 DEF TInv
<1>4. InOrder(n)
  BY <1>1, <1>2 DEF InOrder
<1>5. TInv'
  <2>1. \A q \in Procs : InOrder(job[q])'
    BY <1>2, <1>3, <1>4 DEF TInv, InOrder, Waiting
  <2> QED BY <1>1, <1>2, <2>1 DEF TInv, Runs, RowSet, Reads, Known, Fills
<1>6. KInv'
  <2>1. Through(n) = {}
    BY <1>1 DEF Through
  <2>2. \A k \in Tickers, d \in 0..Horizon : Kept(k, d) => Kept(k, d)'
    BY <1>2, RowsStay
  <2>3. \A d \in done', k \in Wanted' : Kept(k, d)'
    BY <1>2, <2>2, WantedAre, NumbersAre DEF KInv, TInv, Wanted
  <2>4. ASSUME NEW q \in Procs, job'[q].at # "idle", job'[q].good, NEW k \in Through(job'[q])
        PROVE  Kept(k, job[q].age)'
    <3>1. job'[q] = job[q] /\ job[q].age \in 0..Horizon /\ k \in Tickers
      <4>1. job'[q] # n
        BY <2>1, <2>4
      <4>2. job'[q] = job[q]
        BY <1>3, <4>1
      <4>3. job[q].age \in 0..1
        BY DEF TInv, Runs
      <4> QED BY <2>4, <4>2, <4>3, NumbersAre, WantedAre DEF Through
    <3>2. PICK m : m = job[q].age
      OBVIOUS
    <3>3. Kept(k, m)'
      BY <2>2, <2>4, <3>1, <3>2 DEF KInv
    <3> QED BY <3>1, <3>2, <3>3
  <2>5. \A r : Through(r)' = Through(r)
    BY <1>2 DEF Through, Wanted, Waiting
  <2> QED BY <2>3, <2>4, <2>5 DEF KInv
<1> QED BY <1>5, <1>6

LEMMA FetchStep ==
    ASSUME TInv, KInv, NEW p \in Procs, NEW ks \in SUBSET Tickers, Fetch(p, ks)
    PROVE  TInv' /\ KInv'
<1>1. table \in DOMAIN Job /\ Waiting(job[p]) = {} /\ job[p] \in Runs
  BY DEF Fetch, TInv, InOrder
<1>2. PICK r \in Asked(Job[table].asks), extra \in Added(table),
           brought \in IF Job[table].atOnce THEN SUBSET ks ELSE {ks} :
        /\ table = "universe" => brought = ks
        /\ LET cols == IF r.got = {} THEN {} ELSE Row(r.fill, r.got \union extra)
           IN  Goes(p, [job[p] EXCEPT
                 !.has = [k \in Tickers |-> IF k \in brought THEN cols ELSE {}],
                 !.todo = @ \ ks,
                 !.good = @ /\ cols # {} /\ brought = ks /\ job[p].age = 0])
  BY DEF Fetch
<1> DEFINE cols == IF r.got = {} THEN {} ELSE Row(r.fill, r.got \union extra)
<1>3. UNCHANGED <<table, keys, rows, read>> /\ (Job[table].atOnce => ks = job[p].todo)
  BY DEF Fetch
<1>4. cols \subseteq Fills
  <2>1. CASE r.got # {}
    BY <1>1, <2>1, AskedIs, AsksAre DEF Row
  <2> QED BY <2>1
<1>5. PICK j : j = [job[p] EXCEPT
              !.has = [k \in Tickers |-> IF k \in brought THEN cols ELSE {}],
              !.todo = @ \ ks,
              !.good = @ /\ cols # {} /\ brought = ks /\ job[p].age = 0]
  OBVIOUS
<1>6. Goes(p, j)
  BY <1>2, <1>5
<1> HIDE DEF cols
<1>7. /\ j.at = job[p].at /\ j.todo = job[p].todo \ ks /\ j.age = job[p].age
      /\ j.has = [k \in Tickers |-> IF k \in brought THEN cols ELSE {}]
      /\ j.good = (job[p].good /\ cols # {} /\ brought = ks /\ job[p].age = 0)
      /\ j \in [at : {"idle", "ask", "write"}, todo : SUBSET Tickers,
                has : [Tickers -> SUBSET Fills], age : 0..1, good : BOOLEAN]
  BY <1>1, <1>4, <1>5 DEF Runs
<1>8. j \in Runs /\ (Job[table].atOnce => j.todo = {})
  BY <1>3, <1>7 DEF Runs
<1>9. TInv'
  BY <1>1, <1>3, <1>6, <1>8, TablesAre, GoesTyped DEF TInv, Runs, RowSet, Reads, Known, Fills
<1>10. ASSUME j.good PROVE \A k \in Through(j) : Kept(k, j.age)'
  <2>1. Waiting(j) = ks /\ job[p].good
    BY <1>7, <1>10 DEF Waiting
  <2>2. Through(j) \subseteq Through(job[p]) /\ Through(j) \subseteq Tickers
    BY <1>1, <1>7, <2>1, WantedAre DEF Through
  <2>3. job[p].at # "idle"
    BY DEF Fetch
  <2>4. \A k \in Through(j) : Kept(k, j.age)
    <3> PICK m : m = job[p].age
      OBVIOUS
    <3> QED BY <1>7, <2>1, <2>2, <2>3 DEF KInv
  <2> QED BY <1>3, <1>8, <2>2, <2>4, RowsStay, NumbersAre DEF Runs
<1>11. KInv'
  BY <1>1, <1>3, <1>6, <1>8, <1>10, GoesKeeps, RowsStay
<1> QED BY <1>9, <1>11
\* How many days an answer covers; and no table both goes by the day of the event and is
\* inserted into.
LEMMA DaysAre ==
    /\ \A t \in DOMAIN Job : Job[t].days \in 1..2
    /\ ByEvent \cap Inserted = {}
<1>1. \A t \in DOMAIN Job : Job[t].days \in 1..2
  BY DEF Job, RefreshUniverse, RefreshMarketPrices, RefreshCrossAssetPrices, RefreshFundamentals,
         RefreshEarnings, RefreshRevisions, RefreshNewsSentiment, RefreshOptionsFlow,
         RefreshDarkPool, RefreshInsiderTrades
<1>2. ByEvent \cap Inserted = {}
  BY DEF ByEvent, Inserted
<1> QED BY <1>1, <1>2

LEMMA DaysOfIs == \A d : DaysOf(d) \subseteq Ages
  BY NumbersAre DEF DaysOf

LEMMA WriteStep ==
    ASSUME TInv, KInv, NEW p \in Procs, NEW k \in Tickers, Write(p, k)
    PROVE  TInv' /\ KInv'
<1> PICK age : age = job[p].age
  OBVIOUS
<1> PICK cols : cols = job[p].has[k]
  OBVIOUS
<1> DEFINE new(a) == [cols |-> cols, seen |-> IF table \in ByEvent THEN a ELSE age]
           takes(a) == a \in DaysOf(age) /\ ~(table \in Inserted /\ Younger(rows[k][a], age))
<1>1. /\ table \in DOMAIN Job /\ table # None /\ job[p] \in Runs /\ age \in 0..1
      /\ cols # {} /\ cols \subseteq Fills
  <2>1. job[p] \in Runs /\ table # None
    BY DEF Write, TInv, InOrder
  <2> QED BY <2>1 DEF Write, TInv, Runs, Waiting
<1>2. cols \subseteq Known
  <2>1. Fills \subseteq Known
    BY <1>1 DEF Write, Accepted, Fills, Filled, Known
  <2> QED BY <1>1, <2>1
<1>3. /\ rows' = [rows EXCEPT ![k] = [a \in Ages |-> IF takes(a) THEN new(a) ELSE rows[k][a]]]
      /\ Goes(p, [job[p] EXCEPT !.has[k] = {}]) /\ UNCHANGED <<table, keys, read>>
  BY DEF Write
<1>4. \A a \in Ages : new(a) \in RowSet /\ new(a).cols = cols
                      /\ new(a).seen = IF table \in ByEvent THEN a ELSE age
  BY <1>1, <1>2, NumbersAre DEF RowSet
<1>5. \A a \in Ages : rows'[k][a] = IF takes(a) THEN new(a) ELSE rows[k][a]
  BY <1>3 DEF TInv
<1>6. \A n \in Tickers \ {k} : rows'[n] = rows[n]
  BY <1>3 DEF TInv
<1> HIDE DEF new, takes
<1>7. rows' \in [Tickers -> [Ages -> RowSet]]
  BY <1>3, <1>4 DEF TInv
<1>8. \A n \in Tickers, a \in Ages : rows'[n][a] # NoData => rows'[n][a].cols # {}
  BY <1>1, <1>4, <1>5, <1>6 DEF TInv
<1>9. \A a \in Ages : rows[k][a].seen \in Nat /\ a \in Nat
  BY NumbersAre DEF TInv, RowSet
<1>10. \A n \in Tickers, d \in 0..Horizon : Kept(n, d) => Kept(n, d)'
  <2> SUFFICES ASSUME NEW n \in Tickers, NEW d \in 0..Horizon, Kept(n, d),
                      NEW a \in DaysOf(d), Promised(a, d)
               PROVE  /\ rows'[n][a].cols # {}
                      /\ table \notin Undated => rows'[n][a].seen <= LatestSeen(a, d)
    BY <1>3 DEF Kept, DaysOf, Promised, LatestSeen
  <2>1. a \in Ages /\ rows[n][a].cols # {}
        /\ (table \notin Undated => rows[n][a].seen <= LatestSeen(a, d))
    BY DaysOfIs DEF Kept
  <2>2. CASE n = k /\ takes(a)
    <3>1. rows'[n][a].cols = cols /\ rows'[n][a].seen = IF table \in ByEvent THEN a ELSE age
      BY <1>4, <1>5, <2>1, <2>2
    <3>2. CASE table \in ByEvent
      BY <1>1, <1>9, <2>1, <3>1, <3>2 DEF LatestSeen
    <3>3. CASE table \notin ByEvent /\ table \in Inserted
      <4>1. rows[k][a] # NoData
        BY <2>1, <2>2 DEF NoData
      <4>2. ~(rows[k][a].seen < age)
        BY <2>2, <3>3, <4>1 DEF takes, Younger
      <4>3. table \notin Undated => rows[k][a].seen <= d
        BY <2>1, <2>2, <3>3 DEF LatestSeen
      <4> QED BY <1>1, <1>9, <2>1, <3>1, <3>3, <4>2, <4>3 DEF LatestSeen
    <3>4. CASE table \notin ByEvent /\ table \notin Inserted
      BY <1>1, <3>1, <3>4 DEF LatestSeen
    <3> QED BY <3>2, <3>3, <3>4
  <2>3. CASE ~(n = k /\ takes(a))
    BY <1>5, <1>6, <2>1, <2>3
  <2> QED BY <2>2, <2>3
<1>11. Kept(k, age)'
  <2> SUFFICES ASSUME NEW a \in DaysOf(age), Promised(a, age)
               PROVE  /\ rows'[k][a].cols # {}
                      /\ table \notin Undated => rows'[k][a].seen <= LatestSeen(a, age)
    BY <1>3 DEF Kept, DaysOf, Promised, LatestSeen
  <2>1. a \in Ages
    BY DaysOfIs
  <2>2. CASE takes(a)
    BY <1>1, <1>4, <1>5, <1>9, <2>1, <2>2 DEF LatestSeen
  <2>3. CASE ~takes(a)
    <3>1. table \in Inserted /\ rows[k][a] # NoData /\ rows[k][a].seen < age
      BY <2>3 DEF takes, Younger
    <3>2. rows'[k][a] = rows[k][a] /\ rows[k][a].cols # {}
      BY <1>5, <2>1, <2>3, <3>1 DEF TInv
    <3> QED BY <1>1, <1>9, <2>1, <3>1, <3>2, DaysAre DEF LatestSeen
  <2> QED BY <2>2, <2>3
<1>12. PICK j : j = [job[p] EXCEPT !.has[k] = {}]
  OBVIOUS
<1>13. /\ j \in Runs /\ j.at = job[p].at /\ j.todo = job[p].todo /\ j.age = age
       /\ j.has = [job[p].has EXCEPT ![k] = {}] /\ j.good = job[p].good
  BY <1>1, <1>12 DEF Runs
<1>14. Goes(p, j) /\ job[p].at = "write" /\ (Job[table].atOnce => j.todo = {})
  <2>1. InOrder(job[p]) /\ job[p].at = "write"
    BY DEF Write, TInv
  <2> QED BY <1>3, <1>12, <1>13, <2>1 DEF InOrder
<1>15. TInv'
  BY <1>1, <1>3, <1>7, <1>8, <1>13, <1>14, TablesAre, GoesTyped DEF TInv, Runs, RowSet, Reads, Known, Fills
<1>16. ASSUME j.good PROVE \A n \in Through(j) : Kept(n, j.age)'
  <2> SUFFICES ASSUME NEW n \in Through(j) PROVE Kept(n, age)'
    BY <1>13
  <2>1. CASE n = k
    BY <1>11, <2>1
  <2>2. CASE n # k
    <3>1. n \in Tickers /\ n \in Through(job[p])
      <4>1. n \in Wanted /\ n \in Tickers /\ n \notin j.todo /\ j.has[n] = {}
        BY WantedAre DEF Through, Waiting
      <4>2. job[p].has[n] = {}
        BY <1>1, <1>13, <2>2, <4>1 DEF Runs
      <4> QED BY <1>13, <4>1, <4>2 DEF Through, Waiting
    <3>2. Kept(n, age)
      BY <1>13, <1>14, <1>16, <3>1 DEF KInv
    <3> QED BY <1>1, <1>10, <3>1, <3>2, NumbersAre
  <2> QED BY <2>1, <2>2
<1>17. KInv'
  BY <1>1, <1>3, <1>10, <1>13, <1>14, <1>16, GoesKeeps
<1> QED BY <1>15, <1>17

\* A run that ends otherwise leaves everything as it is.
LEMMA RunEnds ==
    ASSUME TInv, KInv, NEW p \in Procs, job' = [job EXCEPT ![p] = NoRun],
           UNCHANGED <<table, keys, rows, done, read>>
    PROVE  TInv' /\ KInv'
<1>1. \A q \in Procs : job'[q] = IF q = p THEN NoRun ELSE job[q]
  BY DEF TInv
<1>2. TInv'
  <2>1. \A q \in Procs : InOrder(job[q])'
    BY <1>1, NoRunIs DEF TInv, InOrder, Waiting
  <2> QED BY <2>1, NoRunIs DEF TInv, Runs, RowSet, Reads, Known, Fills
<1>3. \A k \in Tickers, d \in 0..Horizon : Kept(k, d) => Kept(k, d)'
  BY RowsStay
<1>4. KInv'
  <2>1. \A d \in done', k \in Wanted' : Kept(k, d)'
    BY <1>3, WantedAre, NumbersAre DEF KInv, TInv, Wanted
  <2>2. ASSUME NEW q \in Procs, job'[q].at # "idle", job'[q].good, NEW k \in Through(job'[q])
        PROVE  Kept(k, job[q].age)'
    <3>1. job'[q] = job[q] /\ job[q].age \in 0..Horizon /\ k \in Tickers
      <4>1. job'[q] = job[q]
        BY <1>1, <2>2, NoRunIs
      <4>2. job[q].age \in 0..1
        BY DEF TInv, Runs
      <4> QED BY <4>1, <4>2, NumbersAre, WantedAre DEF Through
    <3>2. PICK m : m = job[q].age
      OBVIOUS
    <3>3. Kept(k, m)'
      BY <1>3, <2>2, <3>1, <3>2 DEF KInv
    <3> QED BY <3>1, <3>2, <3>3
  <2>3. \A r : Through(r)' = Through(r)
    BY DEF Through, Wanted, Waiting
  <2> QED BY <2>1, <2>2, <2>3 DEF KInv
<1> QED BY <1>2, <1>4

LEMMA WriteFailsStep ==
    ASSUME TInv, KInv, NEW p \in Procs, NEW k \in Tickers, WriteFails(p, k)
    PROVE  TInv' /\ KInv'
<1>1. /\ table \in DOMAIN Job /\ job[p] \in Runs /\ InOrder(job[p]) /\ job[p].at = "write"
      /\ UNCHANGED <<table, keys, rows, read>>
  BY DEF WriteFails, TInv, InOrder
<1>2. CASE Job[table].ends
  <2>1. job' = [job EXCEPT ![p] = NoRun] /\ UNCHANGED done
    BY <1>2 DEF WriteFails
  <2> QED BY <1>1, <2>1, RunEnds
<1>3. CASE ~Job[table].ends
  <2>1. PICK j : j = [job[p] EXCEPT !.has[k] = {}, !.good = FALSE]
    OBVIOUS
  <2>2. j \in Runs /\ j.todo = job[p].todo /\ j.good = FALSE
    BY <1>1, <2>1 DEF Runs
  <2>3. Goes(p, j) /\ (Job[table].atOnce => j.todo = {})
    BY <1>1, <1>3, <2>1, <2>2 DEF WriteFails, InOrder
  <2>4. TInv'
    BY <1>1, <2>2, <2>3, TablesAre, GoesTyped DEF TInv, Runs, RowSet, Reads, Known, Fills
  <2>5. KInv'
    BY <1>1, <2>2, <2>3, GoesKeeps, RowsStay
  <2> QED BY <2>4, <2>5
<1> QED BY <1>2, <1>3

LEMMA CrashStep ==
    ASSUME TInv, KInv, NEW p \in Procs, Crash(p)
    PROVE  TInv' /\ KInv'
  BY RunEnds DEF Crash
----------------------------------------------------------------------------
(* The cleanup and the calendar.                                           *)

\* What the cleanup promises to leave is young enough.
LEMMA PromisedIsYoung ==
    ASSUME table \in DOMAIN Job, table \notin Undated, NEW d \in Nat, NEW a \in DaysOf(d),
           Promised(a, d)
    PROVE  LatestSeen(a, d) <= Keep
<1>1. a \in Nat /\ d <= a /\ a < d + 2
  <2>1. a \in Nat /\ d <= a /\ a < d + Job[table].days
    BY NumbersAre DEF DaysOf
  <2> QED BY <2>1, DaysAre
<1>2. CASE table \in ByEvent
  <2>1. a <= Keep
    BY <1>1, <1>2, DaysAre, NumbersAre DEF Promised
  <2> QED BY <1>2, <2>1 DEF LatestSeen
<1>3. CASE table \notin ByEvent
  BY <1>3, NumbersAre DEF Promised, LatestSeen
<1> QED BY <1>2, <1>3

LEMMA CleanupStep ==
    ASSUME TInv, KInv, CleanupOldData
    PROVE  TInv' /\ KInv'
<1>1. /\ table \notin Undated /\ UNCHANGED <<table, keys, job, done, read>>
      /\ \A k \in Tickers, a \in Ages :
           rows'[k][a] = IF Old(rows[k][a]) THEN NoData ELSE rows[k][a]
  BY DEF CleanupOldData
<1>2. rows' \in [Tickers -> [Ages -> RowSet]]
  <2>1. NoData \in RowSet
    BY NumbersAre DEF NoData, RowSet
  <2> QED BY <2>1 DEF CleanupOldData, TInv
<1>3. TInv'
  <2>1. \A p \in Procs : InOrder(job[p])'
    BY <1>1 DEF TInv, InOrder, Waiting
  <2> QED BY <1>1, <1>2, <2>1 DEF TInv, Runs, RowSet, Reads, Known, Fills
<1>4. ASSUME NEW k \in Tickers, NEW d \in 0..Horizon, Kept(k, d), table # None
      PROVE  Kept(k, d)'
  <2> SUFFICES ASSUME NEW a \in DaysOf(d), Promised(a, d)
               PROVE  rows'[k][a].cols # {} /\ rows'[k][a].seen <= LatestSeen(a, d)
    BY <1>1 DEF Kept, DaysOf, Promised, LatestSeen
  <2>1. a \in Ages /\ rows[k][a].cols # {} /\ rows[k][a].seen <= LatestSeen(a, d)
    BY <1>1, <1>4, DaysOfIs DEF Kept
  <2>2. LatestSeen(a, d) <= Keep
    BY <1>1, <1>4, PromisedIsYoung DEF TInv
  <2>3. LatestSeen(a, d) \in Int /\ rows[k][a].seen \in Int
    BY <2>1, NumbersAre DEF LatestSeen, TInv, RowSet
  <2>4. ~Old(rows[k][a])
    BY <2>1, <2>2, <2>3, NumbersAre DEF Old
  <2> QED BY <1>1, <2>1, <2>4
<1>5. KInv'
  <2>1. \A d \in done', k \in Wanted' : Kept(k, d)'
    <3>1. done \subseteq 0..Horizon /\ Wanted \subseteq Tickers
      BY WantedAre, NumbersAre DEF TInv
    <3>2. CASE table = None
      BY <1>1, <3>2 DEF TInv
    <3>3. CASE table # None
      BY <1>1, <1>4, <3>1, <3>3 DEF KInv, Wanted
    <3> QED BY <3>2, <3>3
  <2>2. ASSUME NEW p \in Procs, job[p].at # "idle", job[p].good, NEW k \in Through(job[p])
        PROVE  Kept(k, job[p].age)'
    <3>1. PICK m : m = job[p].age
      OBVIOUS
    <3>2. m \in 0..Horizon /\ k \in Tickers /\ Kept(k, m) /\ table # None
      BY <2>2, <3>1, NumbersAre, WantedAre DEF KInv, TInv, Runs, Through, InOrder
    <3>3. Kept(k, m)'
      BY <1>4, <3>2
    <3> QED BY <1>1, <3>1, <3>3
  <2>3. \A r : Through(r)' = Through(r)
    BY <1>1 DEF Through, Wanted, Waiting
  <2> QED BY <1>1, <2>1, <2>2, <2>3 DEF KInv
<1> QED BY <1>3, <1>5

LEMMA NextDayStep ==
    ASSUME TInv, KInv, NextDay
    PROVE  TInv' /\ KInv'
<1> DEFINE Older(n) == IF n = Horizon THEN Horizon ELSE n + 1
           Aged(row) == IF row = NoData THEN row ELSE [row EXCEPT !.seen = Older(@)]
           moved(k, a) == IF table \in Undated THEN rows[k][a]
                          ELSE IF a = 0 THEN NoData ELSE Aged(rows[k][a - 1])
<1>1. /\ table # None /\ table \in DOMAIN Job /\ UNCHANGED <<table, keys, read>>
      /\ \A p \in Procs : job[p].at # "idle" => job[p].age = 0
      /\ rows' = [k \in Tickers |-> [a \in Ages |-> moved(k, a)]]
      /\ job' = [p \in Procs |-> IF job[p].at = "idle" THEN job[p] ELSE [job[p] EXCEPT !.age = 1]]
      /\ done' = {d + 1 : d \in done} \ {Horizon}
  BY DEF NextDay, TInv
<1>2. \A n \in Ages : Older(n) \in Ages /\ Older(n) <= n + 1
  BY NumbersAre DEF Ages
<1>3. ASSUME NEW row \in RowSet, row # NoData
      PROVE  Aged(row) \in RowSet /\ Aged(row).cols = row.cols /\ Aged(row).seen <= row.seen + 1
  <2>1. row.seen \in Ages /\ Aged(row) = [row EXCEPT !.seen = Older(row.seen)]
    BY <1>3 DEF RowSet
  <2>2. Older(row.seen) \in Ages /\ Older(row.seen) <= row.seen + 1
    BY <1>2, <2>1
  <2> HIDE DEF Older, Aged
  <2>3. PICK seen : seen = Older(row.seen)
    OBVIOUS
  <2>4. PICK r : r = [row EXCEPT !.seen = seen]
    OBVIOUS
  <2>5. r \in RowSet /\ r.cols = row.cols /\ r.seen = seen
    BY <2>2, <2>3, <2>4 DEF RowSet
  <2> QED BY <2>1, <2>2, <2>3, <2>4, <2>5
<1>4. NoData \in RowSet /\ NoData.cols = {}
  BY NumbersAre DEF NoData, RowSet
<1>5. Aged(NoData) = NoData
  OBVIOUS
<1> HIDE DEF Older, Aged
<1>6. \A a \in Ages : a # 0 => a - 1 \in Ages
  BY NumbersAre DEF Ages
<1>7. ASSUME NEW k \in Tickers, NEW a \in Ages
      PROVE  moved(k, a) \in RowSet /\ (moved(k, a) # NoData => moved(k, a).cols # {})
  <2>1. \A b \in Ages : rows[k][b] \in RowSet /\ (rows[k][b] # NoData => rows[k][b].cols # {})
    BY DEF TInv
  <2>2. \A b \in Ages : Aged(rows[k][b]) \in RowSet
                        /\ (Aged(rows[k][b]) # NoData => Aged(rows[k][b]).cols # {})
    BY <1>3, <1>4, <1>5, <2>1
  <2> QED BY <1>4, <1>6, <2>1, <2>2
<1> HIDE DEF moved
<1>8. /\ rows' \in [Tickers -> [Ages -> RowSet]]
      /\ \A k \in Tickers, a \in Ages : rows'[k][a] # NoData => rows'[k][a].cols # {}
  BY <1>1, <1>7
<1>9. ASSUME NEW p \in Procs
      PROVE  /\ job'[p] \in Runs /\ job'[p].at = job[p].at /\ job'[p].todo = job[p].todo
             /\ job'[p].has = job[p].has /\ job'[p].good = job[p].good
             /\ job'[p].at # "idle" => job'[p].age = 1
  <2>1. job[p] \in Runs
    BY DEF TInv
  <2>2. PICK n : n = [job[p] EXCEPT !.age = 1]
    OBVIOUS
  <2>3. /\ n \in Runs /\ n.at = job[p].at /\ n.todo = job[p].todo
        /\ n.has = job[p].has /\ n.good = job[p].good /\ n.age = 1
    BY <2>1, <2>2 DEF Runs
  <2>4. job'[p] = IF job[p].at = "idle" THEN job[p] ELSE n
    BY <1>1, <2>2
  <2> QED BY <2>1, <2>3, <2>4
<1>10. TInv'
  <2>1. \A p \in Procs : InOrder(job[p])'
    BY <1>1, <1>9 DEF TInv, InOrder, Waiting
  <2>2. job' \in [Procs -> Runs]
    BY <1>1, <1>9, Zenon
  <2>3. done' \subseteq 0..Horizon - 1
    <3> SUFFICES ASSUME NEW e \in done' PROVE e \in 0..Horizon - 1
      OBVIOUS
    <3>1. PICK d \in done : e = d + 1 /\ e # Horizon
      BY <1>1
    <3>2. d \in 0..Horizon - 1
      BY DEF TInv
    <3> QED BY <3>1, <3>2, NumbersAre
  <2> QED BY <1>1, <1>8, <2>1, <2>2, <2>3 DEF TInv, Runs, RowSet, Reads, Known, Fills
\* What was kept of a run is, a day later, kept of a run that is a day older.
<1>11. ASSUME NEW k \in Tickers, NEW d \in 0..Horizon, Kept(k, d)
       PROVE  Kept(k, d + 1)'
  <2> SUFFICES ASSUME NEW a \in DaysOf(d + 1), Promised(a, d + 1)
               PROVE  /\ rows'[k][a].cols # {}
                      /\ table \notin Undated => rows'[k][a].seen <= LatestSeen(a, d + 1)
    BY <1>1 DEF Kept, DaysOf, Promised, LatestSeen
  <2>1. a \in Ages /\ rows'[k][a] = moved(k, a)
    BY <1>1, DaysOfIs
  <2>2. CASE table \in Undated
    BY <1>11, <2>1, <2>2 DEF Kept, DaysOf, Promised, moved
  <2>3. CASE table \notin Undated
    <3>1. a \in Nat /\ d \in Nat /\ d + 1 <= a /\ a < d + 1 + Job[table].days
          /\ Job[table].days \in Nat
      BY <1>1, <2>3, DaysAre, NumbersAre DEF DaysOf
    <3>2. a # 0 /\ a - 1 \in Ages /\ a - 1 \in DaysOf(d)
      BY <1>6, <2>1, <2>3, <3>1 DEF DaysOf
    <3>3. Promised(a - 1, d)
      BY <2>3, <3>1, NumbersAre DEF Promised
    <3>4. rows[k][a - 1].cols # {} /\ rows[k][a - 1].seen <= LatestSeen(a - 1, d)
      BY <1>11, <2>3, <3>2, <3>3 DEF Kept
    <3>5. rows'[k][a] = Aged(rows[k][a - 1]) /\ rows[k][a - 1] # NoData
      BY <1>4, <2>1, <2>3, <3>2, <3>4 DEF moved
    <3>6. rows[k][a - 1] \in RowSet /\ rows[k][a - 1].seen \in Nat
      BY <3>2, NumbersAre DEF TInv, RowSet
    <3>7. /\ rows'[k][a].cols # {} /\ rows'[k][a].seen <= rows[k][a - 1].seen + 1
          /\ rows'[k][a].seen \in Nat
      BY <1>3, <3>4, <3>5, <3>6, <1>8, <2>1, NumbersAre DEF RowSet
    <3>8. LatestSeen(a - 1, d) + 1 = LatestSeen(a, d + 1) /\ LatestSeen(a - 1, d) \in Int
      BY <3>1 DEF LatestSeen
    <3> QED BY <3>4, <3>6, <3>7, <3>8
  <2> QED BY <2>2, <2>3
<1>12. KInv'
  <2>1. ASSUME NEW d \in done', NEW k \in Wanted
        PROVE  Kept(k, d)'
    <3>1. PICK e \in done : d = e + 1
      BY <1>1, <2>1
    <3>2. e \in 0..Horizon /\ k \in Tickers /\ Kept(k, e)
      BY <3>1, WantedAre, NumbersAre DEF TInv, KInv
    <3> QED BY <1>11, <3>1, <3>2
  <2>2. ASSUME NEW p \in Procs, job'[p].at # "idle", job'[p].good, NEW k \in Through(job[p])
        PROVE  Kept(k, job[p].age)'
    <3>1. Kept(k, 0) /\ k \in Tickers
      BY <1>1, <1>9, <2>2, WantedAre DEF KInv, Through
    <3>2. Kept(k, 1)'
      BY <1>11, <3>1, NumbersAre
    <3> QED BY <1>9, <2>2, <3>2
  <2>3. \A p \in Procs : Through(job[p])' = Through(job[p])
    BY <1>1, <1>9 DEF Through, Wanted, Waiting
  <2>4. Wanted' = Wanted
    BY <1>1 DEF Wanted
  <2> QED BY <2>1, <2>2, <2>3, <2>4 DEF KInv
<1> QED BY <1>10, <1>12
----------------------------------------------------------------------------
(* The readers.                                                            *)

\* The second a reader of the revisions may ask is Yahoo.
LEMMA RevisionsAskYahoo ==
    ASSUME NEW i \in DOMAIN Readers["analyst_revisions"].asks
    PROVE  i = 2 => Readers["analyst_revisions"].asks[i].op.source = "yfinance"
<1>1. Readers["analyst_revisions"] = GetAnalystRevisions
  BY DEF Readers
<1>2. GetAnalystRevisions.asks[2].op.source = "yfinance"
  BY DEF GetAnalystRevisions, Reader, Ask, Only, YfGetAnalystRevisions, One, Op
<1> QED BY <1>1, <1>2

LEMMA InTableIs ==
    ASSUME TInv, NEW f \in DOMAIN Readers, NEW k \in Tickers, table # None
    PROVE  InTable(f, k) \subseteq Known
<1>1. CASE Present(k) = {}
  BY <1>1 DEF InTable
<1>2. CASE Present(k) # {}
  <2>1. Present(k) \subseteq Ages /\ Present(k) \subseteq Nat
    BY NumbersAre DEF Present
  <2>2. \E a \in Present(k) : \A b \in Present(k) : a <= b
    BY <1>2, <2>1, MinIs
  <2>3. PICK a \in Ages : Newest(k) = rows[k][a].cols
    BY <2>1, <2>2 DEF Newest
  <2>4. Newest(k) \subseteq Known
    BY <2>3 DEF TInv, RowSet
  <2> QED BY <2>4 DEF InTable
<1> QED BY <1>1, <1>2

\* What the providers' turn brings, and who has had it.
LEMMA LiveIs ==
    ASSUME NEW f \in DOMAIN Readers, NEW r \in Live(Readers[f].asks)
    PROVE  /\ r.got \subseteq AllFields /\ r.asked \subseteq keys \union Free
           /\ r.got = {} => \A i \in InTurn(Readers[f].asks) :
                \/ Readers[f].asks[i].op.source \in r.asked
                \/ f = "analyst_revisions" /\ Readers[f].asks[i].op.source = "yfinance"
<1> DEFINE asks == Readers[f].asks
<1>1. PICK said \in Says(asks) :
        LET turn == {i \in InTurn(asks) :
                       \A j \in InTurn(asks) : j < i => ~asks[j].only /\ said[j] = {}}
        IN  r = [got |-> UNION {said[i] : i \in turn}, asked |-> {asks[i].op.source : i \in turn}]
  BY DEF Live
<1> DEFINE turn == {i \in InTurn(asks) :
                      \A j \in InTurn(asks) : j < i => ~asks[j].only /\ said[j] = {}}
<1>2. r.got = UNION {said[i] : i \in turn} /\ r.asked = {asks[i].op.source : i \in turn}
  BY <1>1
<1>3. InTurn(asks) \subseteq DOMAIN asks /\ \A i \in InTurn(asks) : asks[i].op.source \in keys \union Free
  BY DEF InTurn, Configured
<1>4. \A i \in DOMAIN asks : said[i] \subseteq FieldsOf(asks[i].op)
  BY AnswersAre DEF Says
<1>5. \A i \in DOMAIN asks : FieldsOf(asks[i].op) \subseteq AllFields
  BY DEF AllFields
<1>6. DOMAIN asks \in {{1}, {1, 2}} /\ (asks[1].only /\ 2 \in DOMAIN asks => f = "analyst_revisions")
  BY ReadersAre DEF Proper
<1>7. turn \subseteq InTurn(asks)
  OBVIOUS
<1>8. r.got \subseteq AllFields
  <2> HIDE DEF turn, asks
  <2> QED BY <1>2, <1>3, <1>4, <1>5, <1>7
<1>9. r.asked \subseteq keys \union Free
  <2> HIDE DEF turn, asks
  <2> QED BY <1>2, <1>3, <1>7
<1>10. ASSUME r.got = {}, NEW i \in InTurn(asks)
       PROVE  \/ asks[i].op.source \in r.asked
              \/ f = "analyst_revisions" /\ asks[i].op.source = "yfinance"
  <2>1. CASE i \in turn
    <3> HIDE DEF turn, asks
    <3> QED BY <1>2, <2>1
  <2>2. CASE i \notin turn
    <3>1. PICK j \in InTurn(asks) : j < i /\ (asks[j].only \/ said[j] # {})
      BY <2>2
    <3>2. i = 2 /\ j = 1 /\ 2 \in DOMAIN asks
      <4> HIDE DEF asks
      <4> QED BY <1>3, <1>6, <3>1
    <3>3. j \in turn
      <4>1. \A n \in InTurn(asks) : ~(n < j)
        <5> HIDE DEF asks
        <5> QED BY <1>3, <1>6, <3>2
      <4> QED BY <4>1
    <3>4. said[j] = {}
      <4> HIDE DEF turn, asks
      <4> QED BY <1>2, <1>10, <3>3
    <3>5. f = "analyst_revisions"
      <4> HIDE DEF turn, asks
      <4> QED BY <1>6, <3>1, <3>2, <3>4
    <3> QED BY <3>2, <3>5, RevisionsAskYahoo
  <2> QED BY <2>1, <2>2
<1> QED BY <1>8, <1>9, <1>10

\* A reader changes nothing but what it got.
LEMMA ReadersChangeNothing ==
    ASSUME TInv, KInv, UNCHANGED <<table, keys, rows, job, done>>, read' \in Reads
    PROVE  TInv' /\ KInv'
<1>1. TInv'
  <2>1. \A p \in Procs : InOrder(job[p])'
    BY DEF TInv, InOrder, Waiting
  <2> QED BY <2>1 DEF TInv, Runs, RowSet, Reads, Known, Fills
<1>2. KInv'
  BY DEF KInv, Kept, DaysOf, Promised, LatestSeen, Through, Wanted, Waiting
<1> QED BY <1>1, <1>2

LEMMA ReadStep ==
    ASSUME TInv, KInv, NEW f \in DOMAIN Readers, NEW k \in Tickers, Read(f, k)
    PROVE  TInv' /\ KInv' /\ NothingOnlyAfterAll'
<1>1. Readers[f].table = table /\ UNCHANGED <<table, keys, rows, job, done>>
  BY DEF Read
<1>2. None \notin DOMAIN Readers
  BY DEF None, Readers
<1>3. CASE InTable(f, k) # {} /\ read' = [reader |-> f, silent |-> FALSE, got |-> InTable(f, k),
                                          asked |-> Completed(f, InTable(f, k))]
  <2>1. PICK got : got = InTable(f, k)
    OBVIOUS
  <2>2. PICK asked : asked = Completed(f, got)
    OBVIOUS
  <2>3. got \subseteq AllColumns
    <3>1. CASE table = None
      <4>1. \A n \in Tickers : Present(n) = {}
        BY <3>1 DEF Present, TInv, RowSet, Known
      <4> QED BY <4>1, <1>3 DEF InTable
    <3>2. CASE table # None
      BY <2>1, <3>2, InTableIs, TablesAre DEF Known, TInv
    <3> QED BY <3>1, <3>2
  <2>4. asked \subseteq Free
    BY <2>2 DEF Completed, Free
  <2>5. read' = [reader |-> f, silent |-> FALSE, got |-> got, asked |-> asked]
    BY <1>3, <2>1, <2>2
  <2>6. read' \in Reads
    BY <2>3, <2>4, <2>5 DEF Reads
  <2>7. NothingOnlyAfterAll'
    BY <1>3, <2>1, <2>5 DEF NothingOnlyAfterAll
  <2> QED BY <1>1, <2>6, <2>7, ReadersChangeNothing
<1>4. CASE \E r \in Live(Readers[f].asks) :
             read' = [reader |-> f, silent |-> InTable(f, k) # {}, got |-> r.got, asked |-> r.asked]
  <2>1. PICK r \in Live(Readers[f].asks) :
          read' = [reader |-> f, silent |-> InTable(f, k) # {}, got |-> r.got, asked |-> r.asked]
    BY <1>4
  <2>2. PICK silent \in BOOLEAN : silent = (InTable(f, k) # {})
    OBVIOUS
  <2>3. /\ r.got \subseteq AllFields /\ r.asked \subseteq keys \union Free
        /\ r.got = {} => \A i \in InTurn(Readers[f].asks) :
             \/ Readers[f].asks[i].op.source \in r.asked
             \/ f = "analyst_revisions" /\ Readers[f].asks[i].op.source = "yfinance"
    BY <2>1, LiveIs
  <2>4. read' = [reader |-> f, silent |-> silent, got |-> r.got, asked |-> r.asked]
    BY <2>1, <2>2
  <2>5. read' \in Reads
    BY <2>3, <2>4 DEF Reads
  <2>6. NothingOnlyAfterAll'
    <3>1. read'.reader = f /\ read'.got = r.got /\ read'.asked = r.asked
      BY <2>4
    <3>2. \A op : Configured(op)' = Configured(op)
      BY <1>1 DEF Configured
    <3> QED BY <2>3, <3>1, <3>2 DEF NothingOnlyAfterAll, InTurn
  <2> QED BY <1>1, <2>5, <2>6, ReadersChangeNothing
<1> QED BY <1>3, <1>4 DEF Read, AsksAll

LEMMA ReturnedStep ==
    ASSUME TInv, KInv, Returned
    PROVE  TInv' /\ KInv' /\ NothingOnlyAfterAll'
<1>1. NoRead \in Reads /\ NoRead.reader = None
  BY DEF NoRead, Reads
<1> QED BY <1>1, ReadersChangeNothing DEF Returned, NothingOnlyAfterAll

\* The other actions leave the last reader's answer, and the providers, alone.
LEMMA AnswerStays ==
    ASSUME NothingOnlyAfterAll, UNCHANGED <<keys, read>>
    PROVE  NothingOnlyAfterAll'
  BY DEF NothingOnlyAfterAll, Configured

----------------------------------------------------------------------------

LEMMA TablesStep ==
    ASSUME TInv, KInv, NothingOnlyAfterAll, [Next]_vars
    PROVE  TInv' /\ KInv' /\ NothingOnlyAfterAll'
<1>1. CASE UNCHANGED vars
  <2>1. UNCHANGED <<table, keys, rows, job, done>> /\ read' \in Reads /\ UNCHANGED read
    BY <1>1 DEF vars, TInv, Reads
  <2> QED BY <2>1, ReadersChangeNothing, AnswerStays
<1>2. ASSUME NEW p \in Procs, Begin(p)
      PROVE  TInv' /\ KInv' /\ NothingOnlyAfterAll'
  BY <1>2, BeginStep, AnswerStays DEF Begin
<1>3. ASSUME NEW p \in Procs, Crash(p)
      PROVE  TInv' /\ KInv' /\ NothingOnlyAfterAll'
  BY <1>3, CrashStep, AnswerStays DEF Crash
<1>4. ASSUME NEW p \in Procs, NEW ks \in SUBSET Tickers, Fetch(p, ks)
      PROVE  TInv' /\ KInv' /\ NothingOnlyAfterAll'
  BY <1>4, FetchStep, AnswerStays DEF Fetch
<1>5. ASSUME NEW p \in Procs, NEW k \in Tickers, Write(p, k)
      PROVE  TInv' /\ KInv' /\ NothingOnlyAfterAll'
  BY <1>5, WriteStep, AnswerStays DEF Write
<1>6. ASSUME NEW p \in Procs, NEW k \in Tickers, WriteFails(p, k)
      PROVE  TInv' /\ KInv' /\ NothingOnlyAfterAll'
  BY <1>6, WriteFailsStep, AnswerStays DEF WriteFails
<1>7. ASSUME NEW f \in DOMAIN Readers, NEW k \in Tickers, Read(f, k)
      PROVE  TInv' /\ KInv' /\ NothingOnlyAfterAll'
  BY <1>7, ReadStep
<1>8. CASE CleanupOldData
  BY <1>8, CleanupStep, AnswerStays DEF CleanupOldData
<1>9. CASE NextDay
  BY <1>9, NextDayStep, AnswerStays DEF NextDay
<1>10. CASE Returned
  BY <1>10, ReturnedStep
<1> QED BY <1>1, <1>2, <1>3, <1>4, <1>5, <1>6, <1>7, <1>8, <1>9, <1>10, Zenon DEF Next

LEMMA TablesInvariant == Spec => [](TInv /\ KInv /\ NothingOnlyAfterAll)
<1>1. Init => TInv /\ KInv /\ NothingOnlyAfterAll
  <2>1. Init => NothingOnlyAfterAll
    BY DEF Init, NoRead, NothingOnlyAfterAll
  <2> QED BY <2>1, InitialTables
<1>2. TInv /\ KInv /\ NothingOnlyAfterAll /\ [Next]_vars => (TInv /\ KInv /\ NothingOnlyAfterAll)'
  BY TablesStep
<1> QED BY <1>1, <1>2, PTL DEF Spec

\* The state of the tables has its types: a row holds only columns the schema has for
\* its table, whatever the job that wrote it was told, and a reader gets only columns of
\* the tables and fields a provider has.  (refresh_scheduler.py, fetcher.py)
THEOREM TablesTypes == Spec => []TypeOK
<1>1. TInv => TypeOK
  <2> SUFFICES ASSUME TInv PROVE TypeOK
    OBVIOUS
  <2>1. table \in DOMAIN Job \union {None} /\ keys \subseteq Keys
    BY DEF TInv
  <2>2. \A k \in Tickers, a \in Ages :
          /\ table # None => rows[k][a].cols \subseteq Columns[table]
          /\ rows[k][a].seen \in Ages
    BY DEF TInv, RowSet, Known
  <2>3. Fills \subseteq AllColumns
    BY <2>1, TablesAre DEF Fills
  <2>4. ASSUME NEW p \in Procs
        PROVE  /\ job[p].at \in {"idle", "ask", "write"}
               /\ job[p].todo \subseteq Tickers
               /\ \A k \in Tickers : job[p].has[k] \subseteq AllColumns
               /\ job[p].age \in 0..1 /\ job[p].good \in BOOLEAN
    <3>1. job[p] \in Runs
      BY DEF TInv
    <3>2. \A k \in Tickers : job[p].has[k] \subseteq Fills
      BY <3>1 DEF Runs
    <3> QED BY <2>3, <3>1, <3>2 DEF Runs
  <2>5. read.asked \subseteq keys \union Free /\ read.got \subseteq AllColumns \union AllFields
    BY DEF TInv, Reads
  <2>6. done \subseteq 0..Horizon - 1
    BY DEF TInv
  <2> QED BY <2>1, <2>2, <2>4, <2>5, <2>6 DEF TypeOK, Keys
<1> QED BY <1>1, TablesInvariant, PTL

\* A run that went well from end to end leaves its rows to the readers for as long as the
\* cleanup promises: for any processes, tickers and days, whatever the other runs write
\* over them, whoever crashes, and however the day changes under a run.
\* (refresh_scheduler.py: the refresh jobs and cleanup_old_data)
THEOREM CompletedRunsLeaveRows == Spec => []RowsOfCompletedRuns
<1>1. KInv => RowsOfCompletedRuns
  BY DEF KInv, Kept, RowsOfCompletedRuns
<1> QED BY <1>1, TablesInvariant, PTL

\* A reader that comes back with nothing has asked everybody who is configured, save Yahoo
\* for the revisions, whatever the providers answered.  (DataFetcher)
THEOREM NothingWithoutAsking == Spec => []NothingOnlyAfterAll
<1> QED BY TablesInvariant, PTL
=============================================================================
