----------------------------- MODULE Overnight ------------------------------
(***************************************************************************)
(* The overnight scanner's memory: the log of picks and the log of costs,  *)
(* each one value of the data cache that jobs read, extend and write back. *)
(* The jobs are the manual scan of the API, the scans and the morning      *)
(* check that both processes schedule, and the check on request.           *)
(*                                                                         *)
(* Time is counted in half days: 2*d is the trading time of day d, 2*d + 1 *)
(* the night after it.  Of a symbol only what the pre-filters look at is   *)
(* modelled, of the model's answer only which symbols it says to buy.      *)
(* The cap of the cost log (100 calls) is beyond the bound on scans.       *)
(***************************************************************************)
EXTENDS Integers, Sequences, FiniteSets, SequencesExt

CONSTANTS
    Procs,          \* the API process and the worker
    Api,            \* the API process
    Threads,        \* threads that run jobs
    Home,           \* the process of each thread
    Stocks, Coins,  \* symbols
    TradingDays,    \* days with a session
    MaxTime,        \* bound: half days
    MaxLog,         \* _MAX_LOG_ENTRIES
    MaxScans,       \* bound: scans that ask the model
    MaxChecks       \* bound: checks of outcomes

ASSUME OvernightBounds ==
    /\ Api \in Procs /\ Home \in [Threads -> Procs]
    /\ Stocks \cap Coins = {} /\ IsFiniteSet(Stocks) /\ IsFiniteSet(Coins)
    /\ TradingDays \subseteq Nat
    /\ MaxTime \in Nat /\ MaxLog \in Nat \ {0} /\ MaxScans \in Nat /\ MaxChecks \in Nat

VARIABLES
    now,            \* half days since the start
    shared,         \* whether the processes have Redis in common
    log,            \* overnight:pick_log as each process sees it
    costs,          \* the scans in overnight:cost_log, likewise
    pc,             \* where the job of each thread stands
    job,            \* its kind, the scan, the buys, and what it has read
    scans, checks,  \* so far
    bought,         \* every pick handed to log_scan_result
    charged,        \* every scan handed to the cost log
    alone           \* no job has met another's read and write, no memory was lost

vars == <<now, shared, log, costs, pc, job, scans, checks, bought, charged, alone>>

Symbols == Stocks \cup Coins
Day == now \div 2
InSession == now % 2 = 0 /\ Day \in TradingDays

Pending == [at |-> -1, won |-> FALSE, error |-> FALSE]
NoPrice == [at |-> -1, won |-> FALSE, error |-> TRUE]

NoJob == [kind |-> "none", scan |-> 0, buys |-> {}, priced |-> {}, seen |-> <<>>, bills |-> {}]

----------------------------------------------------------------------------
(* The pre-filters, on the values at and beside their thresholds.          *)

\* Prices in dollars, volumes in thousands, ratios and changes in tenths.
StockFacts == [error : BOOLEAN, price : {2, 3}, volume : {99, 100}, ratio : {14, 15},
               change : {-20, 0, 19}, rsi : {30, 50, 70}, pctB : {4, 50, 96}, insider : BOOLEAN]

LiquidityFloor(f) == f.price >= 3 /\ f.volume >= 100

Magnitude(x) == IF x < 0 THEN -x ELSE x

PassesStockPrefilter(f) ==
    /\ ~f.error
    /\ LiquidityFloor(f)
    /\ \/ f.ratio >= 15
       \/ Magnitude(f.change) >= 20
       \/ f.insider
       \/ f.rsi <= 30 \/ f.rsi >= 70
       \/ f.pctB < 5 \/ f.pctB > 95

CoinFacts == [error : BOOLEAN, ratio : {12, 13}, change : {-30, 0, 29}, rsi : {25, 50, 75}]

PassesCryptoPrefilter(f) ==
    /\ ~f.error
    /\ \/ f.ratio >= 13
       \/ Magnitude(f.change) >= 30
       \/ f.rsi <= 25 \/ f.rsi >= 75

\* What a symbol's facts can come to: filtered out, or sent with a price.
FetchSingleStock == {PassesStockPrefilter(f) : f \in StockFacts}
FetchSingleCrypto == {PassesCryptoPrefilter(f) : f \in CoinFacts}

AssembleStockData == {{s \in Stocks : sent[s]} : sent \in [Stocks -> FetchSingleStock]}
AssembleCryptoData == {{c \in Coins : sent[c]} : sent \in [Coins -> FetchSingleCrypto]}

----------------------------------------------------------------------------
Init ==
    /\ now = 0
    /\ shared \in BOOLEAN
    /\ log = [p \in Procs |-> <<>>]
    /\ costs = [p \in Procs |-> {}]
    /\ pc = [t \in Threads |-> "idle"]
    /\ job = [t \in Threads |-> NoJob]
    /\ scans = 0 /\ checks = 0
    /\ bought = <<>> /\ charged = {}
    /\ alone = TRUE

\* data_cache.set: seen by the other process only through Redis.
Written(f, p, v) == [q \in Procs |-> IF shared \/ q = p THEN v ELSE f[q]]

\* A thread's read and write of either log are apart: others may come between.
Busy(t) == pc[t] \in {"billed", "read", "resolved"}

Running(p, kind) == \E t \in Threads : Home[t] = p /\ pc[t] # "idle" /\ job[t].kind = kind

(* _inject_entry_prices, which only the manual scan calls: the price of    *)
(* the data that was sent.  The answer's own format holds no price.        *)
InjectEntryPrices(kind, buys, sent) == IF kind = "manual" THEN buys \cap sent ELSE {}

\* A scan, up to the model's answer.
Scan(t, kind, stockData, coinData) ==
    /\ pc[t] = "idle"
    /\ ~Running(Home[t], kind)
    /\ scans < MaxScans
    /\ scans' = scans + 1
    /\ \E sent \in stockData, pairs \in coinData, buys \in SUBSET Symbols :
          job' = [job EXCEPT ![t] =
              [kind |-> kind, scan |-> scans + 1, buys |-> buys,
               seen |-> <<>>, bills |-> {},
               priced |-> InjectEntryPrices(kind, buys, sent \cup pairs)]]
    /\ pc' = [pc EXCEPT ![t] = "answered"]
    /\ UNCHANGED <<now, shared, log, costs, checks, bought, charged, alone>>

ManualScan(t) ==
    /\ Home[t] = Api
    /\ \/ Scan(t, "manual", AssembleStockData, AssembleCryptoData)
       \/ Scan(t, "manual", AssembleStockData, {{}})
       \/ Scan(t, "manual", {{}}, AssembleCryptoData)

\* Daily at 3 PM, on days without a session too.
ScheduledStocks(t) == now % 2 = 0 /\ Scan(t, "stocks", AssembleStockData, {{}})

ScheduledCrypto(t) == Scan(t, "crypto", {{}}, AssembleCryptoData)

\* The cost log is read ...
ReadCosts(t) ==
    /\ pc[t] = "answered"
    /\ pc' = [pc EXCEPT ![t] = "billed"]
    /\ job' = [job EXCEPT ![t].bills = costs[Home[t]]]
    /\ alone' = (alone /\ \A u \in Threads : ~Busy(u))
    /\ UNCHANGED <<now, shared, log, costs, scans, checks, bought, charged>>

\* ... and written; then the answer may turn out not to be JSON.
WriteCosts(t) ==
    /\ pc[t] = "billed"
    /\ costs' = Written(costs, Home[t], job[t].bills \cup {job[t].scan})
    /\ charged' = charged \cup {job[t].scan}
    /\ \/ pc' = [pc EXCEPT ![t] = "parsed"] /\ UNCHANGED job
       \/ pc' = [pc EXCEPT ![t] = "idle"] /\ job' = [job EXCEPT ![t] = NoJob]
    /\ UNCHANGED <<now, shared, log, scans, checks, bought, alone>>

\* log_scan_result: the pick log is read ...
ReadLog(t) ==
    /\ pc[t] = "parsed"
    /\ pc' = [pc EXCEPT ![t] = "read"]
    /\ job' = [job EXCEPT ![t].seen = log[Home[t]]]
    /\ alone' = (alone /\ \A u \in Threads : ~Busy(u))
    /\ UNCHANGED <<now, shared, log, costs, scans, checks, bought, charged>>

Pick(t, s) == [scan |-> job[t].scan, kind |-> job[t].kind, symbol |-> s, at |-> now,
               priced |-> s \in job[t].priced, outcome |-> Pending]

Logged(t, S) == [i \in 1..Cardinality(S) |-> Pick(t, SetToSeq(S)[i])]

\* history[-n:] of a sequence.
LastOf(s, n) == IF Len(s) <= n THEN s ELSE SubSeq(s, Len(s) - n + 1, Len(s))

\* Mutants: not cut; the oldest entries kept; the new entries in front.
ExtendedUncut(seen, new) == seen \o new
ExtendedOldest(seen, new) == SubSeq(seen \o new, 1, IF Len(seen \o new) < MaxLog THEN Len(seen \o new) ELSE MaxLog)
ExtendedFront(seen, new) == LastOf(new \o seen, MaxLog)

Extended(seen, new) == LastOf(seen \o new, MaxLog)

\* ... extended by the stocks and then the coins to buy, cut and written.
WriteLog(t) ==
    /\ pc[t] = "read"
    /\ LET new == Logged(t, job[t].buys \cap Stocks) \o Logged(t, job[t].buys \cap Coins) IN
          /\ log' = Written(log, Home[t], Extended(job[t].seen, new))
          /\ bought' = bought \o new
    /\ pc' = [pc EXCEPT ![t] = "idle"]
    /\ job' = [job EXCEPT ![t] = NoJob]
    /\ UNCHANGED <<now, shared, costs, scans, checks, alone, charged>>

----------------------------------------------------------------------------
(* The check of outcomes.                                                  *)

\* The daily bars of the last two days; the latest one prices a stock.
Bars == {d \in TradingDays : d >= Day - 2 /\ 2 * d <= now}
LatestOpen == CHOOSE d \in Bars : \A e \in Bars : e <= d

\* What pricing a pick comes to; a source may not answer.
Priced(p) ==
    IF ~p.priced THEN {NoPrice}
    ELSE {Pending} \cup
         [at : IF p.symbol \in Coins THEN {now}
               ELSE IF Bars = {} THEN {} ELSE {2 * LatestOpen},
          won : BOOLEAN, error : {FALSE}]

\* Mutant: picks that have an outcome are priced again.
OutcomesAgain(p) == Priced(p)

\* The outcomes a pick may have after a check.
Outcomes(p) == IF p.outcome # Pending THEN {p.outcome} ELSE Priced(p)

\* The morning job, on weekdays at 9:35, and the request of a user.
CheckOutcomes(t) ==
    /\ pc[t] = "idle"
    /\ InSession \/ Home[t] = Api
    /\ checks < MaxChecks
    /\ checks' = checks + 1
    /\ log[Home[t]] # <<>>
    /\ \E res \in [1..Len(log[Home[t]]) -> UNION {Outcomes(p) : p \in ToSet(log[Home[t]])}] :
          /\ \A i \in DOMAIN res : res[i] \in Outcomes(log[Home[t]][i])
          /\ job' = [job EXCEPT ![t] = [NoJob EXCEPT !.kind = "check",
                         !.seen = [i \in DOMAIN res |-> [log[Home[t]][i] EXCEPT !.outcome = res[i]]]]]
    /\ pc' = [pc EXCEPT ![t] = "resolved"]
    /\ alone' = (alone /\ \A u \in Threads : ~Busy(u))
    /\ UNCHANGED <<now, shared, log, costs, scans, bought, charged>>

WriteOutcomes(t) ==
    /\ pc[t] = "resolved"
    /\ log' = Written(log, Home[t], job[t].seen)
    /\ pc' = [pc EXCEPT ![t] = "idle"]
    /\ job' = [job EXCEPT ![t] = NoJob]
    /\ UNCHANGED <<now, shared, costs, scans, checks, bought, charged, alone>>

----------------------------------------------------------------------------
\* Time passes; the checks and scans under way end on their own time.
Tick ==
    /\ now < MaxTime
    /\ now' = now + 1
    /\ UNCHANGED <<shared, log, costs, pc, job, scans, checks, bought, charged, alone>>

\* A process dies and comes back: its jobs, and without Redis its logs.
Restart(p) ==
    /\ \E t \in Threads : Home[t] = p /\ pc[t] # "idle"
    /\ pc' = [t \in Threads |-> IF Home[t] = p THEN "idle" ELSE pc[t]]
    /\ job' = [t \in Threads |-> IF Home[t] = p THEN NoJob ELSE job[t]]
    /\ IF shared THEN UNCHANGED <<log, costs, alone>>
       ELSE /\ log' = [log EXCEPT ![p] = <<>>]
            /\ costs' = [costs EXCEPT ![p] = {}]
            /\ alone' = FALSE
    /\ UNCHANGED <<now, shared, scans, checks, bought, charged>>

Next ==
    \/ Tick
    \/ \E p \in Procs : Restart(p)
    \/ \E t \in Threads :
          \/ ManualScan(t) \/ ScheduledStocks(t) \/ ScheduledCrypto(t)
          \/ ReadCosts(t) \/ WriteCosts(t) \/ ReadLog(t) \/ WriteLog(t)
          \/ CheckOutcomes(t) \/ WriteOutcomes(t)

Spec == Init /\ [][Next]_vars

----------------------------------------------------------------------------
(* Properties.                                                             *)

Entries == [scan : 1..MaxScans, kind : {"manual", "stocks", "crypto"}, symbol : Symbols,
            at : 0..MaxTime, priced : BOOLEAN,
            outcome : [at : -1..MaxTime, won : BOOLEAN, error : BOOLEAN]]

TypeOK ==
    /\ now \in 0..MaxTime
    /\ shared \in BOOLEAN /\ alone \in BOOLEAN
    /\ \A p \in Procs : log[p] \in Seq(Entries) /\ Len(log[p]) <= MaxLog
    /\ costs \in [Procs -> SUBSET (1..MaxScans)]
    /\ pc \in [Threads -> {"idle", "answered", "billed", "parsed", "read", "resolved"}]
    /\ \A t \in Threads : job[t].seen \in Seq(Entries) /\ job[t].bills \subseteq 1..MaxScans
    /\ scans \in 0..MaxScans /\ checks \in 0..MaxChecks
    /\ bought \in Seq(Entries) /\ charged \subseteq 1..MaxScans

\* Two entries are of the same pick.
SamePick(p, q) == p.scan = q.scan /\ p.symbol = q.symbol

(* Whatever jobs overwrite of each other's, a log holds picks that were    *)
(* made, each once, in the order they were logged in: the streak and the   *)
(* recent picks of the scorecard take this for granted.                    *)
LogIsHistory ==
    \A p \in Procs : \E place \in [DOMAIN log[p] -> DOMAIN bought] :
        /\ \A i \in DOMAIN log[p] : SamePick(log[p][i], bought[place[i]])
        /\ \A i, j \in DOMAIN log[p] : i < j => place[i] < place[j]

(* As long as no job read a log between another's read and write, every    *)
(* pick of the last MaxLog and every call's cost is there.                 *)
AloneNothingLost ==
    shared /\ alone =>
        /\ \A p \in Procs : costs[p] = charged
        /\ \A p \in Procs :
              LET kept == LastOf(bought, MaxLog) IN
              /\ Len(log[p]) = Len(kept)
              /\ \A i \in DOMAIN kept : SamePick(log[p][i], kept[i])

(* And then an outcome, once logged, is final: the next checks leave it as *)
(* it is, and so do the scans that extend the log.                         *)
OutcomesStay ==
    [][shared /\ alone' => \A p \in Procs : \A i \in DOMAIN log[p], j \in DOMAIN log'[p] :
           SamePick(log[p][i], log'[p][j]) /\ log[p][i].outcome # Pending
               => log'[p][j].outcome = log[p][i].outcome]_vars
=============================================================================
