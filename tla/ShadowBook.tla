------------------------------ MODULE ShadowBook ------------------------------
(***************************************************************************)
(* The shadow book: the table phantom_trades, for one stock and strategy.  *)
(*                                                                         *)
(* Every scan logs its signals there; the job _update_phantoms, which both *)
(* processes run, closes those that hit their stop or target or grow old;  *)
(* the next scan weighs its signals by the closed ones.  The seeder of the *)
(* backtests deletes and inserts rows of its own there (pass_reason        *)
(* "backtest-seeded"); they are closed when they are inserted, so that no  *)
(* run has them to do, and they are left out.                              *)
(***************************************************************************)
EXTENDS Market, FiniteSetsExt

CONSTANTS
    Updaters,       \* the processes whose schedulers run the job
    Regimes,        \* regimes a scan may find
    NoRegime,       \* what a swing pick's row has instead
    MaxPhantoms,    \* bound: rows ever logged
    HoldDays,       \* 30: an older open row is closed at any price
    HealthDays,     \* 60: rows a strategy's health is made of
    EvidenceDays,   \* 90: rows a signal's evidence is made of
    MinHealth,      \* 5: rows below which health is not judged
    MinEvidence     \* 10: rows below which evidence is not enough

ASSUME BookBounds ==
    /\ {MaxPhantoms, HoldDays, HealthDays, EvidenceDays, MinHealth, MinEvidence} \subseteq Nat
    /\ HoldDays <= HealthDays /\ HealthDays <= EvidenceDays
    /\ 1 < MinHealth /\ MinHealth <= MinEvidence

VARIABLES
    phantoms,   \* the rows by id
    update,     \* the run of each updater: rows to do, one of them, its price
    met         \* rows that two runs had to do at the same time

Directions == {"long", "short"}
Unpriced == 0
NoUpdate == [at |-> "over", todo |-> {}, row |-> 0, price |-> Unpriced]

BookInit ==
    /\ phantoms = <<>>
    /\ update = [p \in Updaters |-> NoUpdate]
    /\ met = {}

----------------------------------------------------------------------------
(* Scans, and users who pass on a signal.                                  *)

\* Nothing looks for a row of the same signal: a scan repeated logs it again.  A row
\* that cannot be written is passed over.
LogPhantom(plan, regime) ==
    /\ Len(phantoms) < MaxPhantoms
    /\ phantoms' = Append(phantoms, [plan |-> plan, regime |-> regime, age |-> 0, exit |-> Unpriced])
    /\ UNCHANGED <<quote, update, met>>

LogSignalsToShadowBook(plan) == \E r \in Regimes : LogPhantom(plan, r)
LogSwingPicksToShadowBook(plan) == LogPhantom(plan, NoRegime)

----------------------------------------------------------------------------
(* The job.                                                                *)

Resolved(i) == phantoms[i].exit # Unpriced

\* Mutant: rows are read whether they have an exit or not.
AllPhantoms == DOMAIN phantoms

OpenPhantoms == {i \in DOMAIN phantoms : ~Resolved(i)}

ToDo(p) == update[p].todo

BeginUpdate(p) ==
    /\ update[p].at = "over" /\ OpenPhantoms # {}
    /\ update' = [update EXCEPT ![p] = [NoUpdate EXCEPT !.at = "look", !.todo = OpenPhantoms]]
    /\ met' = met \union UNION {ToDo(o) \intersect OpenPhantoms : o \in Updaters \ {p}}
    /\ UNCHANGED <<quote, phantoms>>

\* Mutant: the run does not see the end of its rows.
OnwardAlways(p, i) == [NoUpdate EXCEPT !.at = "look", !.todo = ToDo(p) \ {i}]

\* What is left of the run after row i.
Onward(p, i) ==
    LET left == ToDo(p) \ {i}
    IN  IF left = {} THEN NoUpdate ELSE [NoUpdate EXCEPT !.at = "look", !.todo = left]

Ended(row, price) == HitStop(row.plan, price) \/ HitTarget(row.plan, price) \/ row.age > HoldDays

\* A row of today is passed over, and one whose price cannot be had, and one that
\* goes on.  The rows come in no promised order.
PassOver(p) ==
    /\ update[p].at = "look"
    /\ \E i \in ToDo(p) : update' = [update EXCEPT ![p] = Onward(p, i)]
    /\ UNCHANGED <<quote, phantoms, met>>

FindEnded(p) ==
    /\ update[p].at = "look"
    /\ \E i \in ToDo(p) :
          /\ phantoms[i].age >= 1 /\ Ended(phantoms[i], quote)
          /\ update' = [update EXCEPT ![p].at = "write", ![p].row = i, ![p].price = quote]
    /\ UNCHANGED <<quote, phantoms, met>>

\* The row is closed with the run's price, even if another run has closed it since.
WriteOutcome(p) ==
    /\ update[p].at = "write"
    /\ phantoms' = [phantoms EXCEPT ![update[p].row].exit = update[p].price]
    /\ update' = [update EXCEPT ![p] = Onward(p, update[p].row)]
    /\ UNCHANGED <<quote, met>>

\* The write is outside the try: one that fails ends the run, as a restart does.
RunEnds(p) ==
    /\ update[p].at # "over"
    /\ update' = [update EXCEPT ![p] = NoUpdate]
    /\ UNCHANGED <<quote, phantoms, met>>

----------------------------------------------------------------------------
(* What the next scan makes of the rows.                                   *)

Gain(i) == Pnl(phantoms[i].plan, phantoms[i].exit)
Won(i) == Gain(i) > 0
Gains(ids) == MapThenSumSet(Gain, ids)

Closed(days) == {i \in DOMAIN phantoms : Resolved(i) /\ phantoms[i].age <= days}
Evidence(direction, regime) ==
    {i \in Closed(EvidenceDays) : phantoms[i].plan.direction = direction
                                  /\ phantoms[i].regime = regime}

\* The yearly Sharpe ratio of n gains with sum S and sum of squares Q is
\* S * sqrt(252) / sqrt(n * Q - S * S), and 0 when they are all equal.
Spread(ids) ==
    Cardinality(ids) * MapThenSumSet(LAMBDA i : Gain(i) * Gain(i), ids) - Gains(ids) * Gains(ids)
SharpeIsNegative(ids) == Spread(ids) > 0 /\ Gains(ids) < 0
SharpeReachesHalf(ids) ==
    Spread(ids) > 0 /\ Gains(ids) > 0 /\ 4 * 252 * Gains(ids) * Gains(ids) >= Spread(ids)

Health ==
    LET rows == Closed(HealthDays)
    IN  IF Cardinality(rows) < MinHealth THEN "insufficient_data"
        ELSE IF SharpeIsNegative(rows) THEN "paused"
        ELSE IF ~SharpeReachesHalf(rows) THEN "degraded" ELSE "healthy"

\* By the strategy's health, in per cent; rows of a regime it has little weight in
\* weigh less, unless health is not judged.
SizeAdjustment(unfavorable) ==
    LET base == [insufficient_data |-> 80, paused |-> 0, degraded |-> 50, healthy |-> 100][Health]
    IN  IF unfavorable /\ Health # "insufficient_data" THEN (base * 70) \div 100 ELSE base

HasEnough(rows) == Cardinality(rows) >= MinEvidence

\* Mutant: only the share of winners counts.
WinnersOnly(rows) ==
    IF HasEnough(rows) /\ 100 * Cardinality({i \in rows : Won(i)}) < 40 * Cardinality(rows)
    THEN 50 ELSE 100

ShadowSizeFactor(rows) ==
    IF ~HasEnough(rows) THEN 100
    ELSE IF 100 * Cardinality({i \in rows : Won(i)}) < 40 * Cardinality(rows) THEN 50
    ELSE IF ~SharpeReachesHalf(rows) THEN 70 ELSE 100

Recommendation(tradable, rows) ==
    IF ~tradable \/ Health = "paused" THEN "do_not_trade"
    ELSE IF ~HasEnough(rows) \/ Health = "degraded" THEN "conditional_trade"
    ELSE "trade"

----------------------------------------------------------------------------

BookDay ==
    /\ phantoms' = [i \in DOMAIN phantoms |->
                      [phantoms[i] EXCEPT !.age = IF @ <= EvidenceDays THEN @ + 1 ELSE @]]
    /\ phantoms' # phantoms
    /\ UNCHANGED <<quote, update, met>>

BookQuote == NewQuote /\ UNCHANGED <<phantoms, update, met>>

BookNext ==
    \/ \E plan \in Plans : LogSignalsToShadowBook(plan) \/ LogSwingPicksToShadowBook(plan)
    \/ \E p \in Updaters :
         BeginUpdate(p) \/ PassOver(p) \/ FindEnded(p) \/ WriteOutcome(p) \/ RunEnds(p)
    \/ BookDay \/ BookQuote

BookTypeOK ==
    /\ \A i \in DOMAIN phantoms :
         /\ phantoms[i].plan \in Plans /\ phantoms[i].regime \in Regimes \union {NoRegime}
         /\ phantoms[i].age \in 0..EvidenceDays + 1
         /\ phantoms[i].exit \in Prices \union {Unpriced}
    /\ \A p \in Updaters :
         /\ update[p].at \in {"over", "look", "write"}
         /\ update[p].at # "over" => ToDo(p) # {}
         /\ ToDo(p) \subseteq DOMAIN phantoms
         /\ update[p].at = "write" => update[p].row \in ToDo(p)
    /\ met \subseteq DOMAIN phantoms

\* A signal is taken as "trade" at its full shadow size only if the closed rows like
\* it gained, and at the strategy's full size only if the strategy's rows gained too.
\* (_enrich_signals, get_similar_signal_evidence, compute_strategy_health)
TradesOnGains ==
    \A direction \in Directions, regime \in Regimes, unfavorable \in BOOLEAN :
      LET rows == Evidence(direction, regime)
      IN  Recommendation(TRUE, rows) = "trade" /\ ShadowSizeFactor(rows) = 100 =>
            /\ Gains(rows) > 0
            /\ SizeAdjustment(unfavorable) = 100 => Gains(Closed(HealthDays)) > 0
=============================================================================
