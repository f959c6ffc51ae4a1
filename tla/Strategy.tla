------------------------------- MODULE Strategy -------------------------------
(***************************************************************************)
(* What the strategies of a scan share: the scan's inputs, the state of    *)
(* the pass a strategy makes, the sizes and stops the adaptive package     *)
(* gives, and the check of a signal.  A price is in cents and a size in    *)
(* hundred-thousandths of the portfolio, so that both are whole numbers;   *)
(* scores, convictions and scales are in percent.  Every stock costs Price *)
(* and moves by the scan's atr a day.                                      *)
(***************************************************************************)
EXTENDS Integers, Sequences, FiniteSets, SequencesExt

CONSTANTS
    Universe,   \* the tickers of the scan, in the order of the S&P 500 table
    Settings    \* the records [vix, average, sizing, atr] a scan may run under

ASSUME UniverseIsAList == Universe \in Seq(ToSet(Universe)) /\ IsInjective(Universe)

\* A VIX and its average are positive, and a stock moves by a cent a day at least.
ASSUME SettingsAreMarkets ==
    Settings \subseteq [vix : Nat \ {0}, average : Nat \ {0}, atr : Nat \ {0},
                       sizing : {"quarter_kelly", "half_kelly", "equal_risk"}]

VARIABLES
    scan,      \* the inputs of the scan and the strategy that runs in it
    feed,      \* what the strategy's source has to say
    at,        \* where the scan is
    todo,      \* what the pass has yet to look at
    found,     \* the signals of the pass so far
    exposure,  \* what they add up to, as the pass counts it
    signals    \* the signals of the scan

marketVars == <<scan, feed, at, todo, found, exposure, signals>>

Price == 10000
Clamp(low, x, high) == IF x < low THEN low ELSE IF x > high THEN high ELSE x
Size(x) == IF x < 0 THEN -x ELSE x
Lesser(a, b) == IF a < b THEN a ELSE b

----------------------------------------------------------------------------
(* Volatility, sizes and stops *)

VolScale == (100 * scan.vix) \div scan.average
PositionScale == Clamp(30, (100 * scan.average) \div scan.vix, 200)

STRATEGY_CAPS == [stat_arb |-> 600, catalyst |-> 800, cross_asset |-> 500, flow |-> 400]

\* The Kelly fraction of a strategy that knows no trade of its own, as every scan makes
\* its strategies anew: even odds and wins half as large again as losses, a sixth,
\* halved for want of evidence; in whole hundredths of a percent.
KellyFraction(strategy) ==
    LET raw == CASE scan.sizing = "quarter_kelly" -> (100 * PositionScale + 24) \div 48
                 [] scan.sizing = "half_kelly" -> (100 * PositionScale + 12) \div 24
                 [] scan.sizing = "equal_risk" -> PositionScale
    IN  10 * Lesser(raw, STRATEGY_CAPS[strategy])

BASE_ATR_MULTIPLES == [stat_arb |-> 20, catalyst |-> 25, cross_asset |-> 30, flow |-> 15]
StopDistance(strategy) == (BASE_ATR_MULTIPLES[strategy] * Clamp(70, VolScale, 200) * scan.atr) \div 1000

----------------------------------------------------------------------------
(* Signals *)

\* The price that a trade in this direction gains x by.
Gained(direction, x) == IF direction = "long" THEN Price + x ELSE Price - x

Signal(from, ticker, direction, conviction, size, stop, target) ==
    [from |-> from, ticker |-> ticker, direction |-> direction, conviction |-> conviction,
     size |-> size, stop |-> stop, target |-> target]

validate_signal(s) == s.conviction >= 30 /\ s.size > 0

Tickers(list) == {list[i].ticker : i \in DOMAIN list}

\* What the signals of a list that come from a source add up to.
Total(list, source) ==
    SumFunctionOnSet([i \in DOMAIN list |-> list[i].size], {i \in DOMAIN list : list[i].from = source})

\* The n best of these places of a list: a stable sort, the greatest key first.
Best(n, places, key) ==
    LET Ahead(i) == {j \in places : key[j] > key[i] \/ (key[j] = key[i] /\ j < i)}
    IN  [m \in 1..Lesser(n, Cardinality(places)) |->
            CHOOSE i \in places : Cardinality(Ahead(i)) = m - 1]
At(list, places) == [m \in DOMAIN places |-> list[places[m]]]

\* The n signals of the greatest conviction.
Top(n, list) == At(list, Best(n, DOMAIN list, [i \in DOMAIN list |-> list[i].conviction]))

----------------------------------------------------------------------------
(* The pass of a strategy *)

\* The pass takes a signal on and goes on with the rest.
Take(s, rest) ==
    /\ found' = Append(found, s)
    /\ exposure' = exposure + s.size
    /\ todo' = rest
    /\ UNCHANGED <<scan, feed, at, signals>>

\* It passes over what it looked at.
PassOver(rest) ==
    /\ todo' = rest
    /\ UNCHANGED <<scan, feed, at, found, exposure, signals>>

\* It goes on to its next part, with these signals.
GoOn(to, rest, list) ==
    /\ at' = to /\ todo' = rest /\ found' = list
    /\ UNCHANGED <<scan, feed, exposure, signals>>
=============================================================================
