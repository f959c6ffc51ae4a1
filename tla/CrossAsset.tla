------------------------------ MODULE CrossAsset ------------------------------
(***************************************************************************)
(* The pass of cross-asset momentum: macro indicators that stand far out   *)
(* vote for and against sectors, and the pass goes through the sectors,    *)
(* those with the clearest votes first, until its exposure is used up.     *)
(***************************************************************************)
EXTENDS Strategy

CONSTANTS
    Indicators,   \* the indicators the source has data of
    ZScores,      \* their z-scores, in hundredths
    MaxUnpriced,  \* bounds the sectors without prices
    RotateTop     \* MAX_SIGNALS_PER_SCAN of cross_asset_momentum.py

ASSUME RotationBounds ==
    IsFiniteSet(Indicators) /\ ZScores \subseteq Int /\ {MaxUnpriced, RotateTop} \subseteq Nat

MaxRotation == 15000     \* 15 %
MaxEtf == 5000           \* 5 %

\* An indicator's row of SIGNAL_SECTOR_MAP: the sectors a rise speaks for and against,
\* and those a fall does.
Votes(riseFor, riseAgainst, fallFor, fallAgainst) ==
    [up |-> [for |-> riseFor, against |-> riseAgainst],
     down |-> [for |-> fallFor, against |-> fallAgainst]]

Defensive == {"utilities", "consumer_staples", "healthcare"}
Retreat == {"utilities", "consumer_staples"}

SIGNAL_SECTOR_MAP == [
    yield_10y |-> Votes({"financials"}, {"utilities", "real_estate"},
                        {"utilities", "real_estate"}, {"financials"}),
    yield_curve |-> Votes({"financials", "industrials", "materials"}, Retreat,
                          Defensive, {"financials", "consumer_discretionary"}),
    oil |-> Votes({"energy"}, {"consumer_discretionary", "industrials"},
                  {"consumer_discretionary", "industrials"}, {"energy"}),
    gold |-> Votes({"materials"}, {"financials"}, {"financials"}, {"materials"}),
    copper_gold |-> Votes({"industrials", "materials", "consumer_discretionary"}, Retreat,
                          Defensive, {"industrials", "materials"}),
    dollar |-> Votes({"financials"}, {"materials", "technology", "industrials"},
                     {"materials", "industrials", "technology"}, {"financials"}),
    credit_spread |-> Votes({"financials", "consumer_discretionary"}, Retreat,
                            Defensive, {"financials", "consumer_discretionary"}),
    vix_term |-> Votes({"technology", "consumer_discretionary"}, {},
                       Retreat, {"technology", "consumer_discretionary"}),
    breadth |-> Votes({"technology", "consumer_discretionary", "industrials"}, Retreat,
                      Defensive, {"technology", "consumer_discretionary"})]

SECTORS == <<"technology", "financials", "energy", "healthcare", "consumer_discretionary",
             "consumer_staples", "industrials", "materials", "utilities", "real_estate",
             "communication">>

\* What the indicators read.  Breadth is not measured: the volatility context holds its
\* default of 60 percent, half a deviation.
Readings == {z \in [Indicators -> ZScores \union {50}] : \A i \in Indicators : z[i] = 50 <=> i = "breadth"}

\* The indicators a nervous market leaves in use.
ActiveSignals == CASE scan.vix >= 45 -> {"vix_term", "credit_spread"}
                   [] scan.vix >= 22 /\ scan.vix < 45 ->
                         {"vix_term", "credit_spread", "yield_curve", "oil", "dollar", "copper_gold"}
                   [] scan.vix < 22 -> DOMAIN SIGNAL_SECTOR_MAP

Threshold == (150 * Clamp(70, VolScale, 200)) \div 100
Fired == {i \in DOMAIN feed \intersect ActiveSignals : Size(feed[i]) >= Threshold}

\* A high VIX speaks for a fall.
Direction(i) == IF (feed[i] > 0) = (i # "vix_term") THEN "up" ELSE "down"
For(s) == {i \in Fired : s \in SIGNAL_SECTOR_MAP[i][Direction(i)].for}
Against(s) == {i \in Fired : s \in SIGNAL_SECTOR_MAP[i][Direction(i)].against}
Weight(set) == SumFunctionOnSet([i \in set |-> Size(feed[i])], set)
Score(s) == Weight(For(s)) - Weight(Against(s))

\* The sectors, those with the clearest votes first.
ClearestFirst ==
    At(SECTORS, Best(Len(SECTORS), DOMAIN SECTORS, [i \in DOMAIN SECTORS |-> Size(Score(SECTORS[i]))]))

\* Mutant: the last position is not cut.
Unclipped(position) == position

\* The last position fills the exposure up.
Clipped(position) == IF exposure + position > MaxRotation THEN MaxRotation - exposure ELSE position

Rotation(s) ==
    LET score == Score(s)
        direction == IF score > 0 THEN "long" ELSE "short"
        voters == IF score > 0 THEN For(s) ELSE Against(s)
        strongest == Max({0} \union {Size(feed[i]) : i \in voters})
        position == Lesser(KellyFraction("cross_asset"), (MaxEtf * PositionScale) \div 100)
        distance == StopDistance("cross_asset")
    IN  Signal("cross_asset", s, direction, Lesser(100, strongest \div 4 + Size(score) \div 8),
               Clipped(position),
               Gained(direction, -distance), Gained(direction, (5 * distance) \div 2))

----------------------------------------------------------------------------

BeginRotation ==
    /\ at = "begin" /\ scan.strategy = "cross_asset"
    /\ IF Fired = {} THEN GoOn("end", {}, <<>>) ELSE GoOn("rotate", ClearestFirst, <<>>)

\* The next sector: opened, or passed over for a weak vote or for want of prices.
Rotate ==
    /\ at = "rotate" /\ todo # <<>> /\ exposure < MaxRotation
    /\ LET s == Head(todo)
           plan == Rotation(s)
       IN  \/ /\ Size(Score(s)) >= 50 /\ validate_signal(plan)
              /\ Take(plan, Tail(todo))
           \/ /\ Size(Score(s)) < 50
              /\ PassOver(Tail(todo))
           \/ /\ Size(Score(s)) >= 50
              /\ Len(SECTORS) - Len(todo) < Len(found) + MaxUnpriced
              /\ PassOver(Tail(todo))

EndRotation ==
    /\ at = "rotate" /\ (todo = <<>> \/ exposure >= MaxRotation)
    /\ GoOn("end", {}, Top(RotateTop, found))

RotationNext == BeginRotation \/ Rotate \/ EndRotation
=============================================================================
