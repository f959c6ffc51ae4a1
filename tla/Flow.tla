--------------------------------- MODULE Flow ---------------------------------
(***************************************************************************)
(* The pass of flow imbalance: tickers that institutions sweep options of, *)
(* then tickers with dark-pool accumulation that have no signal yet.  The  *)
(* feed maps a ticker to its sweeps, [type, premium] each, in thousands.   *)
(***************************************************************************)
EXTENDS Strategy

CONSTANTS
    DarkPoolTop,      \* the 50 tickers whose dark pool is looked at
    FlowTop,          \* MAX_SIGNALS_PER_SCAN of flow_imbalance.py
    DarkPoolScores    \* what the dark-pool source may answer

ASSUME FlowBounds == FlowTop \in Nat /\ DarkPoolScores \subseteq Int

MaxFlow == 10000          \* 10 %
MaxFlowPosition == 4000   \* 4 %
MinSweepPremium == 500
MinDarkPoolScore == 40

FlowPosition(kelly) == Lesser(kelly, (MaxFlowPosition * PositionScale) \div 100)

\* What was paid for options of a type, in some of the sweeps of a ticker.
Premium(sweeps, places, type) ==
    SumFunctionOnSet([i \in DOMAIN sweeps |-> sweeps[i].premium], {i \in places : sweeps[i].type = type})

\* Two to one, or the sweeps say nothing.
Leaning(sweeps, places) ==
    LET call == Premium(sweeps, places, "Call")
        put == Premium(sweeps, places, "Put")
    IN  CASE call > 2 * put -> "long" [] put > 2 * call -> "short" [] OTHER -> "none"

SweepConviction(sweeps, places) ==
    Lesser(100, (Premium(sweeps, places, "Call") + Premium(sweeps, places, "Put")) \div 20
                 + 10 * Cardinality(places))

Large(sweeps) == {i \in DOMAIN sweeps : sweeps[i].premium >= MinSweepPremium}

SweepSignal(t) ==
    LET large == Large(feed[t])
        direction == Leaning(feed[t], large)
        distance == StopDistance("flow")
    IN  Signal("flow", t, direction, SweepConviction(feed[t], large), FlowPosition(KellyFraction("flow")),
               Gained(direction, -distance), Gained(direction, (5 * distance) \div 2))

DarkPoolSignal(t, score) ==
    LET distance == StopDistance("flow")
    IN  Signal("flow", t, "long", Lesser(100, score), FlowPosition((7 * KellyFraction("flow")) \div 10),
               Price - distance, Price + 2 * distance)

\* Mutant: the tickers with a signal are asked about again.
AllLiquid == {i \in DOMAIN Universe : i <= DarkPoolTop}

\* The places of the tickers the dark pool is asked about: none that has a signal.
Unsignalled == {i \in DOMAIN Universe : i <= DarkPoolTop /\ Universe[i] \notin Tickers(found)}

----------------------------------------------------------------------------

BeginFlow ==
    /\ at = "begin" /\ scan.strategy = "flow"
    /\ GoOn("sweeps", {t \in DOMAIN feed : Large(feed[t]) # {}}, <<>>)

\* The tickers come in the order of the sweeps, which is any.
Sweep ==
    /\ at = "sweeps" /\ exposure < MaxFlow
    /\ \E t \in todo :
         \/ /\ Leaning(feed[t], Large(feed[t])) # "none" /\ validate_signal(SweepSignal(t))
            /\ Take(SweepSignal(t), todo \ {t})
         \/ PassOver(todo \ {t})     \* ambiguous, or without a price

EndSweeps ==
    /\ at = "sweeps" /\ (todo = {} \/ exposure >= MaxFlow)
    /\ GoOn("dark_pool", Unsignalled, found)

DarkPool ==
    /\ at = "dark_pool" /\ todo # {} /\ exposure < MaxFlow
    /\ LET i == Min(todo)
       IN  \/ \E score \in DarkPoolScores :
                /\ score >= MinDarkPoolScore /\ validate_signal(DarkPoolSignal(Universe[i], score))
                /\ Take(DarkPoolSignal(Universe[i], score), todo \ {i})
           \/ PassOver(todo \ {i})       \* a low score, no price, or a failure

EndFlow ==
    /\ at = "dark_pool" /\ (todo = {} \/ exposure >= MaxFlow)
    /\ GoOn("end", {}, Top(FlowTop, found))

FlowNext == BeginFlow \/ Sweep \/ EndSweeps \/ DarkPool \/ EndFlow
=============================================================================
