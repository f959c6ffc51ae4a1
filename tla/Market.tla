-------------------------------- MODULE Market --------------------------------
(***************************************************************************)
(* One stock: its last close, and the plans made for it.  A plan is a      *)
(* direction, an entry, a stop and a target.  Prices are whole numbers     *)
(* near 100, so that one is about one per cent.                            *)
(***************************************************************************)
EXTENDS Integers, Sequences, FiniteSets

CONSTANTS
    Prices,     \* the closes that come about
    Plans       \* the plans strategies and users make

ASSUME MarketPrices == Prices \subseteq Nat \ {0}
ASSUME MarketPlans ==
    Plans \subseteq [direction : {"long", "short"}, entry : Nat, stop : Nat, target : Nat]

VARIABLE quote      \* the last close

Plan(direction, entry, stop, target) ==
    [direction |-> direction, entry |-> entry, stop |-> stop, target |-> target]

HitStop(plan, price) ==
    IF plan.direction = "long" THEN price <= plan.stop ELSE price >= plan.stop

HitTarget(plan, price) ==
    IF plan.direction = "long" THEN price >= plan.target ELSE price <= plan.target

\* Within one per cent of the stop.
NearStop(plan, price) ==
    /\ plan.stop > 0
    /\ IF plan.direction = "long" THEN 100 * price <= 101 * plan.stop
                                  ELSE 100 * price >= 99 * plan.stop

\* What is won on a share.
Pnl(plan, price) ==
    IF plan.direction = "long" THEN price - plan.entry ELSE plan.entry - price

NewQuote == quote' \in Prices \ {quote}
=============================================================================
