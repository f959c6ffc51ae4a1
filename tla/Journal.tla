------------------------------- MODULE Journal --------------------------------
(***************************************************************************)
(* The trade journal and the alerts on its open trades.                    *)
(*                                                                         *)
(* The endpoints run on the one event loop of the API process and do not   *)
(* wait inside, so each is a step.  The job _check_trade_alerts runs in a  *)
(* thread of each of the two processes and asks for a price a trade.       *)
(***************************************************************************)
EXTENDS Market

CONSTANTS
    Checkers,       \* the processes whose schedulers run the job
    MaxTrades,      \* bound: trades ever logged
    MaxHold         \* max_hold_days of every trade

ASSUME JournalBounds == {MaxTrades, MaxHold} \subseteq Nat

VARIABLES
    trades,     \* the table trades, by id
    check       \* the run of each checker

Open == 0       \* exit price of a trade that has none

\* A run is over, or asks prices for the trades in todo, or sends out alerts; found
\* are those it raised for a price, told the trades whose message it has handed to
\* the dispatcher, whatever becomes of it there.
NoCheck == [at |-> "over", todo |-> {}, alerts |-> <<>>, found |-> <<>>, told |-> {}]

JournalInit ==
    /\ trades = <<>>
    /\ check = [p \in Checkers |-> NoCheck]

----------------------------------------------------------------------------
(* Requests.                                                               *)

LogEntry(plan) ==
    /\ Len(trades) < MaxTrades
    /\ trades' = Append(trades, [plan |-> plan, held |-> 0, exit |-> Open, pnl |-> 0])
    /\ UNCHANGED <<quote, check>>

\* Whether the trade is closed is not looked at.  The update may be followed by a
\* failing read: the reply is an error then, and the trade closed all the same.
LogExit(i, price) ==
    /\ i \in DOMAIN trades
    /\ trades' = [trades EXCEPT ![i].exit = price, ![i].pnl = Pnl(trades[i].plan, price)]
    /\ UNCHANGED <<quote, check>>

----------------------------------------------------------------------------
(* The job.                                                                *)

\* The rows come in no promised order.
ActiveTrades == {i \in DOMAIN trades : trades[i].exit = Open}

BeginCheck(p) ==
    /\ check[p].at = "over"
    /\ check' = [check EXCEPT ![p] = [NoCheck EXCEPT !.at = "look", !.todo = ActiveTrades]]
    /\ UNCHANGED <<quote, trades>>

AlertOn(plan, price) ==
    IF HitStop(plan, price) THEN "stop_hit"
    ELSE IF HitTarget(plan, price) THEN "target_hit"
    ELSE IF NearStop(plan, price) THEN "approaching_stop" ELSE "none"

PriceAlert(i) ==
    LET kind == AlertOn(trades[i].plan, quote)
    IN  IF kind = "none" THEN <<>> ELSE <<[trade |-> i, kind |-> kind]>>

TimeAlert(i) ==
    IF trades[i].held >= MaxHold THEN <<[trade |-> i, kind |-> "time_stop"]>> ELSE <<>>

\* Mutant: a trade that is due to end has that alert and no other.
TimeStopFirst(i) == IF TimeAlert(i) # <<>> THEN TimeAlert(i) ELSE PriceAlert(i)

\* The alerts of one trade.
AlertsFor(i) == PriceAlert(i) \o TimeAlert(i)

\* The row is the one the run has read: only its exit can have changed since.
Look(p) ==
    /\ check[p].at = "look"
    /\ \E i \in check[p].todo :
          check' = [check EXCEPT ![p].todo = @ \ {i},
                                 ![p].alerts = @ \o AlertsFor(i),
                                 ![p].found = @ \o PriceAlert(i)]
    /\ UNCHANGED <<quote, trades>>

\* No price: no alert of any kind, the time stop's included.
LookFails(p) ==
    /\ check[p].at = "look"
    /\ \E i \in check[p].todo : check' = [check EXCEPT ![p].todo = @ \ {i}]
    /\ UNCHANGED <<quote, trades>>

BeginSending(p) ==
    /\ check[p].at = "look" /\ check[p].todo = {}
    /\ check' = [check EXCEPT ![p].at = IF check[p].alerts = <<>> THEN "over" ELSE "send"]
    /\ UNCHANGED <<quote, trades>>

Raises(alert) == alert.kind \in {"stop_hit", "approaching_stop"}

\* The job hands over a stop of 0, by which send_stop_alert divides: the job ends.
\* It has no message for a time stop.  Its dispatcher is new, so that nothing is
\* held back as sent before; the channels may fail, which dispatch takes note of.
Send(p) ==
    /\ check[p].at = "send"
    /\ LET a == Head(check[p].alerts)
       IN  check' = [check EXCEPT
             ![p].told = IF a.kind = "target_hit" THEN @ \union {a.trade} ELSE @,
             ![p].alerts = IF Raises(a) THEN <<>> ELSE Tail(@),
             ![p].at = IF Raises(a) \/ Len(check[p].alerts) = 1 THEN "over" ELSE "send"]
    /\ UNCHANGED <<quote, trades>>

\* The process dies in a run: nobody takes up what it had found.
RunDies(p) ==
    /\ check[p].at # "over"
    /\ check' = [check EXCEPT ![p] = NoCheck]
    /\ UNCHANGED <<quote, trades>>

----------------------------------------------------------------------------

\* A day goes by; nothing older than MaxHold is told apart.
JournalDay ==
    /\ trades' = [i \in DOMAIN trades |->
                    [trades[i] EXCEPT !.held = IF @ < MaxHold THEN @ + 1 ELSE @]]
    /\ trades' # trades
    /\ UNCHANGED <<quote, check>>

JournalQuote == NewQuote /\ UNCHANGED <<trades, check>>

JournalNext ==
    \/ \E plan \in Plans : LogEntry(plan)
    \/ \E i \in 1..MaxTrades, price \in Prices : LogExit(i, price)
    \/ \E p \in Checkers :
         \/ BeginCheck(p) \/ Look(p) \/ LookFails(p) \/ BeginSending(p) \/ Send(p)
         \/ RunDies(p)
    \/ JournalDay \/ JournalQuote

JournalTypeOK ==
    /\ \A i \in DOMAIN trades :
         /\ trades[i].plan \in Plans /\ trades[i].held \in 0..MaxHold
         /\ trades[i].exit \in Prices \union {Open} /\ trades[i].pnl \in Int
    /\ \A p \in Checkers :
         /\ check[p].at \in {"over", "look", "send"}
         /\ check[p].todo \union check[p].told \subseteq DOMAIN trades
         /\ \A n \in DOMAIN check[p].alerts : check[p].alerts[n].trade \in DOMAIN trades
         /\ check[p].at = "send" => check[p].alerts # <<>>

\* A run that came to its end has told of every trade it found at its target,
\* unless a trade it looked at before is at its stop or near it: it ends there.
\* (scheduler._check_trade_alerts, dispatcher.send_stop_alert)
TargetsTold ==
    \A p \in Checkers : check[p].at = "over" =>
      \A n \in DOMAIN check[p].found :
        \/ check[p].found[n].kind # "target_hit"
        \/ check[p].found[n].trade \in check[p].told
        \/ \E m \in 1..n - 1 : Raises(check[p].found[m])
=============================================================================
