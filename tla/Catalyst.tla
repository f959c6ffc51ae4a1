------------------------------- MODULE Catalyst -------------------------------
(***************************************************************************)
(* The pass of catalyst events: five threads ask of each picked ticker for *)
(* an earnings surprise, else for analyst revisions, else for insider      *)
(* buying; the answers come in any order, and after 300 s the rest are     *)
(* given up.  News sentiment then moves the convictions, and swept tickers *)
(* without a signal follow.                                                *)
(***************************************************************************)
EXTENDS Flow

CONSTANTS
    Picks,         \* the lists of tickers the AI may pick
    MinPicks,      \* the 20 of the universe below which they are not used
    ScanTop,       \* the 50 tickers that are scanned
    Surprises,     \* EPS surprises and earnings-day gaps, in percent
    Gaps,
    Backgrounds,   \* what revisions, drift, guidance and sector add to a surprise's score
    Revisions,     \* the records [breadth, acceleration, moved] of the analysts, in percent
    InsiderScores,
    Moods          \* composite scores of the news sentiment

ASSUME ScoresAreNumbers ==
    /\ Surprises \union Gaps \union Backgrounds \union InsiderScores \union Moods \subseteq Int
    /\ Revisions \subseteq [breadth : Int, acceleration : Int, moved : Int]

TargetReturn == (10 * Clamp(80, VolScale, 150)) \div 100

\* A short list is scanned whole; without enough picks of a long one the scan takes
\* tickers at even distances.
EvenSample == [i \in 1..ScanTop |-> Universe[((i - 1) * Len(Universe)) \div ScanTop + 1]]
ScanTickers ==
    IF Len(Universe) <= ScanTop THEN {Universe}
    ELSE {SubSeq(p, 1, Lesser(ScanTop, Len(p))) : p \in {q \in Picks : Len(q) >= MinPicks}}
         \union {EvenSample}

CatalystSignal(t, direction, conviction, sizeTenths, target) ==
    Signal("catalyst", t, direction, conviction, (sizeTenths * KellyFraction("catalyst")) \div 10,
           Gained(direction, -StopDistance("catalyst")), target)

\* The surprise and the day's gap are large and agree.
Agree(surprise, gap) ==
    /\ Size(surprise) * 1000 >= 5 * (IF 8 * VolScale > 1000 THEN 8 * VolScale ELSE 1000)
    /\ LET least == 2 * (IF 7 * VolScale > 800 THEN 7 * VolScale ELSE 800)
       IN  /\ surprise > 0 => gap * 1000 >= least
           /\ surprise < 0 => gap * 1000 <= -least

PeadScore(surprise, gap, background) ==
    Lesser(100, (30 * Lesser(100, 5 * Size(surprise))) \div 100
               + (20 * Lesser(100, 10 * Size(gap))) \div 100 + background)

PeadSignal(t, surprise, score) ==
    LET direction == IF surprise > 0 THEN "long" ELSE "short"
    IN  CatalystSignal(t, direction, score, 10, Gained(direction, (Price * TargetReturn) \div 100))

PeadSignals(t) ==
    {PeadSignal(t, x[1], PeadScore(x[1], x[2], x[3])) :
        x \in {y \in Surprises \X Gaps \X Backgrounds : Agree(y[1], y[2])}}

\* Analysts turn upwards and the price has hardly moved; breadth must be positive, so
\* that these trades are always long.
Momentum(r) ==
    /\ r.breadth >= (IF VolScale < 130 THEN 30 ELSE 40)
    /\ r.acceleration >= (IF VolScale < 130 THEN 10 ELSE 15)
    /\ r.moved <= 5

RevisionScore(r) ==
    (45 * Lesser(80, r.breadth)) \div 80 + (35 * Lesser(30, r.acceleration)) \div 30
        + (20 * (5 - r.moved)) \div 5

RevisionSignals(t) ==
    {CatalystSignal(t, "long", RevisionScore(r), 7, Price + (7 * Price * TargetReturn) \div 1000) :
        r \in {q \in Revisions : Momentum(q)}}

\* The one signal that is not validated.
InsiderSignals(t) ==
    {Signal("catalyst", t, "long", score, (6 * KellyFraction("catalyst")) \div 10,
            Price - Lesser(2 * scan.atr, Price - 1), Price + 3 * scan.atr) :
        score \in {s \in InsiderScores : s >= 30}}

\* What the news makes of a conviction: good news helps a long trade and hurts a short
\* one by up to ten points.
Swing(mood) ==
    CASE mood > 70 -> Lesser(10, (mood - 70 + 1) \div 3)
      [] mood < 30 -> -Lesser(10, (30 - mood + 1) \div 3)
      [] OTHER -> 0
Moved(s, mood) ==
    LET swing == IF s.direction = "long" THEN Swing(mood) ELSE -Swing(mood)
    IN  [s EXCEPT !.conviction = IF swing = 0 THEN @ ELSE Clamp(0, @ + swing, 100)]

\* A swept ticker as a catalyst: here every sweep counts, and their sum must be large.
FlowEvent(t) ==
    LET direction == Leaning(feed[t], DOMAIN feed[t])
        grown == (Price * (100 + TargetReturn)) \div 100
        shrunk == (Price * 100) \div (100 + TargetReturn)
    IN  CatalystSignal(t, direction, SweepConviction(feed[t], DOMAIN feed[t]), 8,
                       IF direction = "long" THEN grown ELSE shrunk)

----------------------------------------------------------------------------

BeginCatalyst ==
    /\ at = "begin" /\ scan.strategy = "catalyst"
    /\ \E tickers \in ScanTickers : GoOn("answers", tickers, <<>>)

\* A ticker's answer: the first of the three kinds that has a signal, and a ticker that
\* was seen already, picked twice, adds none.
Answer ==
    /\ at = "answers"
    /\ \E i \in DOMAIN todo :
         LET t == todo[i]
             offers == {s \in PeadSignals(t) \union RevisionSignals(t) : validate_signal(s)}
                       \union InsiderSignals(t)
         IN  \/ \E s \in offers : t \notin Tickers(found) /\ Take(s, RemoveAt(todo, i))
             \/ PassOver(RemoveAt(todo, i))

\* The answers are all there, or 300 s have passed: the news then has its say.
HearTheNews ==
    /\ at = "answers"
    /\ \E mood \in [DOMAIN found -> Moods] :
         GoOn("events", {t \in DOMAIN feed : feed[t] # <<>>}, [i \in DOMAIN found |-> Moved(found[i], mood[i])])

Event ==
    /\ at = "events"
    /\ \E t \in todo :
         \/ /\ t \notin Tickers(found)
            /\ Leaning(feed[t], DOMAIN feed[t]) # "none"
            /\ Premium(feed[t], DOMAIN feed[t], "Call") + Premium(feed[t], DOMAIN feed[t], "Put")
                 >= MinSweepPremium
            /\ validate_signal(FlowEvent(t))
            /\ Take(FlowEvent(t), todo \ {t})
         \/ PassOver(todo \ {t})

EndCatalyst ==
    /\ at = "events" /\ todo = {}
    /\ GoOn("end", {}, found)

CatalystNext == BeginCatalyst \/ Answer \/ HearTheNews \/ Event \/ EndCatalyst
=============================================================================
