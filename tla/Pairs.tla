--------------------------------- MODULE Pairs ---------------------------------
(***************************************************************************)
(* The pass of statistical arbitrage: the pairs of the day, from the cache *)
(* or found anew among the stocks of a sub-industry, and what becomes of   *)
(* them.  A pair is [industry, a, b] by place in the table; the feed is    *)
(* the set of active pairs.  The market moves at normal speed.             *)
(***************************************************************************)
EXTENDS Strategy

CONSTANTS
    Industries,   \* how many stocks each sub-industry has
    MaxPairs,     \* the pairs found in one sub-industry
    Histories,    \* for how many days two stocks may have prices in common
    HalfLives     \* the days a spread may take to halve

Window == 252          \* days of the correlation
RecentSpread == 120    \* days of the spread whose Hurst exponent is taken
HurstLags == 100

\* What a statistic may say of so many days of prices; too few say nothing.
TestsPassed(days) == IF days < 30 THEN {0} ELSE 0..3
HalfLife(days) == IF days < 30 THEN {} ELSE HalfLives
Hurst(days) == IF days < 2 * HurstLags THEN {50} ELSE {40, 50, 60}
Correlations(days) == IF days < Window THEN {0} ELSE {60, 70, 90}

\* Two of the three tests pass, the half-life is within bounds, the spread reverts.
IsValid(tests, life, hurst) == tests >= 2 /\ life \in 3..30 /\ hurst < 50

\* A pair may be traded: both legs are liquid, they correlate, the tests agree.
MayBePair(days) ==
    \E liquid \in BOOLEAN, correlation \in Correlations(days), tests \in TestsPassed(days),
       life \in HalfLife(days), hurst \in Hurst(days) :
        liquid /\ correlation >= 70 /\ IsValid(tests, life, hurst)

PairsOf(n) == [industry : {n}, a : 1..Industries[n], b : 1..Industries[n]]
Combinations == {p \in UNION {PairsOf(n) : n \in DOMAIN Industries} : p.a < p.b}
FirstPair(set) ==
    CHOOSE p \in set : \A q \in set :
        \/ p.industry < q.industry
        \/ p.industry = q.industry /\ p.a < q.a
        \/ p.industry = q.industry /\ p.a = q.a /\ p.b <= q.b

----------------------------------------------------------------------------

\* Pairs that are not in the cache are looked for.
BeginPairs ==
    /\ at = "begin" /\ scan.strategy = "stat_arb"
    /\ IF feed = {} THEN GoOn("pairs", Combinations, <<>>) ELSE GoOn("spreads", feed, <<>>)

\* The next two stocks of a sub-industry, which is left once it has its pairs.
FindPair ==
    /\ at = "pairs" /\ todo # {}
    /\ LET p == FirstPair(todo)
           ofIndustry == {q \in feed : q.industry = p.industry}
       IN  IF Cardinality(ofIndustry) >= MaxPairs
           THEN PassOver({q \in todo : q.industry # p.industry})
           ELSE \/ PassOver(todo \ {p})
                \/ /\ \E days \in Histories : MayBePair(days)
                   /\ feed' = feed \union {p}
                   /\ todo' = todo \ {p}
                   /\ UNCHANGED <<scan, at, found, exposure, signals>>

EndPairs ==
    /\ at = "pairs" /\ todo = {}
    /\ GoOn("spreads", feed, <<>>)

\* A pair's spread no longer reverts when its Hurst exponent is a half or more.  The
\* exponent of the last 120 days of it always is: it takes 200 to compute another.
EvaluatePair ==
    /\ at = "spreads" /\ todo # {}
    /\ \E p \in todo, days \in Histories :
         /\ \A hurst \in Hurst(Lesser(days, RecentSpread)) : hurst >= 50
         /\ PassOver(todo \ {p})

EndSpreads ==
    /\ at = "spreads" /\ todo = {}
    /\ GoOn("end", {}, found)

PairsNext == BeginPairs \/ FindPair \/ EndPairs \/ EvaluatePair \/ EndSpreads
=============================================================================
