----------------------------- MODULE MCMarketScan -----------------------------
EXTENDS MarketScan, TLC

CONSTANTS t1, t2, t3, t4, t5

MCUniverse == <<t1, t2, t3, t4, t5>>
MCIndustries == <<3, 2>>

Under(vix, average, sizing, atr) == [vix |-> vix, average |-> average, sizing |-> sizing, atr |-> atr]
MCSettings == {Under(10, 20, "quarter_kelly", 200), Under(20, 20, "half_kelly", 900),
               Under(24, 20, "equal_risk", 200), Under(50, 20, "half_kelly", 200)}

Call(premium) == [type |-> "Call", premium |-> premium]
Put(premium) == [type |-> "Put", premium |-> premium]
MCSweepFeeds ==
    {[t \in {t1, t2, t3, t4, t5} |-> <<Call(600)>>],
     (t2 :> <<Put(900), Call(300)>>) @@ (t3 :> <<Call(300), Call(300)>>),
     (t1 :> <<Put(800)>>) @@ (t4 :> <<Call(600), Put(500)>>)}

MCZScores == {-320, 0, 200}
MCSurprises == {-12, 8}
MCGaps == {-5, 5}
MCPicks == {<<t1>>, <<t2, t1>>, <<t1, t1>>}
MCRevisions == {[breadth |-> b, acceleration |-> 20, moved |-> 3] : b \in {-50, 35, 80}}

News2(a, x, b, y) == <<[ticker |-> a, mood |-> x], [ticker |-> b, mood |-> y]>>
MCCachedNews == {<<>>, News2(t1, 90, t5, 10), News2(t2, 75, t1, 95) \o News2(t3, 20, t4, 50)}
=============================================================================
