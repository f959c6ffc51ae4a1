------------------------------ MODULE MarketScan ------------------------------
(***************************************************************************)
(* _run_scan: the strategies that are enabled run side by side, each on a  *)
(* thread and on objects of its own, and the scan adds up the signals of   *)
(* those that return in time; tickers that none of them has a signal for   *)
(* may then get one from the news alone.  The strategies share nothing, so *)
(* that a behaviour runs one of them: what the others may add is not here. *)
(***************************************************************************)
EXTENDS CrossAsset, Catalyst, Pairs

CONSTANTS
    SweepFeeds,      \* what the source of sweeps may answer for the universe
    CachedNews,      \* the lists of [ticker, mood] the sentiment cache may hold
    MaxFromNews      \* the signals the news alone may give

\* A feed is a table by ticker, and the cache has one mood of a ticker.
ASSUME SweepsAreLists ==
    \A sweeps \in SweepFeeds : \A t \in DOMAIN sweeps :
        sweeps[t] \in Seq([type : STRING, premium : Int])
ASSUME NewsIsATable ==
    /\ MaxFromNews \in Nat
    /\ \A cached \in CachedNews :
         /\ cached \in Seq([ticker : Tickers(cached), mood : Int])
         /\ \A i, j \in DOMAIN cached : cached[i].ticker = cached[j].ticker => i = j

\* Rows of the options_flow table call the ticker "ticker", and the strategies look for
\* a "symbol": while the table has fresh rows they find no sweep of any ticker.
SweepsFound == SweepFeeds \union {<<>>}

Feeds == [cross_asset |-> Readings, flow |-> SweepsFound, catalyst |-> SweepsFound,
          stat_arb |-> {{}, {FirstPair(Combinations)}}]

MarketInit ==
    /\ \E s \in DOMAIN Feeds, x \in Settings :
         /\ scan = [strategy |-> s, vix |-> x.vix, average |-> x.average, sizing |-> x.sizing, atr |-> x.atr]
         /\ feed \in Feeds[s]
    /\ at = "begin" /\ todo = {} /\ exposure = 0
    /\ found = <<>> /\ signals = <<>>

----------------------------------------------------------------------------
(* The scan's thread *)

\* The strategy returned.
Collect ==
    /\ at = "end"
    /\ at' = "returned" /\ signals' = found /\ found' = <<>> /\ exposure' = 0
    /\ UNCHANGED <<scan, feed, todo>>

\* It failed, or it was not back after 600 s: none of its signals count.
Lose ==
    /\ at \notin {"returned", "news", "done"}
    /\ at' = "returned" /\ found' = <<>> /\ exposure' = 0 /\ todo' = {}
    /\ UNCHANGED <<scan, feed, signals>>

NewsAdjust == Clamp(-500, (VolScale - 100) * 8, 1000) \div 100
Extreme(entry) == entry.mood > 72 + NewsAdjust \/ entry.mood < 28 - NewsAdjust

\* The tickers with extreme news and no signal, the most extreme first.
ExtremeNews(cached) ==
    LET places == {i \in DOMAIN cached :
                      cached[i].ticker \notin Tickers(signals) /\ Extreme(cached[i])}
    IN  At(cached, Best(2 * MaxFromNews, places, [i \in places |-> Size(cached[i].mood - 50)]))

NewsSignal(entry) ==
    LET direction == IF entry.mood > 50 THEN "long" ELSE "short"
        conviction == Lesser(85, 35 + Size(entry.mood - 50))
    IN  Signal("news", entry.ticker, direction, conviction, (conviction * PositionScale * 4) \div 10,
               Gained(direction, -((scan.atr * (150 + VolScale \div 2)) \div 100)),
               Gained(direction, (scan.atr * (200 + VolScale)) \div 100))

BeginNews ==
    /\ at = "returned"
    /\ \E cached \in CachedNews : GoOn("news", ExtremeNews(cached), <<>>)

\* The next candidate, unless its prices are too short or have moved against the news.
News ==
    /\ at = "news" /\ todo # <<>> /\ Len(found) < MaxFromNews
    /\ \/ Take(NewsSignal(Head(todo)), Tail(todo))
       \/ PassOver(Tail(todo))

\* A failure loses all of them.
EndNews ==
    /\ at = "news"
    /\ at' = "done" /\ todo' = {} /\ found' = <<>> /\ exposure' = 0
    /\ \/ (todo = <<>> \/ Len(found) = MaxFromNews) /\ signals' = signals \o found
       \/ UNCHANGED signals
    /\ UNCHANGED <<scan, feed>>

MarketNext == \/ RotationNext \/ FlowNext \/ CatalystNext \/ PairsNext
              \/ Collect \/ Lose \/ BeginNews \/ News \/ EndNews

MarketSpec == MarketInit /\ [][MarketNext]_marketVars

----------------------------------------------------------------------------

All == signals \o found

\* However the votes and the sizes fall, sector rotation never puts on more than 15 % of
\* the portfolio, flow trades never more than their 10 % and one position, and the news
\* never more than its few trades at the largest scale.
\* (_generate_sector_trades, generate_signals of the flow strategy, _generate_sentiment_signals)
ExposureBounded ==
    /\ Total(All, "cross_asset") <= 15000
    /\ Total(All, "flow") < 10000 + 4000
    /\ Total(All, "news") <= MaxFromNews * 6800

\* A scan's strategy and its news name a ticker once, whatever the order of the answers
\* and however often a ticker was picked, swept or talked about, and every plan has its
\* stop on the losing and its target on the winning side of the price.
\* (seen, dp_tickers, existing_tickers; compute_stop and the targets)
PlansStand ==
    /\ IsInjective([i \in DOMAIN All |-> All[i].ticker])
    /\ \A i \in DOMAIN All :
         IF All[i].direction = "long"
         THEN All[i].stop < Price /\ Price < All[i].target
         ELSE All[i].target < Price /\ Price < All[i].stop
=============================================================================
