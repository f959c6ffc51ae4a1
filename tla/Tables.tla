-------------------------------- MODULE Tables --------------------------------
(***************************************************************************)
(* The pre-fetched tables.  Jobs of two processes ask the providers and    *)
(* write what they answer into a table, ticker by ticker; a cleanup drops  *)
(* what is old; readers look into the table first and ask the providers    *)
(* when it has nothing for them.                                           *)
(*                                                                         *)
(* Tables share nothing, so a behaviour looks at one of them.  Time goes   *)
(* by in days, and every day brings one event a ticker: a day's prices, a  *)
(* report, a filing.  An event, a row and a run are known by their age.    *)
(***************************************************************************)
EXTENDS Sources, FiniteSetsExt, TLC

CONSTANTS
    Procs,          \* processes that run the jobs: both register all of them
    Universe,       \* number of tickers: they are known by their place in the list
    Hundred,        \* how many of them are among the first hundred
    Horizon,        \* bound: nothing older is told apart
    Keep,           \* days cleanup_old_data leaves a row
    MinRows         \* days of prices a reader is content with

ASSUME TablesBounds ==
    /\ Horizon \in Nat /\ Keep \in 1..Horizon - 1
    /\ Universe \in Nat /\ Hundred \in 0..Universe
    /\ MinRows \in Nat

VARIABLES
    table,      \* the table
    keys,       \* the providers that are configured
    rows,       \* rows of each ticker, by the age of their event; seen is the age they go by
    job,        \* the run of each process
    done,       \* ages of the runs that went well from end to end
    read        \* what the last reader got

vars == <<table, keys, rows, job, done, read>>

None == "none"
Ages == 0..Horizon
Tickers == 1..Universe

----------------------------------------------------------------------------
(* The schema, and the rows the jobs build for it: the fields that may     *)
(* fill a column.                                                          *)

Row(fill, answer) == {c \in DOMAIN fill : fill[c] \cap answer # {}}

Columns == [
    universe           |-> {"ticker", "name", "sector", "sub_industry"},
    market_prices      |-> {"price_date", "open", "high", "low", "close", "volume"},
    cross_asset_prices |-> {"price_date", "close"},
    fundamentals       |-> {"market_cap", "pe_ratio", "forward_pe", "eps", "revenue_growth",
                            "profit_margin", "sector", "industry", "avg_volume",
                            "shares_outstanding", "analyst_target"},
    earnings_data      |-> {"report_date", "fiscal_quarter", "eps_actual", "eps_estimate",
                            "surprise_pct", "revenue_actual", "revenue_estimate"},
    analyst_revisions  |-> {"revision_date", "firm", "action", "rating_from", "rating_to",
                            "price_target"},
    news_sentiment     |-> {"headline", "sentiment_score", "sentiment_label"},
    options_flow       |-> {"ticker", "flow_timestamp", "flow_type", "side", "strike",
                            "expiry", "premium", "volume", "open_interest"},
    dark_pool          |-> {"report_date", "volume", "short_volume", "short_ratio"},
    insider_trades     |-> {"insider_name", "title", "transaction_date", "transaction_type",
                            "shares", "price", "value"}]

Same(names) == [c \in names |-> {c}]

UniverseRow == Same(Columns.universe)
PriceRow == Same({"open", "high", "low", "close", "volume"}) @@ [price_date |-> {"date"}]
CrossAssetRow == [price_date |-> {"date"}, close |-> {"close"}]
FundamentalsRow ==
    Same({"market_cap", "pe_ratio", "forward_pe", "revenue_growth", "profit_margin",
          "sector", "industry", "avg_volume", "shares_outstanding", "analyst_target"})
      @@ [eps |-> {"eps_trailing", "eps"}, dcf_fair_value |-> {"dcf"}, dcf_method |-> {"dcf"}]
EarningsRow ==
    [report_date |-> {"date", "report_date"}, fiscal_quarter |-> {"fiscal_quarter"},
     eps_actual |-> {"eps_actual", "actualEarningResult"},
     eps_estimate |-> {"eps_estimate", "estimatedEarning"},
     surprise_pct |-> {"surprise_pct", "surprisePercent"},
     revenue_actual |-> {"revenue_actual", "actualRevenue"},
     revenue_estimate |-> {"revenue_estimate", "estimatedRevenue"}]
RevisionsRow ==
    [revision_date |-> {"date", "revision_date"}, firm |-> {"firm"}, action |-> {"action"},
     rating_from |-> {"from_grade"}, rating_to |-> {"to_grade"},
     price_target |-> {"price_target"}]
\* Finnhub answers with a list, of which the job wants the key "revisions".
NoRow == [c \in {} |-> {}]
NewsRow == Same(Columns.news_sentiment)
FlowRow ==
    Same({"side", "strike", "premium", "volume", "open_interest"})
      @@ [ticker |-> {"ticker", "symbol"}, flow_timestamp |-> Flow, flow_type |-> Flow,
          expiry |-> {"expiry", "expiration_date"}]
PolygonDarkPoolRow ==
    [report_date |-> {"date"}, volume |-> {"total_volume"},
     short_volume |-> {"short_volume"}, short_ratio |-> {"short_ratio"}]
FinraDarkPoolRow ==
    [report_date |-> {"signal_score"}, volume |-> {"total_volume"},
     short_volume |-> {"short_volume"}, short_ratio |-> {"short_ratio"}]
InsiderRow ==
    Same({"insider_name", "title", "transaction_type", "shares", "price", "value"})
      @@ [transaction_date |-> {"transaction_date", "date"}]

----------------------------------------------------------------------------
(* The jobs.  A job asks for everything at once or ticker by ticker; a     *)
(* failing write is tried again or not, and ends the run or costs it one   *)
(* ticker.  An answer holds the events of so many days.                    *)

From(op, fill) == [op |-> op, fill |-> fill]

RefreshUniverse ==
    [asks |-> <<From(FetchSp500Constituents, UniverseRow)>>,
     atOnce |-> TRUE, ends |-> TRUE, days |-> 1]
RefreshMarketPrices ==
    [asks |-> <<From(YfGetMultipleOhlcv, PriceRow)>>,
     atOnce |-> TRUE, ends |-> TRUE, days |-> 2]
RefreshCrossAssetPrices ==
    [asks |-> <<From(YfGetMultipleOhlcv, CrossAssetRow)>>,
     atOnce |-> TRUE, ends |-> TRUE, days |-> 2]
RefreshFundamentals ==
    [asks |-> <<From(FmpGetFundamentals, FundamentalsRow),
                From(YfGetFundamentals, FundamentalsRow)>>,
     atOnce |-> FALSE, ends |-> FALSE, days |-> 1]
RefreshEarnings ==
    [asks |-> <<From(YfGetEarningsHistory, EarningsRow), From(FmpGetEarnings, EarningsRow)>>,
     atOnce |-> FALSE, ends |-> FALSE, days |-> 2]
RefreshRevisions ==
    [asks |-> <<From(YfGetAnalystRevisions, RevisionsRow),
                From(FinnhubGetAnalystRevisions, NoRow)>>,
     atOnce |-> FALSE, ends |-> FALSE, days |-> 2]
RefreshNewsSentiment ==
    [asks |-> <<From(YfHeadlines, NewsRow)>>,
     atOnce |-> FALSE, ends |-> FALSE, days |-> 1]
RefreshOptionsFlow ==
    [asks |-> <<From(SteadyGetInstitutionalSweeps, FlowRow)>>,
     atOnce |-> TRUE, ends |-> TRUE, days |-> 1]
RefreshDarkPool ==
    [asks |-> <<From(PolygonGetShortVolume, PolygonDarkPoolRow),
                From(FinraComputeDarkPoolMetrics, FinraDarkPoolRow)>>,
     atOnce |-> FALSE, ends |-> FALSE, days |-> 1]
RefreshInsiderTrades ==
    [asks |-> <<From(EdgarGetInsiderTrades, InsiderRow)>>,
     atOnce |-> FALSE, ends |-> FALSE, days |-> 2]

Job == [universe |-> RefreshUniverse, market_prices |-> RefreshMarketPrices,
        cross_asset_prices |-> RefreshCrossAssetPrices, fundamentals |-> RefreshFundamentals,
        earnings_data |-> RefreshEarnings, analyst_revisions |-> RefreshRevisions,
        news_sentiment |-> RefreshNewsSentiment, options_flow |-> RefreshOptionsFlow,
        dark_pool |-> RefreshDarkPool, insider_trades |-> RefreshInsiderTrades]

\* Rows that are not about a day, and those the cleanup never touches.
Undated == {"universe", "fundamentals"}
\* Rows that go by the day of their event; others by the day they were fetched.
ByEvent == {"market_prices", "cross_asset_prices", "dark_pool"}

\* Tables a run inserts into whatever they hold; it replaces rows of the others.
Inserted == {"analyst_revisions", "news_sentiment", "options_flow", "insider_trades"}

\* Whom a run is about.
Wanted == IF table = "insider_trades" THEN 1..Hundred ELSE Tickers

Free == {"yfinance", "finra", "wikipedia"}
Configured(op) == op.source \in keys \union Free

----------------------------------------------------------------------------
(* The readers: the table first, then providers until one has something,   *)
(* or one whose answer is taken whatever it is.                            *)

Ask(op) == [op |-> op, only |-> FALSE]
Only(op) == [op |-> op, only |-> TRUE]
Reader(t, asks) == [table |-> t, asks |-> asks]

GetDailyOhlcv == Reader("market_prices", <<Ask(PolygonGetDailyOhlcv), Ask(YfGetDailyOhlcv)>>)
GetMultipleOhlcv == Reader("market_prices", <<Ask(YfGetMultipleOhlcv)>>)
GetCurrentPrice == Reader("market_prices", <<Ask(YfGetCurrentPrice)>>)
GetFundamentals == Reader("fundamentals", <<Ask(FmpGetFundamentals), Ask(YfGetFundamentals)>>)
GetSharesOutstanding == Reader("fundamentals", <<Ask(YfGetSharesOutstanding)>>)
GetEarningsData == Reader("earnings_data", <<Ask(FmpGetEarnings), Ask(YfGetEarningsHistory)>>)
GetAnalystRevisions ==
    Reader("analyst_revisions", <<Only(FinnhubGetAnalystRevisions), Ask(YfGetAnalystRevisions)>>)
GetNewsSentiment == Reader("news_sentiment", <<Only(FinnhubGetNews)>>)
GetInsiderTrades == Reader("insider_trades", <<Only(EdgarGetInsiderTrades)>>)
GetDarkPoolActivity ==
    Reader("dark_pool", <<Ask(PolygonGetShortVolume), Only(FinraComputeDarkPoolMetrics)>>)
GetSteadyapiSweeps == Reader("options_flow", <<Only(SteadyGetInstitutionalSweeps)>>)

\* These have no table.
GetEarningsCalendar == Reader(None, <<Only(FmpGetEarningsCalendar)>>)
GetRecommendationTrends ==
    Reader(None, <<Ask(FinnhubGetRecommendationTrends), Ask(YfGetRecommendationTrends)>>)
GetYieldCurveSlope == Reader(None, <<Ask(FredGetYieldCurveSlope), Ask(ComputeYieldCurveSlope)>>)
GetCreditSpread == Reader(None, <<Ask(FredGetCreditSpread), Ask(ComputeCreditSpread)>>)
GetInsiderBuyingScore == Reader(None, <<Only(EdgarGetInsiderTrades)>>)
GetShortInterest == Reader(None, <<Only(SteadyGetShortInterest)>>)
GetInstitutionalHoldings == Reader(None, <<Only(SteadyGetInstitutionalHoldings)>>)

Readers == [
    daily_ohlcv |-> GetDailyOhlcv, multiple_ohlcv |-> GetMultipleOhlcv,
    current_price |-> GetCurrentPrice, fundamentals |-> GetFundamentals,
    shares_outstanding |-> GetSharesOutstanding, earnings_data |-> GetEarningsData,
    analyst_revisions |-> GetAnalystRevisions, news_sentiment |-> GetNewsSentiment,
    insider_trades |-> GetInsiderTrades, dark_pool_activity |-> GetDarkPoolActivity,
    steadyapi_sweeps |-> GetSteadyapiSweeps, earnings_calendar |-> GetEarningsCalendar,
    recommendation_trends |-> GetRecommendationTrends,
    yield_curve_slope |-> GetYieldCurveSlope, credit_spread |-> GetCreditSpread,
    insider_buying_score |-> GetInsiderBuyingScore, short_interest |-> GetShortInterest,
    institutional_holdings |-> GetInstitutionalHoldings]

\* Providers whose key makes a difference for a table.
Keyed(t) ==
    {r.op.source : r \in UNION {{Readers[f].asks[i] : i \in DOMAIN Readers[f].asks} :
                                  f \in {g \in DOMAIN Readers : Readers[g].table = t}}} \ Free

----------------------------------------------------------------------------
(* State.                                                                  *)

NoData == [cols |-> {}, seen |-> 0]
NoRun == [at |-> "idle", todo |-> {}, has |-> [k \in Tickers |-> {}], age |-> 0, good |-> TRUE]
NoRead == [reader |-> None, silent |-> FALSE, asked |-> {}, got |-> {}]

Filled(t) == UNION {DOMAIN Job[t].asks[i].fill : i \in DOMAIN Job[t].asks}
AllColumns == UNION {Columns[t] \union Filled(t) : t \in DOMAIN Columns}
AllFields ==
    UNION {UNION {FieldsOf(Readers[f].asks[i].op) : i \in DOMAIN Readers[f].asks} : f \in DOMAIN Readers}

TypeOK ==
    /\ table \in DOMAIN Job \union {None}
    /\ keys \subseteq {"fmp", "polygon", "finnhub", "fred", "edgar", "steadyapi"}
    /\ \A k \in Tickers, a \in Ages :
         /\ table # None => rows[k][a].cols \subseteq Columns[table]
         /\ rows[k][a].seen \in Ages
    /\ \A p \in Procs :
         /\ job[p].at \in {"idle", "ask", "write"}
         /\ job[p].todo \subseteq Tickers
         /\ \A k \in Tickers : job[p].has[k] \subseteq AllColumns
         /\ job[p].age \in 0..1 /\ job[p].good \in BOOLEAN
    /\ done \subseteq 0..Horizon - 1
    /\ read.asked \subseteq keys \union Free
    /\ read.got \subseteq AllColumns \union AllFields

Init ==
    /\ table \in DOMAIN Job \union {None}
    /\ keys \in SUBSET Keyed(table)
    /\ rows = [k \in Tickers |-> [a \in Ages |-> NoData]]
    /\ job = [p \in Procs |-> NoRun]
    /\ done = {}
    /\ read = NoRead

----------------------------------------------------------------------------
(* A run.                                                                  *)

\* The scheduler, or initial_data_load after a start.  A job whose universe or
\* provider is missing returns at once.
Begin(p) ==
    /\ table # None /\ job[p].at = "idle"
    /\ \E i \in DOMAIN Job[table].asks : Configured(Job[table].asks[i].op)
    /\ job' = [job EXCEPT ![p] = [NoRun EXCEPT !.at = "ask", !.todo = Wanted]]
    /\ UNCHANGED <<table, keys, rows, done, read>>

\* _fetch_dcf_fair_value adds to the fundamentals what FMP says.
Added(t) ==
    IF t = "fundamentals" /\ "fmp" \in keys THEN Answers(FmpGetDcf) ELSE {{}}

\* What providers that are asked one after the other may say: those that are configured.
Says(asks) ==
    {said \in [DOMAIN asks -> UNION {Answers(asks[i].op) : i \in DOMAIN asks}] :
        \A i \in DOMAIN asks : said[i] \in Answers(asks[i].op)}
InTurn(asks) == {i \in DOMAIN asks : Configured(asks[i].op)}

\* The job takes the first answer that is one, and the row it is made of.
Asked(asks) ==
    {LET answered == {i \in InTurn(asks) : said[i] # {}}
     IN  IF answered = {} THEN [got |-> {}, fill |-> NoRow]
         ELSE [got |-> said[Min(answered)], fill |-> asks[Min(answered)].fill] :
       said \in Says(asks)}

Waiting(j) == {k \in Tickers : j.has[k] # {}}

\* The run j of process p goes on with its rows, its next ticker, or ends.
Goes(p, j) ==
    IF Waiting(j) = {} /\ (Job[table].atOnce \/ j.todo = {})
    THEN /\ job' = [job EXCEPT ![p] = NoRun]
         /\ done' = IF j.good THEN done \union {j.age} ELSE done
    ELSE /\ job' = [job EXCEPT ![p] = [j EXCEPT !.at = IF Waiting(j) = {} THEN "ask" ELSE "write"]]
         /\ UNCHANGED done

\* For the tickers in ks at once; a row names every column it has a value for.
Fetch(p, ks) ==
    /\ job[p].at = "ask"
    /\ ks = IF Job[table].atOnce THEN job[p].todo ELSE {Min(job[p].todo)}
    /\ \E r \in Asked(Job[table].asks), extra \in Added(table),
          brought \in IF Job[table].atOnce THEN SUBSET ks ELSE {ks} :
         /\ table = "universe" => brought = ks
         /\ LET cols == IF r.got = {} THEN {} ELSE Row(r.fill, r.got \union extra)
            IN  Goes(p, [job[p] EXCEPT
                  !.has = [k \in Tickers |-> IF k \in brought THEN cols ELSE {}],
                  !.todo = @ \ ks,
                  !.good = @ /\ cols # {} /\ brought = ks /\ job[p].age = 0])
    /\ UNCHANGED <<table, keys, rows, read>>

\* The days of an answer fetched when the run was so old.
DaysOf(age) ==
    IF table \in Undated THEN {0} ELSE {a \in Ages : age <= a /\ a < age + Job[table].days}

\* Mutant: the table takes columns it does not have.
TakesAny(cols) == cols # {}

\* The schema knows the columns the job names.
Accepted(cols) ==
    /\ cols # {}
    /\ \A i \in DOMAIN Job[table].asks :
         DOMAIN Job[table].asks[i].fill \subseteq Columns[table]

\* Of the copies that inserting leaves the youngest goes last.
Younger(row, age) == row # NoData /\ row.seen < age

Write(p, k) ==
    /\ job[p].at = "write" /\ k \in Waiting(job[p])
    /\ Accepted(job[p].has[k])
    /\ rows' = [rows EXCEPT ![k] = [a \in Ages |->
         IF a \in DaysOf(job[p].age) /\ ~(table \in Inserted /\ Younger(@[a], job[p].age))
           THEN [cols |-> job[p].has[k], seen |-> IF table \in ByEvent THEN a ELSE job[p].age]
           ELSE @[a]]]
    /\ Goes(p, [job[p] EXCEPT !.has[k] = {}])
    /\ UNCHANGED <<table, keys, read>>

\* A refusal, or the last attempt after timeouts (attempts before it change
\* nothing): the end of the run, or of this ticker.
WriteFails(p, k) ==
    /\ job[p].at = "write" /\ k \in Waiting(job[p])
    /\ IF Job[table].ends
         THEN /\ job' = [job EXCEPT ![p] = NoRun]
              /\ UNCHANGED done
         ELSE Goes(p, [job[p] EXCEPT !.has[k] = {}, !.good = FALSE])
    /\ UNCHANGED <<table, keys, rows, read>>

Crash(p) ==
    /\ job[p].at # "idle"
    /\ job' = [job EXCEPT ![p] = NoRun]
    /\ UNCHANGED <<table, keys, rows, done, read>>

----------------------------------------------------------------------------
(* The cleanup and the calendar.                                           *)

\* Mutant: the day of the cutoff is dropped with what is older.
OldFromCutoff(row) == row.seen >= Keep

Old(row) == row.seen > Keep

CleanupOldData ==
    /\ table \notin Undated
    /\ rows' = [k \in Tickers |-> [a \in Ages |->
                  IF Old(rows[k][a]) THEN NoData ELSE rows[k][a]]]
    /\ rows' # rows
    /\ UNCHANGED <<table, keys, job, done, read>>

\* Bound: a run takes less than two days.
NextDay ==
    /\ table # None
    /\ \A p \in Procs : job[p].at # "idle" => job[p].age = 0
    /\ LET Older(n) == IF n = Horizon THEN Horizon ELSE n + 1
           Aged(row) == IF row = NoData THEN row ELSE [row EXCEPT !.seen = Older(@)]
       IN  rows' = [k \in Tickers |-> [a \in Ages |->
                      IF table \in Undated THEN rows[k][a]
                      ELSE IF a = 0 THEN NoData ELSE Aged(rows[k][a - 1])]]
    /\ job' = [p \in Procs |-> IF job[p].at = "idle" THEN job[p] ELSE [job[p] EXCEPT !.age = 1]]
    /\ done' = {d + 1 : d \in done} \ {Horizon}
    /\ UNCHANGED <<table, keys, read>>

----------------------------------------------------------------------------
(* A read.                                                                 *)

Present(k) == {a \in Ages : rows[k][a].cols # {}}
Newest(k) == rows[k][CHOOSE a \in Present(k) : \A b \in Present(k) : a <= b].cols

Critical == {"pe_ratio", "forward_pe", "peg_ratio", "revenue_growth", "profit_margin",
             "debt_to_equity", "eps", "eps_forward"}

\* What the table has for the reader.
InTable(f, k) ==
    IF Present(k) = {} THEN {}
    ELSE CASE f \in {"daily_ohlcv", "multiple_ohlcv"} ->
                IF Cardinality({a \in Present(k) : "close" \in rows[k][a].cols}) >= MinRows
                THEN Newest(k) ELSE {}
           [] f = "current_price" -> Newest(k) \cap {"close"}
           [] f = "shares_outstanding" -> Newest(k) \cap {"shares_outstanding"}
           [] f = "insider_trades" ->
                IF "transaction_date" \in Newest(k) THEN Newest(k) ELSE {}
           [] OTHER -> Newest(k)

\* Fundamentals that lack something critical are completed from Yahoo.
Completed(f, cols) ==
    IF f = "fundamentals" /\ ~(Critical \subseteq cols) THEN {"yfinance"} ELSE {}

\* Mutant: one provider is enough.
AsksOne(asks) == SubSeq(asks, 1, 1)

AsksAll(asks) == asks

\* The providers' turn: what was got and who was asked.  One that answers, and one
\* whose word is final, is the last.
Live(asks) ==
    {LET turn == {i \in InTurn(asks) :
                    \A j \in InTurn(asks) : j < i => ~asks[j].only /\ said[j] = {}}
     IN  [got |-> UNION {said[i] : i \in turn}, asked |-> {asks[i].op.source : i \in turn}] :
       said \in Says(asks)}

\* A table may not answer in time, or its answer be older than the reader wants.
Read(f, k) ==
    /\ Readers[f].table = table
    /\ \/ /\ InTable(f, k) # {}
          /\ read' = [reader |-> f, silent |-> FALSE, got |-> InTable(f, k),
                      asked |-> Completed(f, InTable(f, k))]
       \/ \E r \in Live(AsksAll(Readers[f].asks)) :
            read' = [reader |-> f, silent |-> InTable(f, k) # {}, got |-> r.got, asked |-> r.asked]
    /\ UNCHANGED <<table, keys, rows, job, done>>

\* The reader takes its answer: nothing else looks at it.
Returned ==
    /\ read # NoRead
    /\ read' = NoRead
    /\ UNCHANGED <<table, keys, rows, job, done>>

Next ==
    \/ /\ read = NoRead
       /\ \/ \E p \in Procs :
               \/ Begin(p) \/ Crash(p)
               \/ \E ks \in SUBSET Tickers : Fetch(p, ks)
               \/ \E k \in Tickers : Write(p, k) \/ WriteFails(p, k)
          \/ \E f \in DOMAIN Readers, k \in Tickers : Read(f, k)
          \/ CleanupOldData \/ NextDay
    \/ Returned

Spec == Init /\ [][Next]_vars

----------------------------------------------------------------------------
(* Properties.                                                             *)

\* What the cleanup leaves of the event of age a that a run of age d fetched.
Promised(a, d) ==
    \/ table \in Undated
    \/ table \in ByEvent /\ a <= Keep
    \/ table \in Inserted /\ d <= Keep
    \/ d < Keep

\* A run that went well leaves its rows to the readers for as long as the
\* cleanup promises, whatever the other process, crashes, the change of day and
\* the cleanup do: a day is missing only if no run went well while it was new.
\* (refresh_scheduler.py; the row of a run that spans midnight is one day older)
RowsOfCompletedRuns ==
    \A d \in done, k \in Wanted :
      \A a \in DaysOf(d) : Promised(a, d) => rows[k][a].cols # {}

\* A reader comes back with nothing only after everybody configured was asked,
\* save Yahoo for the revisions: Finnhub's word is final there.  (DataFetcher)
NothingOnlyAfterAll ==
    read.reader # None /\ read.got = {} =>
      \A i \in DOMAIN Readers[read.reader].asks :
        LET op == Readers[read.reader].asks[i].op
        IN  Configured(op) =>
              \/ op.source \in read.asked
              \/ read.reader = "analyst_revisions" /\ op.source = "yfinance"

\* After a run of today that went well, a reader the table answers needs no
\* provider.  (refresh_scheduler.py)
TableServes == 0 \in done /\ ~read.silent => read.asked = {}
=============================================================================
