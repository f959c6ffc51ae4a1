------------------------------- MODULE Sources -------------------------------
(***************************************************************************)
(* What the providers are asked and what an answer contains.               *)
(*                                                                         *)
(* An operation of a provider is a sequence of calls.  A call brings data, *)
(* nothing, or fails; the kind of the call says how the operation goes on. *)
(* Of an answer the model keeps the names of its fields; no fields is no   *)
(* answer.  No operation raises: what goes wrong inside ends it with what  *)
(* it has, or with nothing.                                                *)
(***************************************************************************)
EXTENDS Integers, Sequences, FiniteSets

----------------------------------------------------------------------------
(* Calls.                                                                  *)

Call(kind, gives) == [kind |-> kind, gives |-> gives]

Need(fields) == Call("need", fields)        \* nothing without it
Also(fields) == Call("also", fields)        \* the same, and the next is asked anyway
Want(fields) == Call("want", fields)        \* may be empty, must not fail
Try(fields) == Call("try", fields)          \* may fail
Page(fields) == Call("page", fields)        \* no more pages after an empty or failed one
First(fields) == Call("first", fields)      \* enough if it brings data
Instead(fields) == Call("instead", fields)  \* enough unless it fails

Outcomes == {"data", "empty", "failed"}

Ends(kind, outcome) ==
    \/ kind \in {"need", "page"} /\ outcome # "data"
    \/ kind = "want" /\ outcome = "failed"
    \/ kind = "first" /\ outcome = "data"
    \/ kind = "instead" /\ outcome # "failed"

Loses(kind, outcome) ==
    \/ kind \in {"need", "also"} /\ outcome # "data"
    \/ kind = "want" /\ outcome = "failed"

Op(source, calls) == [source |-> source, calls |-> calls]
One(source, fields) == Op(source, <<Need(fields)>>)
FieldsOf(op) == UNION {op.calls[i].gives : i \in DOMAIN op.calls}

\* The calls that are made when each call would have this outcome.
Made(calls, outcome) ==
    {i \in DOMAIN calls : \A j \in 1..i - 1 : ~Ends(calls[j].kind, outcome[j])}

\* What the operation then returns.
Returns(calls, outcome) ==
    LET made == Made(calls, outcome)
    IN  IF \E i \in made : Loses(calls[i].kind, outcome[i]) THEN {}
        ELSE UNION {calls[i].gives : i \in {j \in made : outcome[j] = "data"}}

Answers(op) == {Returns(op.calls, outcome) : outcome \in [DOMAIN op.calls -> Outcomes]}

----------------------------------------------------------------------------
(* Financial Modeling Prep.                                                *)

FmpGetFundamentals == Op("fmp", <<
    Need({"market_cap", "pe_ratio", "eps_trailing", "sector", "industry", "avg_volume",
          "analyst_target"}),
    Want({"pe_ratio", "forward_pe", "peg_ratio", "revenue_growth", "profit_margin",
          "debt_to_equity"}),
    Want({"forward_pe", "revenue_growth", "debt_to_equity"})>>)
FmpGetEarnings == One("fmp", {"date", "eps_actual", "eps_estimate", "surprise_pct"})
FmpGetEarningsCalendar == One("fmp", {"date", "symbol", "eps_estimate"})
FmpGetDcf == One("fmp", {"dcf"})

(* Polygon.                                                                *)

Bars == {"date", "open", "high", "low", "close", "volume"}

PolygonGetDailyOhlcv == One("polygon", Bars)
PolygonGetShortVolume ==
    One("polygon", {"date", "total_volume", "short_volume", "short_ratio"})

(* SteadyAPI: as many pages as there are, three or five at most.           *)

Flow == {"symbol", "side", "strike", "premium", "volume", "open_interest", "is_sweep"}

SteadyGetOptionsFlow == Op("steadyapi", <<Page(Flow), Page(Flow), Page(Flow)>>)
SteadyGetInstitutionalSweeps == SteadyGetOptionsFlow
SteadyGetShortInterest == One("steadyapi", {"settlement_date", "short_interest"})
SteadyGetInstitutionalHoldings == One("steadyapi", {"active_positions", "top_holders"})

(* Finnhub.                                                                *)

Trends == {"date", "strong_buy", "buy", "hold", "sell", "strong_sell"}

FinnhubGetRecommendationTrends == One("finnhub", Trends)
FinnhubGetAnalystRevisions ==
    Op("finnhub", <<First(Trends \union {"company", "action", "from_grade", "to_grade"}),
                    Need(Trends)>>)
FinnhubGetNews == One("finnhub", {"headline", "source", "datetime"})

(* SEC EDGAR: a filing that cannot be had or read is left out.             *)

Form4 == {"ticker", "filing_date", "insider_name", "title", "transaction_type",
          "shares", "price", "value"}

EdgarGetInsiderTrades == Op("edgar", <<Need({}), Need({}), Try(Form4), Try(Form4)>>)

(* FINRA.                                                                  *)

FinraComputeDarkPoolMetrics ==
    One("finra", {"avg_weekly_volume", "recent_volume", "volume_trend", "signal_score"})

(* FRED: a series that cannot be had is an empty one.                      *)

FredGetYieldCurveSlope ==
    Op("fred", <<First({"slope"}), Also({"slope"}), Need({"slope"})>>)
FredGetCreditSpread == One("fred", {"spread"})

(* Yahoo, and what is computed from its instruments.                       *)

YfGetDailyOhlcv == One("yfinance", Bars)
YfGetMultipleOhlcv == Op("yfinance", <<Instead(Bars), Try(Bars), Try(Bars)>>)
YfGetCurrentPrice == One("yfinance", {"close"})
YfGetFundamentals == One("yfinance",
    {"market_cap", "pe_ratio", "forward_pe", "peg_ratio", "eps_trailing", "eps_forward",
     "revenue_growth", "profit_margin", "debt_to_equity", "sector", "industry",
     "avg_volume", "analyst_target"})
YfGetSharesOutstanding == One("yfinance", {"shares_outstanding"})
YfGetEarningsHistory == One("yfinance", {"date", "eps_actual", "eps_estimate", "surprise_pct"})
YfGetAnalystRevisions ==
    One("yfinance", {"date", "firm", "action", "from_grade", "to_grade", "price_target"})
YfGetRecommendationTrends == One("yfinance", Trends)
YfHeadlines == One("yfinance", {"headline", "sentiment_score", "sentiment_label"})
ComputeYieldCurveSlope == Op("yfinance", <<Instead({"slope"}), Also({"slope"}), Need({"slope"})>>)
ComputeCreditSpread == Op("yfinance", <<Instead({"spread"}), Also({"spread"}), Need({"spread"})>>)

(* Wikipedia's list of constituents.                                       *)

FetchSp500Constituents == One("wikipedia", {"ticker", "name", "sector", "sub_industry"})
=============================================================================
