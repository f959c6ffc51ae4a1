----------------------------- MODULE Allocation -----------------------------
(***************************************************************************)
(* The portfolio build, from the ranked candidates to the dollars of each  *)
(* pick.  A candidate is its conviction rank: 1 comes first.  Whether it   *)
(* came from a strategy signal, its direction, sector and Kelly size are   *)
(* arbitrary.                                                              *)
(*                                                                         *)
(* Sizes are whole percents of the capital and dollars whole units of the  *)
(* investable capital; a factor that shrinks a size (a strategy's weight   *)
(* or health, a correlation haircut, shadow evidence, the VaR scale) is    *)
(* one of Factors, in percent.                                             *)
(*                                                                         *)
(* The risk manager's strategy pauses, VaR and drawdown layers are absent: *)
(* they depend on state that only record_strategy_pnl, record_daily_return *)
(* and update_capital write, which nothing calls, and the build passes no  *)
(* portfolio correlation.                                                  *)
(***************************************************************************)
EXTENDS Integers, FiniteSetsExt, Functions

CONSTANTS
    MaxCandidates,  \* bound: candidates left by the waterfall
    Sectors,        \* GICS sectors, "Unknown" among them
    KellySizes,     \* the kelly_size_pct of a signal
    Factors,        \* what a size may be multiplied by, in percent
    DefaultSize,    \* the size of a pick without a signal
    TopCandidates,  \* how many candidates the correlation check looks at
    MaxPicks,
    MaxPosition, MaxGross, MaxNetLong, MaxNetShort, MaxSector, \* risk limits
    MaxWeight,      \* max_position_pct of the build
    Investable,     \* the investable capital
    Tolerance       \* how far from it the allocations may be left

ASSUME AllocationBounds ==
    /\ {MaxCandidates, TopCandidates, MaxPicks, Tolerance} \subseteq Nat
    /\ Investable \in Nat \ {0}
    /\ Factors \subseteq 0..100
ASSUME LimitsAssumption ==
    /\ {DefaultSize, MaxPosition, MaxGross, MaxNetLong, MaxNetShort} \subseteq Nat
    /\ {MaxSector, MaxWeight} \subseteq Nat
    /\ KellySizes \subseteq Nat

VARIABLES
    stage,          \* the loop that runs next
    info,           \* what is known of each candidate
    queue,          \* the picks the risk loop has not looked at
    picks,          \* the candidates kept so far
    size,           \* _kelly_pct of each candidate
    exposures,       \* sector_exposures
    longs, shorts,  \* active_trades, which is only ever summed by direction
    dollars,        \* allocation_dollars of each pick
    halved          \* sharpe_adjusted

book == <<exposures, longs, shorts>>
vars == <<stage, info, queue, picks, size, exposures, longs, shorts, dollars, halved>>

Candidates == 1..MaxCandidates

\* Nothing looks at the stop of a short signal.
Signals ==
    {r \in [signal : {TRUE}, long : BOOLEAN, stop : BOOLEAN,
            kelly : KellySizes, sector : Sectors] : r.long \/ r.stop}
Others == [signal : {FALSE}]

Least(a, b) == IF a < b THEN a ELSE b
Clip(a) == IF a > 0 THEN a ELSE 0

\* The sizes a multiplication by a factor can lead to, and Python's round.
Scaled(a) == {(a * f) \div 100 : f \in Factors}
Rounded(a, b) == (2 * a + b) \div (2 * b)

\* Functions that shrink some of the values of f, on S only.
Shrunk(f, S) ==
    {g \in [Candidates -> UNION {{f[c]} \cup Scaled(f[c]) : c \in Candidates}] :
        \A c \in Candidates : g[c] = f[c] \/ (c \in S /\ g[c] \in Scaled(f[c]))}

FirstOf(k, S) == {c \in S : Cardinality({d \in S : d < c}) < k}
SumOf(f, S) == SumFunctionOnSet(f, S)

Signalled == {c \in Candidates : info[c].signal}

----------------------------------------------------------------------------
(* The waterfall: any signals, sentiment leaders, sector picks and blue     *)
(* chips.  What the sector dedup leaves of them is again any candidates.   *)
Waterfall ==
    /\ \E n \in 0..MaxCandidates : picks = 1..n
    /\ info \in [Candidates -> Signals \cup Others]
    /\ \A c \in Candidates \ picks : info[c] \in Others

\* A signal's Kelly size (2 if it has none) by its strategy's weight.
InitialSizes(c) ==
    IF info[c].signal
    THEN {Least(k, MaxWeight) :
            k \in Scaled(IF info[c].kelly = 0 THEN 2 ELSE info[c].kelly)}
    ELSE {DefaultSize}

Init ==
    /\ Waterfall
    /\ stage = IF picks = {} THEN "done" ELSE "health"
    /\ size \in [Candidates -> UNION {InitialSizes(c) : c \in Candidates}]
    /\ \A c \in Candidates : size[c] \in InitialSizes(c)
    /\ queue = {}
    /\ exposures = [s \in Sectors |-> 0]
    /\ longs = 0
    /\ shorts = 0
    /\ dollars = [c \in Candidates |-> 0]
    /\ halved = FALSE

----------------------------------------------------------------------------
\* compute_strategy_health may pause the strategy of any signal.
PausedSets == SUBSET (picks \cap Signalled)

(* A paused strategy's signals are dropped, a degraded one's reduced.      *)
HealthFilter ==
    /\ stage = "health"
    /\ stage' = "correlation"
    /\ \E paused \in PausedSets : picks' = picks \ paused
    /\ size' \in Shrunk(size, picks' \cap Signalled)
    /\ UNCHANGED <<info, queue, book, dollars, halved>>

\* check_new_position_correlation may drop any but the first.
CorrelatedSets(top) == SUBSET (top \ FirstOf(1, top))

\* Mutant: the risk loop goes over the candidates before the dedup.
CorrelationDedupUnused ==
    LET top == FirstOf(TopCandidates, picks)
    IN  /\ stage = "correlation"
        /\ stage' = "risk"
        /\ \E dropped \in CorrelatedSets(top) :
               picks' = FirstOf(MaxPicks, top \ dropped)
        /\ queue' = top
        /\ UNCHANGED <<info, size, book, dollars, halved>>

(* The best candidate is kept; another is dropped or reduced when it is    *)
(* correlated with one that was kept.                                      *)
CorrelationDedup ==
    LET top == FirstOf(TopCandidates, picks)
    IN  /\ stage = "correlation"
        /\ stage' = "risk"
        /\ \E dropped \in CorrelatedSets(top) :
               picks' = FirstOf(MaxPicks, top \ dropped)
        /\ queue' = picks'
        /\ size' \in Shrunk(size, picks' \ FirstOf(1, top))
        /\ UNCHANGED <<info, book, dollars, halved>>

----------------------------------------------------------------------------
(* check_trade measures the accepted trades by their signals' Kelly sizes. *)
(* Each limit caps what the ones before have left.                         *)
\* Mutant: the accepted trades are not counted.
GrossRoomStale == MaxGross

GrossRoom == Clip(MaxGross - (longs + shorts))
NetRoom(c) ==
    Clip(IF info[c].long THEN MaxNetLong + shorts - longs ELSE MaxNetShort + longs - shorts)
SectorRoom(c) == Clip(MaxSector - exposures[info[c].sector])

AdjustedSize(c) ==
    Least(Least(Least(Least(info[c].kelly, MaxPosition), GrossRoom), NetRoom(c)), SectorRoom(c))

\* Only a long position needs a stop.
Approved(c) == (info[c].long => info[c].stop) /\ AdjustedSize(c) > 0

\* Mutant: the pick keeps the size it came with.
SizeUncapped(c) == size[c]

SizeAfterCheck(c) ==
    IF AdjustedSize(c) < info[c].kelly
    THEN Least(size[c], AdjustedSize(c)) ELSE size[c]

(* One round of the risk loop.  Picks without a signal are not checked.    *)
RiskCheck(c) ==
    /\ stage = "risk"
    /\ c \in FirstOf(1, queue)
    /\ queue' = queue \ {c}
    /\ IF info[c].signal /\ Approved(c)
       THEN /\ size' = [size EXCEPT ![c] = SizeAfterCheck(c)]
            /\ exposures' = [exposures EXCEPT ![info[c].sector] = @ + SizeAfterCheck(c)]
            /\ longs' = IF info[c].long THEN longs + info[c].kelly ELSE longs
            /\ shorts' = IF info[c].long THEN shorts ELSE shorts + info[c].kelly
       ELSE UNCHANGED <<size, book>>
    /\ picks' = IF info[c].signal /\ ~Approved(c) THEN picks \ {c} ELSE picks
    /\ UNCHANGED <<stage, info, dollars, halved>>

(* Past signals that did badly reduce a signal's size.                     *)
ShadowSizing ==
    /\ stage = "risk"
    /\ queue = {}
    /\ stage' = "allocate"
    /\ size' \in Shrunk(size, picks)
    /\ UNCHANGED <<info, queue, picks, book, dollars, halved>>

----------------------------------------------------------------------------
Number == Cardinality(picks)
Allocated == SumOf(dollars, picks)

(* round(investable * min(kelly / total, 8%) * n, 2), capped at 8% again.  *)
KellyShare(c) ==
    LET total == SumOf(size, picks)
    IN  IF total = 0 THEN 0
        ELSE Min({Rounded(Investable * size[c] * Number, total),
                  Rounded(Investable * MaxWeight * Number, 100),
                  Rounded(Investable * MaxWeight, 100)})

Allocate ==
    /\ stage = "allocate"
    /\ stage' = "var"
    /\ dollars' = [c \in Candidates |-> IF c \in picks THEN KellyShare(c) ELSE 0]
    /\ UNCHANGED <<info, queue, picks, size, book, halved>>

\* 2% over the portfolio's VaR; 100 if it is lower or could not be computed.
VarScales == Factors \cup {100}

(* Every allocation is scaled down if the portfolio's VaR is above 2%.     *)
VarCheck ==
    /\ stage = "var"
    /\ stage' = "sharpe"
    /\ \E f \in VarScales :
           dollars' = [c \in Candidates |-> Rounded(dollars[c] * f, 100)]
    /\ UNCHANGED <<info, queue, picks, size, book, halved>>

(* The last pick is halved if the expected Sharpe ratio is low.            *)
SharpeCheck ==
    /\ stage = "sharpe"
    /\ stage' = "normalise"
    /\ halved' \in {FALSE, Number > 1}
    /\ dollars' = [c \in Candidates |->
           IF halved' /\ c = Max(picks) THEN Rounded(dollars[c], 2) ELSE dollars[c]]
    /\ UNCHANGED <<info, queue, picks, size, book>>

\* Mutant: without abs().
OffTargetAbove == Allocated - Investable > Tolerance

OffTarget ==
    /\ Allocated > 0
    /\ Allocated - Investable > Tolerance \/ Investable - Allocated > Tolerance

(* The allocations are scaled to sum to the investable capital.            *)
Normalise ==
    /\ stage = "normalise"
    /\ stage' = "done"
    /\ dollars' = IF OffTarget
                  THEN [c \in Candidates |-> Rounded(dollars[c] * Investable, Allocated)]
                  ELSE dollars
    /\ UNCHANGED <<info, queue, picks, size, book, halved>>

Next ==
    \/ HealthFilter \/ CorrelationDedup
    \/ \E c \in Candidates : RiskCheck(c)
    \/ ShadowSizing \/ Allocate \/ VarCheck \/ SharpeCheck \/ Normalise

Spec == Init /\ [][Next]_vars
----------------------------------------------------------------------------
(* Properties.                                                             *)

Stages == {"health", "correlation", "risk", "allocate", "var", "sharpe", "normalise", "done"}

TypeOK ==
    /\ stage \in Stages
    /\ info \in [Candidates -> Signals \cup Others]
    /\ picks \subseteq Candidates
    /\ queue \subseteq picks
    /\ size \in [Candidates -> Nat]
    /\ exposures \in [Sectors -> Nat]
    /\ longs \in Nat /\ shorts \in Nat
    /\ dollars \in [Candidates -> Nat]
    /\ halved \in BOOLEAN

\* The signals the risk loop has accepted.
Active == {c \in picks \ queue : info[c].signal}

(* What check_trade grants and what the build uses are different sizes:    *)
(* the build caps its own size only when the signal's was cut.  Still no   *)
(* sector's exposure passes its limit, and no accepted signal the position *)
(* limit, for any weights, haircuts and order of candidates.               *)
WithinLimits ==
    /\ \A s \in Sectors : exposures[s] <= MaxSector
    /\ stage \notin {"health", "correlation"} =>
           \A c \in Active : size[c] <= MaxPosition

(* The sizes themselves add up to no more than the sector limit in any     *)
(* sector and the gross limit overall, although check_trade measures the   *)
(* accepted trades by their Kelly sizes and the build by its own.          *)
PortfolioLimits ==
    stage \notin {"health", "correlation"} =>
        /\ SumOf(size, Active) <= MaxGross
        /\ \A s \in Sectors :
               SumOf(size, {c \in Active : info[c].sector = s}) <= MaxSector

(* Whatever was capped, scaled for VaR or halved: the finished allocations *)
(* sum to the investable capital, up to the tolerance or the rounding of   *)
(* each pick, or nothing is invested.                                      *)
FullyInvested ==
    stage = "done" /\ Allocated > 0 =>
        LET most == Max({2 * Tolerance, Number})
        IN  2 * (Allocated - Investable) \in -most..most
=============================================================================
