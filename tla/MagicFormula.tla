---------------------------- MODULE MagicFormula ----------------------------
(***************************************************************************)
(* The ranking of the screen (MagicFormulaEngine).  Securities that the     *)
(* configuration excludes, or whose figures are missing, are set aside; the *)
(* others are ranked by return on capital and by earnings yield, and the    *)
(* sums of the ranks order them, with momentum added or used as a filter.   *)
(*                                                                         *)
(* A security is its ticker, a number in the order of the names.  Returns   *)
(* and yields are compared as fractions, so there is no rounding.           *)
(***************************************************************************)
EXTENDS Integers, Sequences, FiniteSets, SequencesExt

CONSTANTS
    Securities,   \* tickers of the snapshots to screen
    Figures,      \* figures a security may have
    TopN,         \* values of config.top_n
    MinCap,       \* config.min_market_cap, zero when there is none
    NoValue       \* None

Sectors == {"tech", "energy", "finance", "utility"}

\* SecuritySnapshot: every figure may be missing.
Figure ==
    LET number == Int \union {NoValue}
    IN  [sector : Sectors, isAdr : BOOLEAN, ebit : number, netPpe : number, assets : number,
         liabilities : number, marketCap : number, debt : number, excessCash : number,
         cash : number, momentum : number]

ASSUME FormulaAssumption ==
    /\ Securities \subseteq Nat /\ IsFiniteSet(Securities) /\ Figures \subseteq Figure
    /\ TopN \subseteq Nat \ {0} /\ MinCap \in Nat /\ NoValue \notin Int

VARIABLES
    mfSnapshot,   \* the figures of each security
    mfConfig,     \* [mode, topN, allowed]: momentum_mode, top_n, sector_allowlist
    mfRanked,     \* ScreenResult.ranked, tickers
    mfExcluded,   \* ScreenResult.excluded, a reason by ticker
    mfDone        \* the screen has run

formulaVars == <<mfSnapshot, mfConfig, mfRanked, mfExcluded, mfDone>>

-----------------------------------------------------------------------------
Modes == {"none", "overlay", "filter"}

\* A figure that is missing counts as the default.
OrElse(value, default) == IF value = NoValue THEN default ELSE value

NetWorkingCapital(s) ==
    IF s.assets = NoValue \/ s.liabilities = NoValue THEN NoValue ELSE s.assets - s.liabilities

\* debt stands for debt, minority interest and preferred stock.
RawEnterpriseValue(s) == s.marketCap + OrElse(s.debt, 0) - OrElse(s.excessCash, OrElse(s.cash, 0))

EnterpriseValue(s) ==
    IF s.marketCap = NoValue \/ RawEnterpriseValue(s) <= 0 THEN NoValue ELSE RawEnterpriseValue(s)

CapitalBase(s) ==
    IF NetWorkingCapital(s) = NoValue \/ s.netPpe = NoValue THEN NoValue
    ELSE IF NetWorkingCapital(s) + s.netPpe <= 0 THEN NoValue
    ELSE NetWorkingCapital(s) + s.netPpe

HasReturn(s) == s.ebit # NoValue /\ CapitalBase(s) # NoValue
HasYield(s) == s.ebit # NoValue /\ EnterpriseValue(s) # NoValue

\* ebit / base, compared without dividing: both bases are positive.
BetterReturn(s, r) == s.ebit * CapitalBase(r) > r.ebit * CapitalBase(s)
BetterYield(s, r) == s.ebit * EnterpriseValue(r) > r.ebit * EnterpriseValue(s)

\* A missing momentum counts as minus infinity.
BetterMomentum(s, r) == s.momentum # NoValue /\ (r.momentum = NoValue \/ s.momentum > r.momentum)

-----------------------------------------------------------------------------
\* should_exclude, with the exclusions of financials, utilities and ADRs on.
MustExclude(s, config) ==
    \/ MinCap > 0 /\ OrElse(s.marketCap, 0) < MinCap
    \/ s.isAdr
    \/ s.sector \in {"finance", "utility"}
    \/ config.allowed # {} /\ s.sector \notin config.allowed

ReasonFor(s, config) ==
    CASE MustExclude(s, config) -> "excluded"
      [] ~MustExclude(s, config) /\ ~HasReturn(s) -> "no return"
      [] ~MustExclude(s, config) /\ HasReturn(s) /\ ~HasYield(s) -> "no yield"
      [] OTHER -> "ranked"

Screened == {t \in Securities : ReasonFor(mfSnapshot[t], mfConfig) = "ranked"}

\* rank(method="min", ascending=False): one more than the number that are better.
RankBelow(better) == 1 + Cardinality(better)

ReturnRank(t) == RankBelow({u \in Screened : BetterReturn(mfSnapshot[u], mfSnapshot[t])})
YieldRank(t) == RankBelow({u \in Screened : BetterYield(mfSnapshot[u], mfSnapshot[t])})

Composite(t) == ReturnRank(t) + YieldRank(t)

\* A plausible slip: the momentum is ranked from the lowest.
SlipMomentumRank(t) == RankBelow({u \in Screened : BetterMomentum(mfSnapshot[t], mfSnapshot[u])})

MomentumRank(t) == RankBelow({u \in Screened : BetterMomentum(mfSnapshot[u], mfSnapshot[t])})

FinalScore(t) == IF mfConfig.mode = "overlay" THEN Composite(t) + MomentumRank(t) ELSE Composite(t)

\* The half with the best momentum, at least one.
PassesMomentum(t) ==
    mfConfig.mode = "filter" => \/ MomentumRank(t) <= Cardinality(Screened) \div 2
                                \/ MomentumRank(t) <= 1

\* sort_values: final score, composite, rank of the return, rank of the yield, ticker.
SortKey(t) == <<FinalScore(t), Composite(t), ReturnRank(t), YieldRank(t), t>>

KeyBefore(k, l) == \E i \in DOMAIN k : k[i] < l[i] /\ \A j \in 1 .. i - 1 : k[j] = l[j]

Before(t, u) == KeyBefore(SortKey(t), SortKey(u))

\* Every security of S at its place: one more than the number of those before it.
Place(S, t) == RankBelow({u \in S : Before(u, t)})
Ordered(S) == [i \in 1 .. Cardinality(S) |-> CHOOSE t \in S : Place(S, t) = i]

\* head(top_n)
FirstN(seq, n) == SubSeq(seq, 1, IF n < Len(seq) THEN n ELSE Len(seq))

-----------------------------------------------------------------------------
FormulaInit ==
    /\ mfSnapshot \in [Securities -> Figures]
    /\ mfConfig \in [mode : Modes, topN : TopN, allowed : {{}, {"tech"}}]
    /\ mfRanked = <<>>
    /\ mfExcluded = <<>>
    /\ mfDone = FALSE

\* MagicFormulaEngine.screen.  In the filter mode whatever top_n cuts off is reported as
\* filtered as well; in the others it is not reported.
Screen ==
    LET ranked == FirstN(Ordered({t \in Screened : PassesMomentum(t)}), mfConfig.topN)
        filtered == IF mfConfig.mode = "filter" THEN Screened \ ToSet(ranked) ELSE {}
    IN  /\ ~mfDone
        /\ mfDone' = TRUE
        /\ mfRanked' = ranked
        /\ mfExcluded' = [t \in (Securities \ Screened) \union filtered |->
                              IF t \in filtered THEN "momentum" ELSE ReasonFor(mfSnapshot[t], mfConfig)]
        /\ UNCHANGED <<mfSnapshot, mfConfig>>

FormulaSpec == FormulaInit /\ [][Screen]_formulaVars

-----------------------------------------------------------------------------
(* What is stored of the result (ScreenRunService).                         *)

\* to_frame: the ranked securities with their scores ...
Frame == [i \in DOMAIN mfRanked |-> [ticker |-> mfRanked[i], composite |-> Composite(mfRanked[i]),
                                    final |-> FinalScore(mfRanked[i])]]

\* ... and _build_result_rows: their positions.
ResultRows == {[position |-> i, row |-> Frame[i]] : i \in DOMAIN Frame}

Exclusions == {[ticker |-> t, reason |-> mfExcluded[t]] : t \in DOMAIN mfExcluded}

\* build_screen_data_quality_payload, of a run without a fallback and with fewer than 50
\* tickers.
ScreenWarnings(results, excluded) ==
    (IF 2 * excluded >= Cardinality(Securities) THEN {"high_exclusion_ratio"} ELSE {}) \union
    (IF results < mfConfig.topN THEN {"thin_result_set"} ELSE {})

ScreenSummary ==
    LET results == Len(mfRanked)
        excluded == Cardinality(Exclusions)
    IN  [results |-> results, excluded |-> excluded, resolved |-> Cardinality(Securities),
         warnings |-> ScreenWarnings(results, excluded)]

-----------------------------------------------------------------------------
(* Properties.                                                              *)

FormulaTypeOK ==
    /\ mfSnapshot \in [Securities -> Figures]
    /\ mfDone \in BOOLEAN
    /\ mfRanked \in Seq(Securities)
    /\ DOMAIN mfExcluded \subseteq Securities

\* t is nowhere worse than u and somewhere better, in what this mode orders by.
Dominates(t, u) ==
    LET s == mfSnapshot[t]
        r == mfSnapshot[u]
        better == BetterReturn(s, r) \/ BetterYield(s, r)
    IN  /\ ~BetterReturn(r, s) /\ ~BetterYield(r, s)
        /\ mfConfig.mode # "none" => ~BetterMomentum(r, s)
        /\ better \/ (mfConfig.mode = "overlay" /\ BetterMomentum(s, r))

\* What a screen returns (MagicFormulaEngine.screen: ranks with ties, a sum, a filter and
\* a cut): a security that is in no respect worse than a listed one and better in some is
\* listed before it, the stored rows ascend in their scores, nothing is listed twice or both
\* listed and excluded, what is missing was cut off by a full list, and a summary that
\* warns of a short list accounts for every ticker.
RankedOnMerit ==
    mfDone =>
        /\ \A i \in DOMAIN mfRanked : \A t \in Screened :
               Dominates(t, mfRanked[i]) => \E j \in 1 .. i - 1 : mfRanked[j] = t
        /\ \A q, r \in ResultRows : r.position = q.position + 1 =>
               \/ q.row.final < r.row.final
               \/ q.row.final = r.row.final /\ q.row.composite <= r.row.composite
        /\ Cardinality(ToSet(mfRanked)) = Len(mfRanked)
        /\ ToSet(mfRanked) \intersect DOMAIN mfExcluded = {}
        /\ ToSet(mfRanked) \union DOMAIN mfExcluded # Securities => Len(mfRanked) = mfConfig.topN
        /\ LET summary == ScreenSummary
           IN  "thin_result_set" \in summary.warnings =>
                   summary.results + summary.excluded = summary.resolved

=============================================================================
