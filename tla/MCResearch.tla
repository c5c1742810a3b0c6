----------------------------- MODULE MCResearch -----------------------------
(***************************************************************************)
(* What the screens and backtests compute and where their data comes from,  *)
(* five components that share no state: a behaviour is one of any of them.  *)
(***************************************************************************)
EXTENDS MagicFormula, Rebalance, RateLimiter, Snapshots, BacktestRun, TLC

CONSTANT Profiles   \* numbers of the profiles a security may have, of AllProfiles

VARIABLE part       \* the component of this behaviour

parts == <<formulaVars, rebalanceVars, limiterVars, fetchVars, backtestVars>>

Plain == [sector |-> "tech", isAdr |-> FALSE, ebit |-> 2, netPpe |-> 1, assets |-> 2, liabilities |-> 1,
          marketCap |-> 3, debt |-> NoValue, excessCash |-> NoValue, cash |-> NoValue, momentum |-> 1]

\* Ties and differences in every figure the ranks use, each reason to be excluded, and
\* figures that are missing.
AllProfiles ==
    <<Plain,
      [Plain EXCEPT !.marketCap = 2, !.momentum = NoValue],
      [Plain EXCEPT !.assets = 1],
      [Plain EXCEPT !.sector = "energy", !.marketCap = 2, !.cash = 1, !.momentum = 0],
      [Plain EXCEPT !.ebit = 1, !.momentum = 2],
      [Plain EXCEPT !.sector = "utility"],
      [Plain EXCEPT !.netPpe = NoValue],
      [Plain EXCEPT !.debt = 0, !.excessCash = 3],
      [Plain EXCEPT !.ebit = -1, !.debt = 2],
      [Plain EXCEPT !.marketCap = 1],
      [Plain EXCEPT !.isAdr = TRUE]>>

Chosen == {AllProfiles[n] : n \in Profiles}

\* The processes that fetch are told apart by nothing but their names.
ResearchSymmetry == Permutations(FetchJobs)

-----------------------------------------------------------------------------
ResearchInit ==
    /\ part \in {"formula", "rebalance", "limiter", "snapshots", "backtest"}
    /\ FormulaInit
    /\ part # "formula" => /\ \A t \in Securities : mfSnapshot[t] = Plain
                           /\ mfConfig = [mode |-> "none", topN |-> 2, allowed |-> {}]
    /\ RebalanceInit /\ LimiterInit
    /\ FetchInit
    /\ part # "snapshots" => \A j \in FetchJobs : ~snJob[j].use /\ snJob[j].provider = "yahoo"
    /\ BacktestInit
    /\ part # "backtest" => btAsked = [provider |-> DefaultProvider, fallback |-> NoProvider]

FormulaPart ==
    /\ part = "formula" /\ Screen
    /\ UNCHANGED <<part, rebalanceVars, limiterVars, fetchVars, backtestVars>>

RebalancePart ==
    /\ part = "rebalance" /\ RebalanceNext
    /\ UNCHANGED <<part, formulaVars, limiterVars, fetchVars, backtestVars>>

LimiterPart ==
    /\ part = "limiter" /\ LimiterNext
    /\ UNCHANGED <<part, formulaVars, rebalanceVars, fetchVars, backtestVars>>

FetchPart ==
    /\ part = "snapshots" /\ FetchNext
    /\ UNCHANGED <<part, formulaVars, rebalanceVars, limiterVars, backtestVars>>

BacktestPart ==
    /\ part = "backtest" /\ BacktestNext
    /\ UNCHANGED <<part, formulaVars, rebalanceVars, limiterVars, fetchVars>>

ResearchNext == FormulaPart \/ RebalancePart \/ LimiterPart \/ FetchPart \/ BacktestPart

ResearchSpec == ResearchInit /\ [][ResearchNext]_<<part, parts>>

\* The variables of the five components stay within their types.
ResearchTypeOK == FormulaTypeOK /\ RebalanceTypeOK /\ LimiterTypeOK /\ FetchTypeOK /\ BacktestTypeOK

=============================================================================
