--------------------------- MODULE Research_proofs ---------------------------
(*****************************************************************************)
(* The ranking of a screen is on merit, for any securities and figures       *)
(* (MagicFormula); the books of a simulation balance, for any tickers, prices*)
(* and rankings (Rebalance); no window sees too many calls of a provider, for*)
(* any threads (RateLimiter); no job loses a snapshot but to a file that two *)
(* were writing, nor serves an old one (Snapshots); the run of a backtest    *)
(* shows the work of one attempt (BacktestRun), for any number of processes  *)
(* and attempts; and all five keep their types (MCResearch).                 *)
(*****************************************************************************)
EXTENDS MCResearch, FiniteSetTheorems, SequenceTheorems, WellFoundedInduction, TLAPS

-----------------------------------------------------------------------------
(* A set of numbers has a least element.                                      *)

LEMMA NatLess == IsWellFoundedOn({p \in Nat \X Nat : p[1] < p[2]}, Nat)
BY NatLessThanWellFounded DEF OpToRel

LEMMA LeastElement ==
    ASSUME NEW S \in SUBSET Nat, S # {}
    PROVE  \E m \in S : \A j \in S : m <= j
<1> DEFINE Less == {p \in Nat \X Nat : p[1] < p[2]}
<1>1. \E m \in S : \A j \in S : <<j, m>> \notin Less
  <2> HIDE DEF Less
  <2>1. IsWellFoundedOn(Less, Nat)
    BY NatLess DEF Less
  <2>2. QED
    BY <2>1, WFMin
<1>2. PICK m \in S : \A j \in S : <<j, m>> \notin Less
  BY <1>1
<1>3. ASSUME NEW j \in S
      PROVE  m <= j
  <2>1. ~(j < m)
    BY <1>2, <1>3
  <2>2. j \in Nat /\ m \in Nat
    OBVIOUS
  <2>3. QED
    BY <2>1, <2>2
<1>4. QED
  BY <1>3

-----------------------------------------------------------------------------
(* The ranking (MagicFormula).                                               *)

LEMMA TimesKeeps ==
    ASSUME NEW x \in Int, NEW y \in Int, NEW z \in Nat \ {0}
    PROVE  /\ x <= y => x * z <= y * z
           /\ x < y => x * z < y * z
OBVIOUS

\* Fractions with positive denominators: what is above one is above all that is not above
\* that one.
LEMMA FractionsOrdered ==
    ASSUME NEW a \in Int, NEW c \in Int, NEW e \in Int,
           NEW b \in Nat \ {0}, NEW d \in Nat \ {0}, NEW f \in Nat \ {0},
           a * d > c * b, ~(e * d > c * f)
    PROVE  a * f > e * b
<1>1. PICK ad \in Int, cb \in Int, ed \in Int, cf \in Int, af \in Int, eb \in Int :
           ad = a * d /\ cb = c * b /\ ed = e * d /\ cf = c * f /\ af = a * f /\ eb = e * b
  OBVIOUS
<1>2. cb * f < ad * f /\ ed * b <= cf * b
  BY <1>1, TimesKeeps
<1>3. af * d = ad * f /\ eb * d = ed * b /\ cf * b = cb * f
  BY <1>1
<1>4. eb * d < af * d
  <2>1. eb * d \in Int /\ af * d \in Int /\ cb * f \in Int
    BY <1>1
  <2>2. QED
    BY <1>2, <1>3, <2>1
<1>5. ~(af <= eb)
  BY <1>1, <1>4, TimesKeeps
<1>6. QED
  BY <1>1, <1>5

LEMMA SubsetCounts ==
    ASSUME NEW A, NEW B, IsFiniteSet(B), A \subseteq B
    PROVE  /\ Cardinality(A) \in Nat /\ Cardinality(B) \in Nat /\ IsFiniteSet(A)
           /\ Cardinality(A) <= Cardinality(B)
           /\ A # B => Cardinality(A) < Cardinality(B)
<1>1. IsFiniteSet(A) /\ Cardinality(A) <= Cardinality(B) /\ (Cardinality(A) = Cardinality(B) => A = B)
  BY FS_Subset
<1>2. Cardinality(A) \in Nat /\ Cardinality(B) \in Nat
  BY <1>1, FS_CardinalityType
<1>3. QED
  BY <1>1, <1>2

LEMMA FiguresTyped ==
    ASSUME NEW s \in Figure, HasReturn(s), HasYield(s)
    PROVE  s.ebit \in Int /\ CapitalBase(s) \in Nat \ {0} /\ EnterpriseValue(s) \in Nat \ {0}
<1>1. /\ s.ebit \in Int \union {NoValue} /\ s.netPpe \in Int \union {NoValue}
      /\ s.assets \in Int \union {NoValue} /\ s.liabilities \in Int \union {NoValue}
      /\ s.marketCap \in Int \union {NoValue} /\ s.debt \in Int \union {NoValue}
      /\ s.excessCash \in Int \union {NoValue} /\ s.cash \in Int \union {NoValue}
  BY DEF Figure
<1>2. NetWorkingCapital(s) \in Int \union {NoValue}
  BY <1>1 DEF NetWorkingCapital
<1>3. CapitalBase(s) \in Nat \ {0}
  BY <1>1, <1>2 DEF HasReturn, CapitalBase
<1>4. OrElse(s.debt, 0) \in Int /\ OrElse(s.excessCash, OrElse(s.cash, 0)) \in Int
  BY <1>1 DEF OrElse
<1>5. s.marketCap \in Int => RawEnterpriseValue(s) \in Int
  BY <1>4 DEF RawEnterpriseValue
<1>6. EnterpriseValue(s) \in Nat \ {0}
  BY <1>1, <1>5 DEF HasYield, EnterpriseValue
<1>7. QED
  BY <1>1, <1>3, <1>6 DEF HasReturn

\* Whose figures rank: a security that is screened.
FormulaTyped == mfSnapshot \in [Securities -> Figure] /\ mfConfig.topN \in Nat \ {0}

LEMMA ScreenedTyped ==
    ASSUME FormulaTyped
    PROVE  /\ Screened \subseteq Securities /\ IsFiniteSet(Screened) /\ Screened \subseteq Nat
           /\ \A t \in Screened :
                  LET s == mfSnapshot[t]
                  IN  /\ s.ebit \in Int /\ CapitalBase(s) \in Nat \ {0} /\ EnterpriseValue(s) \in Nat \ {0}
                      /\ s.momentum \in Int \union {NoValue}
<1>1. Screened \subseteq Securities /\ IsFiniteSet(Screened) /\ Screened \subseteq Nat
  BY FormulaAssumption, FS_Subset DEF Screened
<1>2. ASSUME NEW t \in Screened
      PROVE  HasReturn(mfSnapshot[t]) /\ HasYield(mfSnapshot[t]) /\ mfSnapshot[t] \in Figure
  BY <1>1, <1>2 DEF Screened, ReasonFor, FormulaTyped
<1>3. \A s \in Figure : s.momentum \in Int \union {NoValue}
  BY DEF Figure
<1>4. QED
  BY <1>1, <1>2, <1>3, FiguresTyped

\* Each of the three orders: nobody is better than itself, and who is better than one is
\* better than everyone that is not better than that one.
LEMMA BetterOrders ==
    ASSUME FormulaTyped, NEW t \in Screened, NEW u \in Screened, NEW v \in Screened
    PROVE  LET x == mfSnapshot[t]
               y == mfSnapshot[u]
               z == mfSnapshot[v]
           IN  /\ ~BetterReturn(x, x) /\ ~BetterYield(x, x) /\ ~BetterMomentum(x, x)
               /\ BetterReturn(z, x) /\ ~BetterReturn(y, x) => BetterReturn(z, y)
               /\ BetterYield(z, x) /\ ~BetterYield(y, x) => BetterYield(z, y)
               /\ BetterMomentum(z, x) /\ ~BetterMomentum(y, x) => BetterMomentum(z, y)
<1>1. PICK x, y, z : x = mfSnapshot[t] /\ y = mfSnapshot[u] /\ z = mfSnapshot[v]
  OBVIOUS
<1>2. \A s \in {x, y, z} :
          /\ s.ebit \in Int /\ CapitalBase(s) \in Nat \ {0} /\ EnterpriseValue(s) \in Nat \ {0}
          /\ s.momentum \in Int \union {NoValue}
  BY <1>1, ScreenedTyped
<1>3. ~BetterReturn(x, x) /\ ~BetterYield(x, x)
  <2>1. x.ebit * CapitalBase(x) \in Int /\ x.ebit * EnterpriseValue(x) \in Int
    BY <1>2
  <2>2. QED
    BY <2>1 DEF BetterReturn, BetterYield
<1>4. ~BetterMomentum(x, x)
  BY <1>2 DEF BetterMomentum
<1>5. BetterReturn(z, x) /\ ~BetterReturn(y, x) => BetterReturn(z, y)
  BY <1>2, FractionsOrdered DEF BetterReturn
<1>6. BetterYield(z, x) /\ ~BetterYield(y, x) => BetterYield(z, y)
  BY <1>2, FractionsOrdered DEF BetterYield
<1>7. BetterMomentum(z, x) /\ ~BetterMomentum(y, x) => BetterMomentum(z, y)
  BY <1>2, FormulaAssumption DEF BetterMomentum
<1>8. QED
  BY <1>1, <1>3, <1>4, <1>5, <1>6, <1>7

LEMMA RanksTyped ==
    ASSUME FormulaTyped
    PROVE  \A t : /\ ReturnRank(t) \in Nat /\ YieldRank(t) \in Nat /\ MomentumRank(t) \in Nat
                  /\ Composite(t) \in Nat /\ FinalScore(t) \in Nat
<1>1. \A t : ReturnRank(t) \in Nat /\ YieldRank(t) \in Nat /\ MomentumRank(t) \in Nat
  <2> TAKE t
  <2> DEFINE A == {u \in Screened : BetterReturn(mfSnapshot[u], mfSnapshot[t])}
             B == {u \in Screened : BetterYield(mfSnapshot[u], mfSnapshot[t])}
             C == {u \in Screened : BetterMomentum(mfSnapshot[u], mfSnapshot[t])}
  <2>1. Cardinality(A) \in Nat /\ Cardinality(B) \in Nat /\ Cardinality(C) \in Nat
    BY ScreenedTyped, FS_Subset, FS_CardinalityType
  <2>2. ReturnRank(t) = 1 + Cardinality(A) /\ YieldRank(t) = 1 + Cardinality(B) /\ MomentumRank(t) = 1 + Cardinality(C)
    BY DEF ReturnRank, YieldRank, MomentumRank, RankBelow
  <2> HIDE DEF A, B, C
  <2>3. QED
    BY <2>1, <2>2
<1>2. QED
  BY <1>1 DEF Composite, FinalScore

\* What is not worse in a figure has no higher rank by it, and what is better a lower one.
LEMMA RanksFollow ==
    ASSUME FormulaTyped, NEW t \in Screened, NEW u \in Screened
    PROVE  LET s == mfSnapshot[t]
               r == mfSnapshot[u]
           IN  /\ ~BetterReturn(r, s) => /\ ReturnRank(t) <= ReturnRank(u)
                                         /\ BetterReturn(s, r) => ReturnRank(t) < ReturnRank(u)
               /\ ~BetterYield(r, s) => /\ YieldRank(t) <= YieldRank(u)
                                        /\ BetterYield(s, r) => YieldRank(t) < YieldRank(u)
               /\ ~BetterMomentum(r, s) => /\ MomentumRank(t) <= MomentumRank(u)
                                           /\ BetterMomentum(s, r) => MomentumRank(t) < MomentumRank(u)
<1> DEFINE R(x) == {v \in Screened : BetterReturn(mfSnapshot[v], mfSnapshot[x])}
           Y(x) == {v \in Screened : BetterYield(mfSnapshot[v], mfSnapshot[x])}
           M(x) == {v \in Screened : BetterMomentum(mfSnapshot[v], mfSnapshot[x])}
<1>1. /\ ~BetterReturn(mfSnapshot[u], mfSnapshot[t]) => R(t) \subseteq R(u)
      /\ ~BetterYield(mfSnapshot[u], mfSnapshot[t]) => Y(t) \subseteq Y(u)
      /\ ~BetterMomentum(mfSnapshot[u], mfSnapshot[t]) => M(t) \subseteq M(u)
  BY BetterOrders
<1>2. /\ BetterReturn(mfSnapshot[t], mfSnapshot[u]) => R(t) # R(u)
      /\ BetterYield(mfSnapshot[t], mfSnapshot[u]) => Y(t) # Y(u)
      /\ BetterMomentum(mfSnapshot[t], mfSnapshot[u]) => M(t) # M(u)
  BY BetterOrders
<1>3. IsFiniteSet(R(u)) /\ IsFiniteSet(Y(u)) /\ IsFiniteSet(M(u))
  BY ScreenedTyped, FS_Subset
<1>4. \A x : /\ ReturnRank(x) = 1 + Cardinality(R(x)) /\ YieldRank(x) = 1 + Cardinality(Y(x))
             /\ MomentumRank(x) = 1 + Cardinality(M(x))
  BY DEF ReturnRank, YieldRank, MomentumRank, RankBelow
<1> HIDE DEF R, Y, M
<1>5. ~BetterReturn(mfSnapshot[u], mfSnapshot[t]) =>
          /\ ReturnRank(t) <= ReturnRank(u)
          /\ BetterReturn(mfSnapshot[t], mfSnapshot[u]) => ReturnRank(t) < ReturnRank(u)
  BY <1>1, <1>2, <1>3, <1>4, SubsetCounts
<1>6. ~BetterYield(mfSnapshot[u], mfSnapshot[t]) =>
          /\ YieldRank(t) <= YieldRank(u)
          /\ BetterYield(mfSnapshot[t], mfSnapshot[u]) => YieldRank(t) < YieldRank(u)
  BY <1>1, <1>2, <1>3, <1>4, SubsetCounts
<1>7. ~BetterMomentum(mfSnapshot[u], mfSnapshot[t]) =>
          /\ MomentumRank(t) <= MomentumRank(u)
          /\ BetterMomentum(mfSnapshot[t], mfSnapshot[u]) => MomentumRank(t) < MomentumRank(u)
  BY <1>1, <1>2, <1>3, <1>4, SubsetCounts
<1>8. QED
  BY <1>5, <1>6, <1>7

\* Who dominates another has the lower score, and passes where the other does.
LEMMA DominanceScores ==
    ASSUME FormulaTyped, NEW t \in Screened, NEW u \in Screened, Dominates(t, u)
    PROVE  FinalScore(t) < FinalScore(u) /\ (PassesMomentum(u) => PassesMomentum(t))
<1> DEFINE s == mfSnapshot[t]
           r == mfSnapshot[u]
<1>1. /\ ~BetterReturn(r, s) /\ ~BetterYield(r, s)
      /\ mfConfig.mode # "none" => ~BetterMomentum(r, s)
      /\ \/ BetterReturn(s, r) \/ BetterYield(s, r)
         \/ mfConfig.mode = "overlay" /\ BetterMomentum(s, r)
  BY DEF Dominates
<1>2. /\ ReturnRank(t) <= ReturnRank(u) /\ (BetterReturn(s, r) => ReturnRank(t) < ReturnRank(u))
      /\ YieldRank(t) <= YieldRank(u) /\ (BetterYield(s, r) => YieldRank(t) < YieldRank(u))
      /\ mfConfig.mode # "none" =>
             /\ MomentumRank(t) <= MomentumRank(u)
             /\ BetterMomentum(s, r) => MomentumRank(t) < MomentumRank(u)
  BY <1>1, RanksFollow
<1>3. /\ ReturnRank(t) \in Nat /\ YieldRank(t) \in Nat /\ MomentumRank(t) \in Nat
      /\ ReturnRank(u) \in Nat /\ YieldRank(u) \in Nat /\ MomentumRank(u) \in Nat
  BY RanksTyped
<1>4. Composite(t) <= Composite(u) /\ (BetterReturn(s, r) \/ BetterYield(s, r) => Composite(t) < Composite(u))
  BY <1>2, <1>3 DEF Composite
<1>5. Composite(t) \in Nat /\ Composite(u) \in Nat
  BY RanksTyped
<1>6. FinalScore(t) < FinalScore(u)
  <2>1. CASE mfConfig.mode = "overlay"
    BY <1>1, <1>2, <1>3, <1>4, <1>5, <2>1 DEF FinalScore
  <2>2. CASE mfConfig.mode # "overlay"
    BY <1>1, <1>4, <1>5, <2>2 DEF FinalScore
  <2>3. QED
    BY <2>1, <2>2
<1>7. PassesMomentum(u) => PassesMomentum(t)
  <2>1. PICK half : half = Cardinality(Screened) \div 2
    OBVIOUS
  <2>2. half \in Int
    BY <2>1, ScreenedTyped, FS_CardinalityType
  <2>3. QED
    BY <1>2, <1>3, <2>1, <2>2 DEF PassesMomentum
<1>8. QED
  BY <1>6, <1>7

\* The order of the keys, spelled out.
LEMMA BeforeMeans ==
    ASSUME NEW t, NEW u
    PROVE  Before(t, u) <=>
               \/ FinalScore(t) < FinalScore(u)
               \/ /\ FinalScore(t) = FinalScore(u)
                  /\ \/ Composite(t) < Composite(u)
                     \/ /\ Composite(t) = Composite(u)
                        /\ \/ ReturnRank(t) < ReturnRank(u)
                           \/ /\ ReturnRank(t) = ReturnRank(u)
                              /\ \/ YieldRank(t) < YieldRank(u)
                                 \/ YieldRank(t) = YieldRank(u) /\ t < u
<1> DEFINE k == SortKey(t)
           l == SortKey(u)
<1>1. /\ DOMAIN k = 1 .. 5
      /\ k[1] = FinalScore(t) /\ k[2] = Composite(t) /\ k[3] = ReturnRank(t) /\ k[4] = YieldRank(t) /\ k[5] = t
      /\ l[1] = FinalScore(u) /\ l[2] = Composite(u) /\ l[3] = ReturnRank(u) /\ l[4] = YieldRank(u) /\ l[5] = u
  BY DEF SortKey
<1> HIDE DEF k, l
<1>2. Before(t, u) <=> \E i \in 1 .. 5 : k[i] < l[i] /\ \A j \in 1 .. i - 1 : k[j] = l[j]
  BY <1>1 DEF Before, KeyBefore, k, l
<1>3. (\E i \in 1 .. 5 : k[i] < l[i] /\ \A j \in 1 .. i - 1 : k[j] = l[j]) <=>
          \/ k[1] < l[1]
          \/ k[1] = l[1] /\ k[2] < l[2]
          \/ k[1] = l[1] /\ k[2] = l[2] /\ k[3] < l[3]
          \/ k[1] = l[1] /\ k[2] = l[2] /\ k[3] = l[3] /\ k[4] < l[4]
          \/ k[1] = l[1] /\ k[2] = l[2] /\ k[3] = l[3] /\ k[4] = l[4] /\ k[5] < l[5]
  OBVIOUS
<1>4. QED
  BY <1>1, <1>2, <1>3

\* It orders the securities strictly, and all of them.
LEMMA BeforeOrders ==
    ASSUME FormulaTyped
    PROVE  /\ \A t \in Nat : ~Before(t, t)
           /\ \A t, u, v \in Nat : Before(t, u) /\ Before(u, v) => Before(t, v)
           /\ \A t, u \in Nat : t = u \/ Before(t, u) \/ Before(u, t)
BY BeforeMeans, RanksTyped

\* The places of some securities are the numbers up to how many they are, so there is one
\* for each place, and who comes before another has the lower one.
LEMMA PlacesTaken ==
    ASSUME FormulaTyped, NEW S \in SUBSET Nat, IsFiniteSet(S)
    PROVE  /\ Cardinality(S) \in Nat
           /\ \A t \in S : Place(S, t) \in 1 .. Cardinality(S)
           /\ \A t, u \in S : Before(t, u) => Place(S, t) < Place(S, u)
           /\ \A i \in 1 .. Cardinality(S) : \E t \in S : Place(S, t) = i
<1> DEFINE B(t) == {u \in S : Before(u, t)}
           place == [t \in S |-> Place(S, t)]
           n == Cardinality(S)
<1>1. \A t \in S : Place(S, t) = 1 + Cardinality(B(t))
  BY DEF Place, RankBelow
<1>2. \A t \in S : B(t) \subseteq S \ {t} /\ B(t) \subseteq S /\ IsFiniteSet(B(t))
  BY BeforeOrders, FS_Subset
<1>3. n \in Nat
  BY FS_CardinalityType
<1>4. ASSUME NEW t \in S
      PROVE  Place(S, t) \in 1 .. n
  <2>1. t \in S /\ t \notin B(t)
    BY <1>2
  <2>2. Cardinality(B(t)) < Cardinality(S) /\ Cardinality(B(t)) \in Nat
    BY <1>2, <2>1, SubsetCounts
  <2> HIDE DEF B
  <2>3. QED
    BY <1>1, <1>3, <2>2
<1>5. ASSUME NEW t \in S, NEW u \in S, Before(t, u)
      PROVE  Place(S, t) < Place(S, u)
  <2>1. B(t) \subseteq B(u)
    BY <1>5, BeforeOrders
  <2>2. t \in B(u) /\ t \notin B(t)
    BY <1>2, <1>5
  <2>3. Cardinality(B(t)) < Cardinality(B(u)) /\ Cardinality(B(t)) \in Nat /\ Cardinality(B(u)) \in Nat
    BY <1>2, <2>1, <2>2, SubsetCounts
  <2> HIDE DEF B
  <2>4. QED
    BY <1>1, <2>3
<1>6. place \in Injection(S, 1 .. n)
  <2>1. place \in [S -> 1 .. n]
    BY <1>4
  <2>2. ASSUME NEW t \in S, NEW u \in S, t # u
        PROVE  place[t] # place[u]
    <3>1. Before(t, u) \/ Before(u, t)
      BY <2>2, BeforeOrders
    <3>2. Place(S, t) \in Nat /\ Place(S, u) \in Nat
      BY <1>4
    <3>3. QED
      BY <1>5, <3>1, <3>2
  <2>3. QED
    BY <2>1, <2>2 DEF Injection, IsInjective
<1>7. IsFiniteSet(1 .. n) /\ Cardinality(1 .. n) = n
  BY <1>3, FS_Interval
<1>8. place \in Surjection(S, 1 .. n)
  <2> HIDE DEF place
  <2>1. QED
    BY <1>6, <1>7, FS_Injection
<1>9. \A i \in 1 .. n : \E t \in S : Place(S, t) = i
  BY <1>8 DEF Surjection
<1>10. QED
  BY <1>3, <1>4, <1>5, <1>9

\* The list has each security at its place, in the order of the keys.
LEMMA OrderedByKey ==
    ASSUME FormulaTyped, NEW S \in SUBSET Nat, IsFiniteSet(S)
    PROVE  /\ Ordered(S) \in [1 .. Cardinality(S) -> S] /\ Cardinality(S) \in Nat
           /\ \A t \in S : Place(S, t) \in 1 .. Cardinality(S) /\ Ordered(S)[Place(S, t)] = t
           /\ \A i, j \in 1 .. Cardinality(S) : i < j => Before(Ordered(S)[i], Ordered(S)[j])
<1> DEFINE f == Ordered(S)
           n == Cardinality(S)
<1>1. \A i \in 1 .. n : f[i] \in S /\ Place(S, f[i]) = i
  BY PlacesTaken DEF Ordered
<1>2. f \in [1 .. n -> S]
  BY <1>1 DEF Ordered
<1>3. ASSUME NEW t \in S, NEW u \in S, Place(S, t) = Place(S, u)
      PROVE  t = u
  <2>1. Place(S, t) \in 1 .. n /\ Place(S, u) \in 1 .. n /\ n \in Nat
    BY PlacesTaken
  <2>2. ~(Place(S, t) < Place(S, u)) /\ ~(Place(S, u) < Place(S, t))
    BY <1>3, <2>1
  <2>3. QED
    BY <2>2, PlacesTaken, BeforeOrders
<1> HIDE DEF f
<1>4. \A t \in S : Place(S, t) \in 1 .. n /\ f[Place(S, t)] = t
  BY <1>1, <1>3, PlacesTaken
<1>5. ASSUME NEW i \in 1 .. n, NEW j \in 1 .. n, i < j
      PROVE  Before(f[i], f[j])
  <2>1. f[i] \in S /\ f[j] \in S /\ Place(S, f[i]) = i /\ Place(S, f[j]) = j /\ n \in Nat
    BY <1>1, PlacesTaken
  <2>2. ~(j < i) /\ i # j
    BY <1>5, <2>1
  <2>3. ~Before(f[j], f[i]) /\ f[i] # f[j]
    BY <2>1, <2>2, PlacesTaken
  <2>4. QED
    BY <2>1, <2>3, BeforeOrders
<1>6. QED
  BY <1>2, <1>4, <1>5, PlacesTaken DEF f

\* What a screen leaves: the first of the passing ones in their order, and the others.
Passing == {t \in Screened : PassesMomentum(t)}

Shown ==
    mfDone => /\ mfRanked = FirstN(Ordered(Passing), mfConfig.topN)
              /\ DOMAIN mfExcluded = (Securities \ Screened) \union
                     (IF mfConfig.mode = "filter" THEN Screened \ ToSet(mfRanked) ELSE {})

FormulaInv == FormulaTyped /\ FormulaTypeOK /\ Shown

\* The scores hang on the figures and the configuration alone.
LEMMA ScoresStay ==
    ASSUME UNCHANGED <<mfSnapshot, mfConfig>>
    PROVE  /\ Screened' = Screened /\ Passing' = Passing
           /\ \A S : Ordered(S)' = Ordered(S)
<1>1. Screened' = Screened
  BY DEF Screened
<1>2. ASSUME NEW t
      PROVE  /\ ReturnRank(t)' = ReturnRank(t) /\ YieldRank(t)' = YieldRank(t)
             /\ MomentumRank(t)' = MomentumRank(t)
  BY <1>1 DEF ReturnRank, YieldRank, MomentumRank
<1>3. \A t : Composite(t)' = Composite(t) /\ FinalScore(t)' = FinalScore(t)
  BY <1>2 DEF Composite, FinalScore
<1>4. \A t : PassesMomentum(t)' <=> PassesMomentum(t)
  BY <1>1, <1>2 DEF PassesMomentum
<1>5. \A t : SortKey(t)' = SortKey(t)
  BY <1>2, <1>3 DEF SortKey
<1>6. \A t, u : Before(t, u)' <=> Before(t, u)
  BY <1>5 DEF Before
<1>7. ASSUME NEW S, NEW t
      PROVE  Place(S, t)' = Place(S, t)
  BY <1>6 DEF Place
<1>8. ASSUME NEW S
      PROVE  Ordered(S)' = Ordered(S)
  BY <1>7 DEF Ordered
<1>9. Passing' = Passing
  BY <1>1, <1>4 DEF Passing
<1>10. QED
  BY <1>1, <1>8, <1>9

LEMMA FormulaStep ==
    ASSUME FormulaInv, [Screen]_formulaVars
    PROVE  FormulaInv'
<1>1. UNCHANGED <<mfSnapshot, mfConfig>>
  BY DEF Screen, formulaVars
<1>2. FormulaTyped' /\ mfSnapshot' \in [Securities -> Figures]
  BY <1>1 DEF FormulaInv, FormulaTyped, FormulaTypeOK
<1>3. CASE UNCHANGED formulaVars
  <2>1. FormulaTypeOK'
    BY <1>3 DEF FormulaInv, FormulaTypeOK, formulaVars
  <2>2. Screened' = Screened /\ Passing' = Passing /\ \A S : Ordered(S)' = Ordered(S)
    BY <1>1, ScoresStay
  <2>3. PICK S : S = Passing
    OBVIOUS
  <2>4. Ordered(Passing)' = Ordered(Passing)
    BY <2>2, <2>3
  <2>5. Shown'
    BY <1>3, <2>2, <2>4 DEF FormulaInv, Shown, formulaVars
  <2>6. QED
    BY <1>2, <2>1, <2>5 DEF FormulaInv
<1>4. CASE Screen
  <2>1. Screened' = Screened /\ Passing' = Passing /\ \A S : Ordered(S)' = Ordered(S)
    BY <1>1, ScoresStay
  <2>2. PICK S : S = Passing
    OBVIOUS
  <2>3. Ordered(Passing)' = Ordered(Passing)
    BY <2>1, <2>2
  <2>4. PICK filtered : filtered = (IF mfConfig.mode = "filter"
                                    THEN Screened \ ToSet(FirstN(Ordered(Passing), mfConfig.topN)) ELSE {})
    OBVIOUS
  <2>5. /\ mfDone' = TRUE
        /\ mfRanked' = FirstN(Ordered(Passing), mfConfig.topN)
        /\ DOMAIN mfExcluded' = (Securities \ Screened) \union filtered
    BY <1>4, <2>4 DEF Screen, Passing
  <2>6. Shown'
    BY <1>1, <2>1, <2>3, <2>4, <2>5 DEF Shown
  <2>7. FormulaTyped /\ Screened \subseteq Securities
    BY ScreenedTyped DEF FormulaInv
  <2>8. /\ S \in SUBSET Nat /\ IsFiniteSet(S) /\ S \subseteq Securities
        /\ mfConfig.topN \in Nat
    BY <2>2, <2>7, ScreenedTyped, FormulaAssumption, FS_Subset DEF Passing, FormulaTyped
  <2>9. Ordered(S) \in [1 .. Cardinality(S) -> S] /\ Cardinality(S) \in Nat
    BY <2>7, <2>8, OrderedByKey
  <2>10. FormulaTypeOK'
    <3>1. mfRanked' \in Seq(Securities)
      <4>1. Ordered(S) \in [1 .. Cardinality(S) -> Securities]
        BY <2>8, <2>9
      <4>2. QED
        BY <2>2, <2>5, <2>8, <2>9, <4>1 DEF FirstN
    <3>2. DOMAIN mfExcluded' \subseteq Securities
      BY <2>4, <2>5, <2>7
    <3>3. QED
      BY <1>2, <2>5, <3>1, <3>2 DEF FormulaTypeOK
  <2>11. QED
    BY <1>2, <2>6, <2>10 DEF FormulaInv
<1>5. QED
  BY <1>3, <1>4


LEMMA FormulaHolds ==
    FormulaSpec => []FormulaInv
<1>1. ASSUME FormulaInit
      PROVE  FormulaInv
  <2>1. FormulaTyped
    BY <1>1, FormulaAssumption DEF FormulaInit, FormulaTyped
  <2>2. mfRanked \in Seq(Securities) /\ DOMAIN mfExcluded = {}
    BY <1>1 DEF FormulaInit
  <2>3. FormulaTypeOK /\ Shown
    BY <1>1, <2>2 DEF FormulaInit, FormulaTypeOK, Shown
  <2>4. QED
    BY <2>1, <2>3 DEF FormulaInv
<1>2. FormulaInv /\ [Screen]_formulaVars => FormulaInv'
  BY FormulaStep
<1>3. QED
  BY <1>1, <1>2, PTL DEF FormulaSpec

\* The list that a screen leaves, in the words of the order.
LEMMA ListOfScreen ==
    ASSUME FormulaInv, mfDone
    PROVE  /\ Passing \in SUBSET Nat /\ IsFiniteSet(Passing) /\ Passing \subseteq Screened
           /\ Cardinality(Passing) \in Nat /\ mfConfig.topN \in Nat \ {0}
           /\ Len(mfRanked) = (IF mfConfig.topN < Cardinality(Passing) THEN mfConfig.topN ELSE Cardinality(Passing))
           /\ DOMAIN mfRanked = 1 .. Len(mfRanked)
           /\ \A i \in 1 .. Len(mfRanked) : mfRanked[i] \in Passing
           /\ \A i, j \in 1 .. Len(mfRanked) : i < j => Before(mfRanked[i], mfRanked[j])
           /\ \A t \in Passing : \/ \E j \in 1 .. Len(mfRanked) : mfRanked[j] = t
                                 \/ /\ Len(mfRanked) = mfConfig.topN
                                    /\ \A i \in 1 .. Len(mfRanked) : Before(mfRanked[i], t)
<1> DEFINE n == Cardinality(Passing)
           f == Ordered(Passing)
           k == mfConfig.topN
<1>1. FormulaTyped /\ k \in Nat \ {0}
  BY DEF FormulaInv, FormulaTyped
<1>2. Passing \in SUBSET Nat /\ IsFiniteSet(Passing) /\ Passing \subseteq Screened
  BY <1>1, ScreenedTyped, FS_Subset DEF Passing
<1>3. /\ f \in [1 .. n -> Passing] /\ n \in Nat
      /\ \A t \in Passing : Place(Passing, t) \in 1 .. n /\ f[Place(Passing, t)] = t
      /\ \A i, j \in 1 .. n : i < j => Before(f[i], f[j])
  BY <1>1, <1>2, OrderedByKey
<1>4. mfRanked = FirstN(f, k) /\ mfRanked \in Seq(Securities)
  BY DEF FormulaInv, Shown, FormulaTypeOK
<1> HIDE DEF f, n, k
<1>5. Len(mfRanked) = (IF k < n THEN k ELSE n) /\ \A i \in 1 .. Len(mfRanked) : i \in 1 .. n /\ mfRanked[i] = f[i]
  <2>1. /\ Len(FirstN(f, k)) = IF k < n THEN k ELSE n
        /\ \A i \in 1 .. Len(FirstN(f, k)) : i \in 1 .. n /\ FirstN(f, k)[i] = f[i]
    <3>1. k \in Nat /\ n \in Nat /\ f \in [1 .. n -> Passing]
      BY <1>1, <1>3
    <3>2. QED
      BY <3>1 DEF FirstN
  <2>2. QED
    BY <1>4, <2>1
<1>6. DOMAIN mfRanked = 1 .. Len(mfRanked)
  BY <1>4
<1>7. ASSUME NEW t \in Passing, ~ \E j \in 1 .. Len(mfRanked) : mfRanked[j] = t
      PROVE  Len(mfRanked) = k /\ \A i \in 1 .. Len(mfRanked) : Before(mfRanked[i], t)
  <2>1. PICK p \in 1 .. n : f[p] = t
    BY <1>3
  <2>2. ~(p <= Len(mfRanked))
    BY <1>3, <1>5, <1>7, <2>1
  <2>3. Len(mfRanked) = k
    BY <1>1, <1>3, <1>5, <2>1, <2>2
  <2>4. ASSUME NEW i \in 1 .. Len(mfRanked)
        PROVE  Before(mfRanked[i], t)
    <3>1. i < p /\ i \in 1 .. n
      BY <1>1, <1>3, <1>5, <2>1, <2>2, <2>3
    <3>2. QED
      BY <1>3, <1>5, <2>1, <3>1
  <2>5. QED
    BY <2>3, <2>4
<1>8. \A i \in 1 .. Len(mfRanked) : mfRanked[i] \in Passing
  BY <1>3, <1>5
<1>9. \A i, j \in 1 .. Len(mfRanked) : i < j => Before(mfRanked[i], mfRanked[j])
  BY <1>3, <1>5
<1>10. QED
  BY <1>1, <1>2, <1>3, <1>5, <1>6, <1>7, <1>8, <1>9 DEF n, k


\* The list is on merit: each conjunct of RankedOnMerit from the list and its order.
LEMMA ListedOnMerit ==
    ASSUME FormulaInv
    PROVE  RankedOnMerit
<1> SUFFICES ASSUME mfDone
             PROVE  RankedOnMerit
  BY DEF RankedOnMerit
<1> DEFINE n == Len(mfRanked)
           R == ToSet(mfRanked)
           X == DOMAIN mfExcluded
<1>1. /\ Passing \in SUBSET Nat /\ IsFiniteSet(Passing) /\ Passing \subseteq Screened
      /\ Cardinality(Passing) \in Nat /\ mfConfig.topN \in Nat \ {0}
      /\ n = (IF mfConfig.topN < Cardinality(Passing) THEN mfConfig.topN ELSE Cardinality(Passing))
      /\ DOMAIN mfRanked = 1 .. n
      /\ \A i \in 1 .. n : mfRanked[i] \in Passing
      /\ \A i, j \in 1 .. n : i < j => Before(mfRanked[i], mfRanked[j])
      /\ \A t \in Passing : \/ \E j \in 1 .. n : mfRanked[j] = t
                            \/ /\ n = mfConfig.topN
                               /\ \A i \in 1 .. n : Before(mfRanked[i], t)
  BY ListOfScreen
<1>2. FormulaTyped /\ n \in Nat /\ mfRanked \in Seq(Securities)
  BY <1>1 DEF FormulaInv, FormulaTypeOK
<1>3. /\ Screened \subseteq Securities /\ IsFiniteSet(Screened) /\ Screened \subseteq Nat
      /\ IsFiniteSet(Securities)
  BY <1>2, ScreenedTyped, FormulaAssumption
<1>4. X = (Securities \ Screened) \union (IF mfConfig.mode = "filter" THEN Screened \ R ELSE {})
  BY DEF FormulaInv, Shown
<1>5. R = {mfRanked[i] : i \in 1 .. n} /\ R \subseteq Passing
  BY <1>1 DEF ToSet
<1> HIDE DEF n, R, X
<1>6. \A i \in 1 .. n : \A t \in Screened :
          Dominates(t, mfRanked[i]) => \E j \in 1 .. i - 1 : mfRanked[j] = t
  <2> SUFFICES ASSUME NEW i \in 1 .. n, NEW t \in Screened, Dominates(t, mfRanked[i])
               PROVE  \E j \in 1 .. i - 1 : mfRanked[j] = t
    OBVIOUS
  <2>1. mfRanked[i] \in Passing /\ mfRanked[i] \in Screened /\ PassesMomentum(mfRanked[i])
    BY <1>1 DEF Passing
  <2>2. t \in Passing /\ FinalScore(t) < FinalScore(mfRanked[i])
    BY <1>2, <2>1, DominanceScores DEF Passing
  <2>3. FinalScore(t) \in Nat /\ FinalScore(mfRanked[i]) \in Nat
    BY <1>2, RanksTyped
  <2>4. ~Before(mfRanked[i], t) /\ mfRanked[i] # t
    BY <2>2, <2>3, BeforeMeans
  <2>5. PICK j \in 1 .. n : mfRanked[j] = t
    BY <1>1, <2>2, <2>4
  <2>6. j < i
    BY <1>1, <1>2, <2>4, <2>5
  <2>7. QED
    BY <2>5, <2>6
<1>7. \A q, r \in ResultRows : r.position = q.position + 1 =>
          \/ q.row.final < r.row.final
          \/ q.row.final = r.row.final /\ q.row.composite <= r.row.composite
  <2>1. \A q \in ResultRows : /\ q.position \in 1 .. n
                              /\ q.row.final = FinalScore(mfRanked[q.position])
                              /\ q.row.composite = Composite(mfRanked[q.position])
    <3>1. ASSUME NEW q \in ResultRows
          PROVE  \E i \in 1 .. n : q = [position |-> i, row |-> [ticker |-> mfRanked[i],
                                       composite |-> Composite(mfRanked[i]), final |-> FinalScore(mfRanked[i])]]
      BY <1>1 DEF ResultRows, Frame
    <3>2. QED
      BY <3>1
  <2> SUFFICES ASSUME NEW q \in ResultRows, NEW r \in ResultRows, r.position = q.position + 1
               PROVE  \/ q.row.final < r.row.final
                      \/ q.row.final = r.row.final /\ q.row.composite <= r.row.composite
    OBVIOUS
  <2>2. Before(mfRanked[q.position], mfRanked[r.position])
    BY <1>1, <1>2, <2>1
  <2>3. /\ Composite(mfRanked[q.position]) \in Nat /\ Composite(mfRanked[r.position]) \in Nat
        /\ FinalScore(mfRanked[q.position]) \in Nat /\ FinalScore(mfRanked[r.position]) \in Nat
    BY <1>2, RanksTyped
  <2>4. QED
    BY <2>1, <2>2, <2>3, BeforeMeans
<1>8. Cardinality(R) = n /\ IsFiniteSet(R)
  <2>1. mfRanked \in Injection(1 .. n, R) /\ mfRanked \in Surjection(1 .. n, R)
    <3>1. mfRanked \in [1 .. n -> R]
      BY <1>1, <1>2, <1>5
    <3>2. ASSUME NEW i \in 1 .. n, NEW j \in 1 .. n, i # j
          PROVE  mfRanked[i] # mfRanked[j]
      <4>1. Before(mfRanked[i], mfRanked[j]) \/ Before(mfRanked[j], mfRanked[i])
        BY <1>1, <1>2, <3>2
      <4>2. mfRanked[i] \in Nat
        BY <1>1
      <4>3. QED
        BY <1>2, <4>1, <4>2, BeforeOrders
    <3>3. QED
      BY <1>5, <3>1, <3>2 DEF Injection, IsInjective, Surjection
  <2>2. IsFiniteSet(1 .. n) /\ Cardinality(1 .. n) = n
    BY <1>2, FS_Interval
  <2>3. QED
    BY <2>1, <2>2, FS_Surjection
<1>9. R \intersect X = {}
  BY <1>1, <1>4, <1>5
<1>10. R \union X # Securities => n = mfConfig.topN
  <2> SUFFICES ASSUME n # mfConfig.topN
               PROVE  R \union X = Securities
    OBVIOUS
  <2>1. Passing \subseteq R
    BY <1>1, <1>5
  <2>2. mfConfig.mode # "filter" => Passing = Screened
    BY DEF Passing, PassesMomentum
  <2>3. QED
    BY <1>1, <1>3, <1>4, <1>5, <2>1, <2>2
<1>11. Cardinality(Exclusions) = Cardinality(X) /\ IsFiniteSet(X) /\ Cardinality(X) \in Nat
  <2>1. IsFiniteSet(X) /\ Cardinality(X) \in Nat
    BY <1>3, <1>4, FS_Subset, FS_CardinalityType
  <2> DEFINE row == [t \in X |-> [ticker |-> t, reason |-> mfExcluded[t]]]
  <2>2. row \in Injection(X, Exclusions) /\ row \in Surjection(X, Exclusions)
    <3>1. Exclusions = {row[t] : t \in X}
      BY DEF Exclusions, X
    <3>2. \A t \in X : row[t].ticker = t
      OBVIOUS
    <3>3. row \in [X -> Exclusions]
      BY <3>1
    <3> HIDE DEF row
    <3>4. QED
      BY <3>1, <3>2, <3>3 DEF Injection, IsInjective, Surjection
  <2>3. QED
    <3> HIDE DEF row
    <3>1. QED
      BY <2>1, <2>2, FS_Surjection
<1>12. "thin_result_set" \in ScreenSummary.warnings =>
           ScreenSummary.results + ScreenSummary.excluded = ScreenSummary.resolved
  <2>1. /\ ScreenSummary.results = n /\ ScreenSummary.excluded = Cardinality(X)
        /\ ScreenSummary.resolved = Cardinality(Securities)
        /\ ScreenSummary.warnings = ScreenWarnings(n, Cardinality(X))
    BY <1>11 DEF ScreenSummary, n
  <2> SUFFICES ASSUME "thin_result_set" \in ScreenWarnings(n, Cardinality(X))
               PROVE  n + Cardinality(X) = Cardinality(Securities)
    BY <2>1
  <2>2. n < mfConfig.topN
    BY DEF ScreenWarnings
  <2>3. R \union X = Securities
    BY <1>1, <1>2, <1>10, <2>2
  <2>4. Cardinality(R \union X) = Cardinality(R) + Cardinality(X) - Cardinality(R \intersect X)
    BY <1>8, <1>11, FS_Union
  <2>5. QED
    <3>1. Cardinality(R \intersect X) = 0
      BY <1>9, FS_EmptySet
    <3>2. QED
      <4>1. Cardinality(Securities) = n + Cardinality(X) - 0
        BY <1>8, <2>3, <2>4, <3>1
      <4>2. QED
        BY <1>2, <1>11, <4>1
<1>13. QED
  BY <1>1, <1>6, <1>7, <1>8, <1>9, <1>10, <1>12 DEF RankedOnMerit, n, R, X

\* The figures and the configuration stay what they were, the list is of tickers, and what
\* is excluded is one too.
THEOREM ScreensAreTyped == FormulaSpec => []FormulaTypeOK
<1>1. FormulaInv => FormulaTypeOK
  BY DEF FormulaInv
<1>2. QED
  BY <1>1, FormulaHolds, PTL

\* Whatever securities, figures and configuration a screen is given, and whether it has run
\* or not (MagicFormulaEngine.screen): a security that is in no respect worse than a listed
\* one is listed before it, the rows ascend, and the list and the exclusions account for all.
THEOREM ScreensRankOnMerit == FormulaSpec => []RankedOnMerit
<1>1. FormulaInv => RankedOnMerit
  BY ListedOnMerit
<1>2. QED
  BY <1>1, FormulaHolds, PTL

-----------------------------------------------------------------------------
(* The simulation of a backtest (Rebalance).  Counting sums: a market value is *)
(* the number of coins in a purse.                                           *)

\* A value by ticker as a set: one coin for each unit of it.
Coins(value, S) == {c \in S \X Nat : c[2] \in 1 .. value[c[1]]}

\* The coins of one more ticker.
LEMMA OneMore ==
    ASSUME NEW S, NEW value \in [S -> Nat], NEW s \in SUBSET S, NEW x \in s,
           IsFiniteSet(Coins(value, s \ {x}))
    PROVE  /\ IsFiniteSet(Coins(value, s))
           /\ Cardinality(Coins(value, s)) = value[x] + Cardinality(Coins(value, s \ {x}))
<1>1. PICK n \in Nat : n = value[x]
  OBVIOUS
<1>2. PICK mine : mine = {c \in {x} \X Nat : c[2] \in 1 .. n}
  OBVIOUS
<1>3. IsFiniteSet(mine) /\ Cardinality(mine) = n
  <2> DEFINE f == [i \in 1 .. n |-> <<x, i>>]
  <2>1. f \in [1 .. n -> mine]
    BY <1>2
  <2>2. f \in Injection(1 .. n, mine)
    BY <2>1 DEF Injection, IsInjective
  <2>3. \A c \in mine : \E i \in 1 .. n : f[i] = c
    BY <1>2
  <2>4. f \in Bijection(1 .. n, mine)
    BY <2>1, <2>2, <2>3 DEF Bijection, Surjection
  <2>5. ExistsBijection(1 .. n, mine)
    <3> HIDE DEF f
    <3>1. QED
      BY <2>4 DEF ExistsBijection
  <2>6. IsFiniteSet(1 .. n) /\ Cardinality(1 .. n) = n
    BY FS_Interval
  <2>7. QED
    BY <2>5, <2>6, FS_Bijection
<1>4. Coins(value, s) = mine \union Coins(value, s \ {x})
  <2>1. ASSUME NEW c
        PROVE  c \in Coins(value, s) <=> c \in mine \union Coins(value, s \ {x})
    BY <1>1, <1>2 DEF Coins
  <2>2. QED
    BY <2>1
<1>5. mine \intersect Coins(value, s \ {x}) = {}
  BY <1>2 DEF Coins
<1>6. QED
  <2>1. /\ IsFiniteSet(mine \union Coins(value, s \ {x}))
        /\ Cardinality(mine \union Coins(value, s \ {x}))
               = Cardinality(mine) + Cardinality(Coins(value, s \ {x}))
                     - Cardinality(mine \intersect Coins(value, s \ {x}))
    BY <1>3, FS_Union
  <2>2. Cardinality(mine \intersect Coins(value, s \ {x})) = 0
    BY <1>5, FS_EmptySet
  <2>3. Cardinality(Coins(value, s \ {x})) \in Nat
    BY FS_CardinalityType
  <2>4. QED
    BY <1>1, <1>3, <1>4, <2>1, <2>2, <2>3

\* No set of subsets of a finite set but the empty one lacks a smallest member.
LEMMA SmallestSubset ==
    ASSUME NEW S, IsFiniteSet(S), NEW Bad \in SUBSET (SUBSET S), Bad # {}
    PROVE  \E s \in Bad : \A x \in s : s \ {x} \notin Bad
<1> DEFINE Sizes == {Cardinality(s) : s \in Bad}
<1>1. \A s \in SUBSET S : IsFiniteSet(s) /\ Cardinality(s) \in Nat
  BY FS_Subset, FS_CardinalityType
<1>2. Sizes \in SUBSET Nat /\ Sizes # {}
  BY <1>1
<1>3. PICK n \in Sizes : \A j \in Sizes : n <= j
  <2> HIDE DEF Sizes
  <2>1. QED
    BY <1>2, LeastElement
<1>4. PICK s \in Bad : n = Cardinality(s)
  BY <1>3
<1>5. ASSUME NEW x \in s, s \ {x} \in Bad
      PROVE  FALSE
  <2>1. Cardinality(s \ {x}) = Cardinality(s) - 1
    BY <1>1, FS_RemoveElement
  <2>2. n <= Cardinality(s \ {x})
    BY <1>3, <1>5
  <2>3. Cardinality(s) \in Nat
    BY <1>1
  <2>4. QED
    BY <1>4, <2>1, <2>2, <2>3
<1>6. QED
  BY <1>5

LEMMA CoinsCounted ==
    ASSUME NEW S, IsFiniteSet(S), NEW value \in [S -> Nat]
    PROVE  \A s \in SUBSET S : IsFiniteSet(Coins(value, s))
<1> DEFINE Bad == {s \in SUBSET S : ~IsFiniteSet(Coins(value, s))}
<1>1. SUFFICES ASSUME Bad # {}
               PROVE  FALSE
  OBVIOUS
<1>2. PICK s \in Bad : \A x \in s : s \ {x} \notin Bad
  <2>1. Bad \in SUBSET (SUBSET S)
    OBVIOUS
  <2> HIDE DEF Bad
  <2>2. QED
    BY <1>1, <2>1, SmallestSubset
<1>3. CASE s = {}
  <2>1. Coins(value, s) = {}
    BY <1>3 DEF Coins
  <2>2. QED
    BY <1>2, <2>1, FS_EmptySet
<1>4. CASE s # {}
  <2>1. PICK x \in s : TRUE
    BY <1>4
  <2>2. IsFiniteSet(Coins(value, s \ {x}))
    BY <1>2
  <2>3. QED
    BY <1>2, <2>2, OneMore
<1>5. QED
  BY <1>3, <1>4

Priced(h, p) == {t \in DOMAIN h : p[t] # NoPrice}
Worths(h, p) == [t \in Priced(h, p) |-> h[t].shares * p[t]]

\* The market value is the number of coins.
LEMMA ValueCounted ==
    ASSUME NEW h, NEW p, IsFiniteSet(DOMAIN h),
           Worths(h, p) \in [Priced(h, p) -> Nat]
    PROVE  /\ IsFiniteSet(Coins(Worths(h, p), Priced(h, p)))
           /\ MarketValue(h, p) = Cardinality(Coins(Worths(h, p), Priced(h, p)))
<1> DEFINE S == Priced(h, p)
           value == Worths(h, p)
           Equation(it) == it = [s \in SUBSET S |->
                                   IF s = {} THEN 0
                                   ELSE LET x == CHOOSE x \in s : TRUE
                                        IN  h[x].shares * p[x] + it[s \ {x}]]
           it == CHOOSE it : Equation(it)
           count == [s \in SUBSET S |-> Cardinality(Coins(value, s))]
<1>1. IsFiniteSet(S)
  BY FS_Subset DEF Priced
<1>2. \A s \in SUBSET S : IsFiniteSet(Coins(value, s))
  <2> HIDE DEF S, value
  <2>1. value \in [S -> Nat]
    BY DEF S, value
  <2>2. QED
    BY <1>1, <2>1, CoinsCounted
<1>3. \A x \in S : value[x] = h[x].shares * p[x]
  BY DEF Worths
<1>4. ASSUME NEW s \in SUBSET S, s # {}
      PROVE  LET x == CHOOSE x \in s : TRUE
             IN  /\ x \in s /\ s \ {x} \in SUBSET S
                 /\ count[s] = h[x].shares * p[x] + count[s \ {x}]
  <2> DEFINE x == CHOOSE x \in s : TRUE
  <2>1. x \in s
    BY <1>4
  <2>2. Cardinality(Coins(value, s)) = value[x] + Cardinality(Coins(value, s \ {x}))
    <3> HIDE DEF x
    <3>1. IsFiniteSet(Coins(value, s \ {x}))
      BY <1>2
    <3>2. value \in [S -> Nat]
      OBVIOUS
    <3> HIDE DEF value, S
    <3>3. QED
      BY <2>1, <3>1, <3>2, OneMore
  <2>3. x \in S /\ s \ {x} \in SUBSET S
    BY <2>1
  <2> HIDE DEF x
  <2>4. count[s] = h[x].shares * p[x] + count[s \ {x}]
    BY <1>3, <2>2, <2>3
  <2>5. QED
    BY <2>1, <2>3, <2>4 DEF x
<1>5. count[{}] = 0
  <2>1. Coins(value, {}) = {}
    BY DEF Coins
  <2>2. QED
    BY <2>1, FS_EmptySet
<1>6. Equation(count)
  <2>1. ASSUME NEW s \in SUBSET S
        PROVE  count[s] = IF s = {} THEN 0
                          ELSE LET x == CHOOSE x \in s : TRUE
                               IN  h[x].shares * p[x] + count[s \ {x}]
    BY <1>4, <1>5
  <2>2. count = [s \in SUBSET S |-> count[s]]
    OBVIOUS
  <2> HIDE DEF count
  <2>3. QED
    BY <2>1, <2>2
<1>7. Equation(it)
  <2> HIDE DEF Equation
  <2>1. QED
    BY <1>6
<1>8. it[S] = count[S]
  <2> DEFINE Bad == {s \in SUBSET S : it[s] # count[s]}
  <2>1. SUFFICES ASSUME Bad # {}
                 PROVE  FALSE
    OBVIOUS
  <2>2. PICK s \in Bad : \A x \in s : s \ {x} \notin Bad
    <3>1. Bad \in SUBSET (SUBSET S)
      OBVIOUS
    <3> HIDE DEF Bad
    <3>2. QED
      BY <1>1, <2>1, <3>1, SmallestSubset
  <2>3. it[s] = IF s = {} THEN 0
                ELSE LET x == CHOOSE x \in s : TRUE
                     IN  h[x].shares * p[x] + it[s \ {x}]
    <3>1. s \in SUBSET S
      BY <2>2
    <3> HIDE DEF it, count, S, Bad
    <3>2. QED
      BY <1>7, <3>1
  <2>4. s # {}
    BY <1>5, <2>2, <2>3
  <2>5. PICK x \in s : /\ it[s] = h[x].shares * p[x] + it[s \ {x}]
                       /\ count[s] = h[x].shares * p[x] + count[s \ {x}]
                       /\ s \ {x} \in SUBSET S
    BY <1>4, <2>2, <2>3, <2>4
  <2>6. it[s \ {x}] = count[s \ {x}]
    BY <2>2, <2>5
  <2>7. QED
    BY <2>2, <2>5, <2>6
<1>9. MarketValue(h, p) = it[S]
  BY DEF MarketValue, MapThenSumSet, MapThenFoldSet, Priced
<1>10. QED
  BY <1>2, <1>8, <1>9

-----------------------------------------------------------------------------
Holding == [shares : Nat \ {0}, entry : TradingDays, price : Prices]

\* The holdings in some tickers.
Portfolios == UNION {[S -> Holding] : S \in SUBSET Tickers}

PriceTables == [Tickers -> Prices \union {NoPrice}]

Purse(h, p) == Coins(Worths(h, p), Priced(h, p))

\* Coin i of ticker t.
HasCoin(h, p, c) ==
    \E t \in DOMAIN h, i \in Nat :
        c = <<t, i>> /\ p[t] # NoPrice /\ i \in 1 .. (h[t].shares * p[t])

LEMMA Valued ==
    ASSUME NEW h \in Portfolios, NEW p \in PriceTables
    PROVE  /\ IsFiniteSet(Purse(h, p))
           /\ MarketValue(h, p) = Cardinality(Purse(h, p)) /\ MarketValue(h, p) \in Nat
           /\ \A c : c \in Purse(h, p) <=> HasCoin(h, p, c)
<1>1. PICK S \in SUBSET Tickers : h \in [S -> Holding]
  BY DEF Portfolios
<1>2. IsFiniteSet(DOMAIN h)
  BY <1>1, FS_Subset, RebalanceAssumption
<1>3. ASSUME NEW t \in Priced(h, p)
      PROVE  h[t].shares * p[t] \in Nat
  <2>1. t \in S /\ t \in Tickers /\ p[t] # NoPrice
    BY <1>1 DEF Priced
  <2>2. h[t].shares \in Nat /\ p[t] \in Nat
    BY <1>1, <2>1, RebalanceAssumption DEF Holding, PriceTables
  <2>3. QED
    BY <2>2
<1>4. Worths(h, p) \in [Priced(h, p) -> Nat]
  BY <1>3 DEF Worths
<1>5. /\ IsFiniteSet(Purse(h, p))
      /\ MarketValue(h, p) = Cardinality(Purse(h, p))
  BY <1>2, <1>4, ValueCounted DEF Purse
<1>6. ASSUME NEW c
      PROVE  c \in Purse(h, p) <=> HasCoin(h, p, c)
  <2>1. \A t \in Priced(h, p) : Worths(h, p)[t] = h[t].shares * p[t]
    BY DEF Worths
  <2>2. c \in Purse(h, p) <=> \E t \in Priced(h, p), i \in Nat : c = <<t, i>> /\ i \in 1 .. Worths(h, p)[t]
    BY DEF Purse, Coins
  <2>3. QED
    BY <2>1, <2>2 DEF Priced, HasCoin
<1>7. QED
  BY <1>5, <1>6, FS_CardinalityType

\* Nothing is worth nothing.
LEMMA NothingValued ==
    ASSUME NEW h \in Portfolios, NEW p \in PriceTables, DOMAIN h = {}
    PROVE  MarketValue(h, p) = 0
<1>1. Purse(h, p) = {}
  BY Valued DEF HasCoin
<1>2. QED
  BY <1>1, Valued, FS_EmptySet

\* Apart, two portfolios are worth what they are worth together.
LEMMA ValueAdds ==
    ASSUME NEW a \in Portfolios, NEW b \in Portfolios, NEW h \in Portfolios, NEW p \in PriceTables,
           DOMAIN a \intersect DOMAIN b = {}, DOMAIN h = DOMAIN a \union DOMAIN b,
           \A t \in DOMAIN a : h[t] = a[t], \A t \in DOMAIN b : h[t] = b[t]
    PROVE  MarketValue(h, p) = MarketValue(a, p) + MarketValue(b, p)
<1>1. PICK ca, cb, ch : ca = Purse(a, p) /\ cb = Purse(b, p) /\ ch = Purse(h, p)
  OBVIOUS
<1>2. \A c : (c \in ca <=> HasCoin(a, p, c)) /\ (c \in cb <=> HasCoin(b, p, c)) /\ (c \in ch <=> HasCoin(h, p, c))
  BY <1>1, Valued
<1>3. ca \intersect cb = {}
  BY <1>2 DEF HasCoin
<1>4. ASSUME NEW c
      PROVE  c \in ch <=> c \in ca \union cb
  BY <1>2 DEF HasCoin
<1>5. /\ IsFiniteSet(ca) /\ IsFiniteSet(cb)
      /\ MarketValue(a, p) = Cardinality(ca) /\ MarketValue(b, p) = Cardinality(cb)
      /\ MarketValue(h, p) = Cardinality(ch)
  BY <1>1, Valued
<1>6. Cardinality(ca \union cb) = Cardinality(ca) + Cardinality(cb) - Cardinality(ca \intersect cb)
  BY <1>5, FS_Union
<1>7. Cardinality(ca \intersect cb) = 0
  BY <1>3, FS_EmptySet
<1>8. ch = ca \union cb
  BY <1>4
<1>9. Cardinality(ca) \in Nat /\ Cardinality(cb) \in Nat
  BY <1>5, FS_CardinalityType
<1>10. QED
  BY <1>5, <1>6, <1>7, <1>8, <1>9

\* One position.
LEMMA OneValued ==
    ASSUME NEW h \in Portfolios, NEW p \in PriceTables, NEW t, DOMAIN h = {t}, p[t] # NoPrice
    PROVE  MarketValue(h, p) = h[t].shares * p[t]
<1>1. t \in Tickers /\ h[t] \in Holding
  BY DEF Portfolios
<1>2. h[t].shares \in Nat /\ p[t] \in Nat
  BY <1>1, RebalanceAssumption DEF Holding, PriceTables
<1>3. PICK n \in Nat : n = h[t].shares * p[t]
  BY <1>2
<1>4. Priced(h, p) = {t} /\ Worths(h, p) \in [{t} -> Nat] /\ Worths(h, p)[t] = n
  BY <1>3 DEF Priced, Worths
<1>5. Coins(Worths(h, p), {t} \ {t}) = {}
  BY DEF Coins
<1>6. /\ IsFiniteSet(Coins(Worths(h, p), {t} \ {t}))
      /\ Cardinality(Coins(Worths(h, p), {t} \ {t})) = 0
  BY <1>5, FS_EmptySet
<1>7. Cardinality(Coins(Worths(h, p), {t})) = n + 0
  <2>1. {t} \in SUBSET {t} /\ t \in {t}
    OBVIOUS
  <2>2. Cardinality(Coins(Worths(h, p), {t}))
            = Worths(h, p)[t] + Cardinality(Coins(Worths(h, p), {t} \ {t}))
    <3> DEFINE v == Worths(h, p)
               T == {t}
    <3>1. v \in [T -> Nat] /\ T \in SUBSET T /\ t \in T /\ IsFiniteSet(Coins(v, T \ {t}))
      BY <1>4, <1>6
    <3>2. Cardinality(Coins(v, T)) = v[t] + Cardinality(Coins(v, T \ {t}))
      <4> HIDE DEF v, T
      <4>1. QED
        BY <3>1, OneMore
    <3>3. QED
      BY <3>2
  <2>3. QED
    BY <1>4, <1>6, <2>2
<1>8. MarketValue(h, p) = Cardinality(Coins(Worths(h, p), {t}))
  BY <1>4, Valued DEF Purse
<1>9. QED
  BY <1>3, <1>7, <1>8

-----------------------------------------------------------------------------
(* What a review buys.                                                       *)

LEMMA DividesEvenly ==
    ASSUME NEW a \in Nat, NEW w \in Nat \ {0}, a % w = 0
    PROVE  a \div w \in Nat /\ (a \div w) * w = a
<1>1. a \div w \in Nat /\ a = (a \div w) * w + (a % w)
  OBVIOUS
<1>2. QED
  BY <1>1

\* A part of the cash that divides evenly buys something, costs no more than there is,
\* and all of it when it is the only part.
LEMMA PartAffordable ==
    ASSUME NEW cash \in Nat \ {0}, NEW slots \in Nat \ {0}, NEW price \in Nat \ {0},
           NEW whole \in Nat, whole = slots * price, NEW n \in Nat, n * whole = cash
    PROVE  n # 0 /\ n * price <= cash /\ (slots = 1 => n * price = cash)
<1>1. price <= whole
  OBVIOUS
<1>2. n # 0
  OBVIOUS
<1>3. n * price <= n * whole
  <2>1. PICK d \in Nat : whole = price + d
    <3>1. whole - price \in Nat /\ whole = price + (whole - price)
      BY <1>1
    <3>2. QED
      BY <3>1
  <2>2. n * whole = n * price + n * d /\ n * d \in Nat /\ n * price \in Nat
    BY <2>1
  <2>3. QED
    BY <2>2
<1>4. slots = 1 => whole = price
  OBVIOUS
<1>5. QED
  BY <1>2, <1>3, <1>4

Ledger == [cash : Nat, slots : Nat, bought : Portfolios, even : {TRUE}]

\* What a review has bought of the tickers it has tried is paid for and has its slots,
\* and the last slot takes the rest of the cash.
Sound(book, start, tried) ==
    /\ book \in Ledger /\ DOMAIN book.bought \subseteq tried
    /\ book.cash + MarketValue(book.bought, rbPrice) = start.cash
    /\ book.slots + Cardinality(DOMAIN book.bought) = start.slots
    /\ book.slots = 0 /\ start.slots # 0 => book.cash = 0
    /\ \A t \in DOMAIN book.bought : book.bought[t].entry = rbDay

\* Of the first n candidates each was bought, excluded or without a price, or found slots
\* or cash at an end, and then nothing behind it is bought.
Attended(book, ranked, excluded, n) ==
    \A i \in 1 .. n :
        \/ ranked[i] \in excluded \/ rbPrice[ranked[i]] <= 0 \/ ranked[i] \in DOMAIN book.bought
        \/ /\ book.slots = 0 \/ book.cash = 0
           /\ DOMAIN book.bought \subseteq {ranked[j] : j \in 1 .. i}

LEMMA TogetherTyped ==
    ASSUME NEW a \in Portfolios, NEW b \in Portfolios
    PROVE  /\ Together(a, b) \in Portfolios
           /\ DOMAIN Together(a, b) = DOMAIN a \union DOMAIN b
           /\ \A t \in DOMAIN a : Together(a, b)[t] = a[t]
           /\ \A t \in DOMAIN b : t \notin DOMAIN a => Together(a, b)[t] = b[t]
<1>1. PICK S \in SUBSET Tickers, T \in SUBSET Tickers : a \in [S -> Holding] /\ b \in [T -> Holding]
  BY DEF Portfolios
<1>2. Together(a, b) \in [S \union T -> Holding] /\ S \union T \in SUBSET Tickers
  BY <1>1 DEF Together
<1>3. Together(a, b) \in Portfolios
  BY <1>2 DEF Portfolios
<1>4. QED
  BY <1>1, <1>3 DEF Together

LEMMA DomainCounted ==
    ASSUME NEW h \in Portfolios
    PROVE  DOMAIN h \in SUBSET Tickers /\ IsFiniteSet(DOMAIN h) /\ Cardinality(DOMAIN h) \in Nat
<1>1. DOMAIN h \in SUBSET Tickers
  BY DEF Portfolios
<1>2. QED
  BY <1>1, FS_Subset, FS_CardinalityType, RebalanceAssumption

\* One more candidate: it is passed over, or bought.
LEMMA BuyCases ==
    ASSUME rbPrice \in PriceTables, rbDay \in TradingDays, NEW t \in Tickers,
           NEW book \in Ledger, t \notin DOMAIN book.bought, Buy(book, t).even
    PROVE  \/ /\ Buy(book, t) = book
              /\ book.slots = 0 \/ book.cash = 0 \/ rbPrice[t] <= 0
           \/ /\ Buy(book, t) \in Ledger /\ book.slots # 0 /\ book.cash # 0
              /\ Buy(book, t).slots = book.slots - 1
              /\ DOMAIN Buy(book, t).bought = DOMAIN book.bought \union {t}
              /\ Buy(book, t).cash + MarketValue(Buy(book, t).bought, rbPrice)
                     = book.cash + MarketValue(book.bought, rbPrice)
              /\ book.slots = 1 => Buy(book, t).cash = 0
              /\ \A u \in DOMAIN Buy(book, t).bought :
                     \/ Buy(book, t).bought[u].entry = rbDay
                     \/ u \in DOMAIN book.bought /\ Buy(book, t).bought[u] = book.bought[u]
<1>1. PICK cash \in Nat, slots \in Nat, bought \in Portfolios :
           /\ cash = book.cash /\ slots = book.slots /\ bought = book.bought /\ book.even
  BY DEF Ledger
<1>2. PICK price \in Prices \union {NoPrice} : price = rbPrice[t]
  BY DEF PriceTables
<1>3. PICK shares : shares = cash \div (slots * price)
  OBVIOUS
<1>4. CASE slots <= 0 \/ cash <= 0 \/ price <= 0
  <2>1. Buy(book, t) = book
    BY <1>1, <1>2, <1>4 DEF Buy
  <2>2. QED
    BY <1>1, <1>2, <1>4, <2>1
<1>5. CASE ~(slots <= 0 \/ cash <= 0 \/ price <= 0)
  <2>1. slots \in Nat \ {0} /\ cash \in Nat \ {0} /\ price \in Nat \ {0} /\ price \in Prices
    BY <1>5, RebalanceAssumption DEF NoPrice
  <2>2. PICK one, both :
           /\ one = [u \in {t} |-> [shares |-> shares, entry |-> rbDay, price |-> price]]
           /\ both = Together(one, bought)
    OBVIOUS
  <2>3. PICK new : new = Buy(book, t)
    OBVIOUS
  <2>4. /\ new.cash = cash - shares * price /\ new.slots = slots - 1 /\ new.bought = both
        /\ new = [cash |-> new.cash, slots |-> new.slots, bought |-> new.bought, even |-> new.even]
        /\ new.even = (book.even /\ cash % (slots * price) = 0)
    <3>1. ~(book.slots <= 0 \/ book.cash <= 0 \/ rbPrice[t] <= 0)
      BY <1>1, <1>2, <1>5
    <3>2. new = [cash |-> book.cash - SharesFor(book, rbPrice[t]) * rbPrice[t], slots |-> book.slots - 1,
                 bought |-> Together([u \in {t} |-> [shares |-> SharesFor(book, rbPrice[t]), entry |-> rbDay,
                                                     price |-> rbPrice[t]]], book.bought),
                 even |-> book.even /\ book.cash % (book.slots * rbPrice[t]) = 0]
      BY <2>3, <3>1, Zenon DEF Buy
    <3>3. SharesFor(book, rbPrice[t]) = shares
      BY <1>1, <1>2, <1>3 DEF SharesFor
    <3>4. new = [cash |-> cash - shares * price, slots |-> slots - 1, bought |-> both,
                 even |-> book.even /\ cash % (slots * price) = 0]
      BY <1>1, <1>2, <2>2, <3>2, <3>3, Zenon
    <3>5. QED
      BY <3>4, Zenon
  <2>5. shares \in Nat \ {0} /\ shares * price <= cash /\ (slots = 1 => shares * price = cash)
    <3>1. cash % (slots * price) = 0
      BY <2>3, <2>4, Zenon
    <3>2. PICK whole \in Nat \ {0} : whole = slots * price
      BY <2>1
    <3>3. cash % whole = 0 /\ shares = cash \div whole
      BY <1>3, <3>1, <3>2, Zenon
    <3>4. shares \in Nat /\ shares * whole = cash
      BY <3>3, DividesEvenly
    <3>5. QED
      BY <2>1, <3>2, <3>4, PartAffordable
  <2>6. PICK paid \in Nat : paid = shares * price /\ paid <= cash
    BY <2>1, <2>5
  <2>7. one \in Portfolios
    <3>1. [shares |-> shares, entry |-> rbDay, price |-> price] \in Holding
      BY <2>1, <2>5 DEF Holding
    <3>2. one \in [{t} -> Holding]
      BY <2>2, <3>1
    <3>3. {t} \in SUBSET Tickers
      OBVIOUS
    <3>4. QED
      BY <3>2, <3>3 DEF Portfolios
  <2>8. DOMAIN one = {t} /\ one[t].shares = shares
    BY <2>2
  <2>9. /\ both \in Portfolios
        /\ DOMAIN both = DOMAIN one \union DOMAIN bought
        /\ \A u \in DOMAIN one : both[u] = one[u]
        /\ \A u \in DOMAIN bought : u \notin DOMAIN one => both[u] = bought[u]
    BY <2>2, <2>7, TogetherTyped
  <2>10. MarketValue(one, rbPrice) = paid
    <3>1. rbPrice[t] # NoPrice
      BY <1>2, <2>1, RebalanceAssumption DEF NoPrice
    <3>2. MarketValue(one, rbPrice) = one[t].shares * rbPrice[t]
      BY <2>7, <2>8, <3>1, OneValued
    <3>3. QED
      BY <1>2, <2>6, <2>8, <3>2
  <2>11. MarketValue(both, rbPrice) = paid + MarketValue(bought, rbPrice)
    <3>1. DOMAIN one \intersect DOMAIN bought = {}
      BY <1>1, <2>8
    <3>2. \A u \in DOMAIN bought : both[u] = bought[u]
      BY <2>9, <3>1
    <3>3. MarketValue(both, rbPrice) = MarketValue(one, rbPrice) + MarketValue(bought, rbPrice)
      BY <2>7, <2>9, <3>1, <3>2, ValueAdds
    <3>4. QED
      BY <2>10, <3>3
  <2>12. MarketValue(bought, rbPrice) \in Nat
    BY Valued
  <2>13. cash - paid \in Nat /\ slots - 1 \in Nat
    BY <2>1, <2>6
  <2>14. new.cash = cash - paid /\ new.slots = slots - 1 /\ new.bought = both
    BY <2>4, <2>6
  <2>15. new \in Ledger
    <3>1. new.even = TRUE
      <4>1. book.even = TRUE
        BY DEF Ledger
      <4>2. new.even
        BY <2>3
      <4>3. QED
        BY <2>4, <4>1, <4>2, Zenon
    <3>2. new = [cash |-> new.cash, slots |-> new.slots, bought |-> new.bought, even |-> TRUE]
      BY <2>4, <3>1, Zenon
    <3>3. new.cash \in Nat /\ new.slots \in Nat /\ new.bought \in Portfolios
      BY <2>9, <2>13, <2>14
    <3>4. ASSUME NEW c \in Nat, NEW s \in Nat, NEW b \in Portfolios
          PROVE  [cash |-> c, slots |-> s, bought |-> b, even |-> TRUE] \in Ledger
      BY DEF Ledger
    <3>5. [cash |-> new.cash, slots |-> new.slots, bought |-> new.bought, even |-> TRUE] \in Ledger
      BY <3>3, <3>4, Zenon
    <3>6. QED
      BY <3>2, <3>5, Zenon
  <2>16. new.cash + MarketValue(new.bought, rbPrice) = cash + MarketValue(bought, rbPrice)
    BY <2>1, <2>6, <2>11, <2>12, <2>14
  <2>17. slots = 1 => new.cash = 0
    BY <2>5, <2>6, <2>14
  <2>18. DOMAIN new.bought = DOMAIN bought \union {t}
    BY <2>8, <2>9, <2>14
  <2>19. \A u \in DOMAIN new.bought :
             new.bought[u].entry = rbDay \/ (u \in DOMAIN bought /\ new.bought[u] = bought[u])
    <3>1. one[t].entry = rbDay
      BY <2>2
    <3>2. QED
      BY <2>8, <2>9, <2>14, <3>1
  <2>20. QED
    BY <1>1, <2>1, <2>3, <2>14, <2>15, <2>16, <2>17, <2>18, <2>19
<1>6. QED
  BY <1>4, <1>5

\* A candidate without a price, slot or cash leaves the book as it is.
Treated(book, new, t) ==
    /\ DOMAIN book.bought \subseteq DOMAIN new.bought
    /\ book.slots = 0 \/ book.cash = 0 => new = book
    /\ t \in DOMAIN new.bought \/ (new = book /\ (book.slots = 0 \/ book.cash = 0 \/ rbPrice[t] <= 0))

LEMMA BoughtSoundly ==
    ASSUME rbPrice \in PriceTables, rbDay \in TradingDays,
           NEW start, NEW tried \in SUBSET Tickers, NEW t \in Tickers \ tried,
           NEW book, Sound(book, start, tried), NEW new, new = Buy(book, t), new.even
    PROVE  Sound(new, start, tried \union {t}) /\ Treated(book, new, t)
<1>1. book \in Ledger /\ t \notin DOMAIN book.bought
  BY DEF Sound
<1>2. CASE new = book /\ (book.slots = 0 \/ book.cash = 0 \/ rbPrice[t] <= 0)
  BY <1>2 DEF Sound, Treated
<1>3. CASE /\ new \in Ledger /\ book.slots # 0 /\ book.cash # 0
           /\ new.slots = book.slots - 1
           /\ DOMAIN new.bought = DOMAIN book.bought \union {t}
           /\ new.cash + MarketValue(new.bought, rbPrice) = book.cash + MarketValue(book.bought, rbPrice)
           /\ book.slots = 1 => new.cash = 0
           /\ \A u \in DOMAIN new.bought :
                  \/ new.bought[u].entry = rbDay
                  \/ u \in DOMAIN book.bought /\ new.bought[u] = book.bought[u]
  <2>1. book.slots \in Nat /\ new.slots \in Nat /\ book.bought \in Portfolios
    BY <1>1, <1>3 DEF Ledger
  <2>2. IsFiniteSet(DOMAIN book.bought) /\ Cardinality(DOMAIN book.bought) \in Nat
    BY <2>1, DomainCounted
  <2>3. Cardinality(DOMAIN new.bought) = Cardinality(DOMAIN book.bought) + 1
    <3>1. Cardinality(DOMAIN book.bought \union {t}) = Cardinality(DOMAIN book.bought) + 1
      BY <1>1, <2>2, FS_AddElement
    <3>2. QED
      BY <1>3, <3>1
  <2>4. new.slots + Cardinality(DOMAIN new.bought) = start.slots
    BY <1>3, <2>1, <2>2, <2>3 DEF Sound
  <2>5. new.cash + MarketValue(new.bought, rbPrice) = start.cash
    BY <1>3 DEF Sound
  <2>6. new.slots = 0 /\ start.slots # 0 => new.cash = 0
    BY <1>3, <2>1
  <2>7. DOMAIN new.bought \subseteq tried \union {t}
    BY <1>3 DEF Sound
  <2>8. \A u \in DOMAIN new.bought : new.bought[u].entry = rbDay
    BY <1>3 DEF Sound
  <2>9. Sound(new, start, tried \union {t})
    BY <1>3, <2>4, <2>5, <2>6, <2>7, <2>8 DEF Sound
  <2>10. QED
    BY <1>3, <2>9 DEF Treated
<1>4. QED
  BY <1>1, <1>2, <1>3, BuyCases

\* The candidates one after the other.
LEMMA FilledSoundly ==
    ASSUME rbPrice \in PriceTables, rbDay \in TradingDays,
           NEW start, Sound(start, start, {}), NEW ranked \in Rankings, NEW excluded,
           Fill(start, ranked, excluded).even
    PROVE  /\ Sound(Fill(start, ranked, excluded), start, Tickers \ excluded)
           /\ Attended(Fill(start, ranked, excluded), ranked, excluded, Len(ranked))
<1>1. PICK S \in SUBSET Tickers, L \in Nat :
           /\ L = Cardinality(S) /\ ranked \in [1 .. L -> S]
           /\ \A i, j \in 1 .. L : i # j => ranked[i] # ranked[j]
  <2>1. PICK S \in SUBSET Tickers : ranked \in SetToSeqs(S)
    BY DEF Rankings
  <2>2. IsFiniteSet(S) /\ Cardinality(S) \in Nat
    BY FS_Subset, FS_CardinalityType, RebalanceAssumption
  <2>3. QED
    BY <2>1, <2>2 DEF SetToSeqs
<1>2. Len(ranked) = L
  BY <1>1
<1> DEFINE Taken(b, n) == IF ranked[n] \in excluded THEN b ELSE Buy(b, ranked[n])
           Upto(f, m) == f = [n \in 0 .. m |-> IF n = 0 THEN start ELSE Taken(f[n - 1], n)]
           after == CHOOSE f : Upto(f, L)
           Tried(n) == {ranked[i] : i \in 1 .. n} \ excluded
<1>3. Fill(start, ranked, excluded) = after[L]
  BY <1>2 DEF Fill
<1>4. ASSUME NEW m \in 0 .. L, m # 0, NEW f, Upto(f, m - 1)
      PROVE  \E g : Upto(g, m)
  <2> DEFINE g == [n \in 0 .. m |-> IF n = m THEN Taken(f[m - 1], m) ELSE f[n]]
  <2>1. ASSUME NEW n \in 0 .. m
        PROVE  g[n] = IF n = 0 THEN start ELSE Taken(g[n - 1], n)
    <3> HIDE DEF Taken
    <3>1. CASE n = m
      <4>1. g[n - 1] = f[m - 1] /\ g[n] = Taken(f[m - 1], m)
        BY <1>4, <3>1
      <4>2. QED
        BY <1>4, <3>1, <4>1
    <3>2. CASE n # m
      <4>1. n \in 0 .. m - 1 /\ g[n] = f[n]
        BY <3>2
      <4>2. n # 0 => n - 1 \in 0 .. m /\ n - 1 # m /\ g[n - 1] = f[n - 1]
        BY <3>2
      <4>3. QED
        BY <1>4, <4>1, <4>2
    <3>3. QED
      BY <3>1, <3>2
  <2>2. g = [n \in 0 .. m |-> g[n]]
    OBVIOUS
  <2> HIDE DEF g, Taken
  <2>3. g = [n \in 0 .. m |-> IF n = 0 THEN start ELSE Taken(g[n - 1], n)]
    BY <2>1, <2>2
  <2>4. QED
    BY <2>3
<1>5. Upto([n \in 0 .. 0 |-> start], 0)
  OBVIOUS
<1>6. Upto(after, L)
  <2> HIDE DEF Upto
  <2> DEFINE Bad == {m \in 0 .. L : ~\E f : Upto(f, m)}
  <2>1. Bad = {}
    <3>1. SUFFICES ASSUME Bad # {}
                   PROVE  FALSE
      OBVIOUS
    <3>2. PICK m \in Bad : \A j \in Bad : m <= j
      <4>1. Bad \in SUBSET Nat
        BY <1>1
      <4> HIDE DEF Bad
      <4>2. QED
        BY <3>1, <4>1, LeastElement
    <3>3. m # 0 /\ m \in 0 .. L
      BY <1>5, <3>2
    <3>4. m - 1 \in 0 .. L /\ m - 1 \notin Bad
      BY <3>2, <3>3
    <3>5. QED
      BY <1>4, <3>2, <3>3, <3>4
  <2>2. \E f : Upto(f, L)
    BY <2>1
  <2>3. QED
    BY <2>2
<1>7. ASSUME NEW n \in 0 .. L
      PROVE  after[n] = IF n = 0 THEN start ELSE Taken(after[n - 1], n)
  <2> HIDE DEF after, Taken
  <2>1. QED
    BY <1>6
<1>8. ASSUME NEW n \in 1 .. L
      PROVE  after[n] = Taken(after[n - 1], n) /\ (after[n].even => after[n - 1].even)
  <2>1. after[n] = Taken(after[n - 1], n)
    <3> HIDE DEF after, Taken
    <3>1. QED
      BY <1>7
  <2> HIDE DEF after
  <2>2. CASE ranked[n] \in excluded
    BY <2>1, <2>2
  <2>3. CASE ranked[n] \notin excluded
    <3>1. PICK b, t : b = after[n - 1] /\ t = ranked[n]
      OBVIOUS
    <3>2. after[n] = Buy(b, t)
      BY <2>1, <2>3, <3>1
    <3>3. CASE b.slots <= 0 \/ b.cash <= 0 \/ rbPrice[t] <= 0
      BY <2>1, <3>1, <3>2, <3>3, Zenon DEF Buy
    <3>4. CASE ~(b.slots <= 0 \/ b.cash <= 0 \/ rbPrice[t] <= 0)
      <4>1. Buy(b, t).even = (b.even /\ b.cash % (b.slots * rbPrice[t]) = 0)
        BY <3>4, Zenon DEF Buy
      <4>2. QED
        BY <2>1, <3>1, <3>2, <4>1, Zenon
    <3>5. QED
      BY <3>3, <3>4
  <2>4. QED
    BY <2>2, <2>3
<1> DEFINE Good(n) == Sound(after[n], start, Tried(n)) /\ Attended(after[n], ranked, excluded, n)
<1>9. ASSUME NEW n \in 1 .. L, after[n].even, Good(n - 1)
      PROVE  Good(n)
  <2>1. PICK b, new, t : t \in Tickers /\ b = after[n - 1] /\ new = after[n] /\ t = ranked[n]
    <3> HIDE DEF after
    <3>1. ranked[n] \in Tickers
      BY <1>1
    <3>2. QED
      BY <3>1
  <2>2. Sound(b, start, Tried(n - 1)) /\ Attended(b, ranked, excluded, n - 1) /\ new.even
    BY <1>9, <2>1
  <2>3. new = IF t \in excluded THEN b ELSE Buy(b, t)
    BY <1>8, <2>1
  <2>4. CASE t \in excluded
    <3>1. new = b /\ Tried(n - 1) \subseteq Tried(n)
      BY <2>3, <2>4
    <3>2. Sound(new, start, Tried(n))
      <4> HIDE DEF Tried
      <4>1. QED
        BY <2>2, <3>1 DEF Sound
    <3>3. Attended(new, ranked, excluded, n)
      <4> HIDE DEF Tried, after
      <4>1. Attended(new, ranked, excluded, n - 1) /\ ranked[n] \in excluded
        BY <2>1, <2>2, <2>4, <3>1
      <4>2. \A i \in 1 .. n : i = n \/ i \in 1 .. n - 1
        OBVIOUS
      <4>3. QED
        BY <4>1, <4>2 DEF Attended
    <3>4. QED
      BY <2>1, <3>2, <3>3
  <2>5. CASE t \notin excluded
    <3>1. new = Buy(b, t)
      BY <2>3, <2>5
    <3>2. Tried(n) = Tried(n - 1) \union {t}
      BY <2>1, <2>5
    <3>3. Tried(n - 1) \in SUBSET Tickers /\ t \notin Tried(n - 1)
      BY <1>1, <2>1
    <3>4. /\ Sound(new, start, Tried(n))
          /\ DOMAIN b.bought \subseteq DOMAIN new.bought
          /\ b.slots = 0 \/ b.cash = 0 => new = b
          /\ t \in DOMAIN new.bought \/ (new = b /\ (b.slots = 0 \/ b.cash = 0 \/ rbPrice[t] <= 0))
      <4> HIDE DEF Tried, after
      <4>1. Sound(new, start, Tried(n - 1) \union {t}) /\ Treated(b, new, t)
        <5>1. PICK tried \in SUBSET Tickers : tried = Tried(n - 1)
          BY <3>3
        <5>2. t \in Tickers \ tried
          BY <2>1, <3>3, <5>1
        <5>3. Sound(b, start, tried) /\ new.even
          BY <2>2, <5>1, Zenon
        <5>4. QED
          BY <3>1, <5>1, <5>2, <5>3, BoughtSoundly
      <4>2. QED
        BY <3>2, <4>1 DEF Treated
    <3>5. DOMAIN b.bought \subseteq {ranked[j] : j \in 1 .. n - 1}
      BY <2>2 DEF Sound
    <3>6. ASSUME NEW i \in 1 .. n
          PROVE  \/ ranked[i] \in excluded \/ rbPrice[ranked[i]] <= 0 \/ ranked[i] \in DOMAIN new.bought
                 \/ /\ new.slots = 0 \/ new.cash = 0
                    /\ DOMAIN new.bought \subseteq {ranked[j] : j \in 1 .. i}
      <4> HIDE DEF Tried, after
      <4>1. CASE i = n
        <5>1. CASE t \in DOMAIN new.bought
          BY <2>1, <4>1, <5>1
        <5>2. CASE new = b /\ (b.slots = 0 \/ b.cash = 0 \/ rbPrice[t] <= 0)
          <6>1. DOMAIN b.bought \subseteq {ranked[j] : j \in 1 .. n}
            BY <3>5
          <6>2. QED
            BY <2>1, <4>1, <5>2, <6>1
        <5>3. QED
          BY <3>4, <5>1, <5>2
      <4>2. CASE i # n
        <5>1. i \in 1 .. n - 1
          BY <4>2
        <5>2. \/ ranked[i] \in excluded \/ rbPrice[ranked[i]] <= 0 \/ ranked[i] \in DOMAIN b.bought
              \/ /\ b.slots = 0 \/ b.cash = 0
                 /\ DOMAIN b.bought \subseteq {ranked[j] : j \in 1 .. i}
          BY <2>2, <5>1 DEF Attended
        <5>3. QED
          BY <3>4, <5>2
      <4>3. QED
        BY <4>1, <4>2
    <3>7. Attended(new, ranked, excluded, n)
      BY <3>6 DEF Attended
    <3>8. QED
      BY <2>1, <3>4, <3>7
  <2>6. QED
    BY <2>4, <2>5
<1>10. Good(0)
  <2>1. after[0] = start
    <3> HIDE DEF after, Taken
    <3>1. QED
      BY <1>1, <1>7
  <2>2. Tried(0) = {}
    OBVIOUS
  <2> HIDE DEF after, Tried
  <2>3. Attended(after[0], ranked, excluded, 0)
    BY DEF Attended
  <2>4. QED
    BY <2>1, <2>2, <2>3
<1>11. Good(L)
  <2> DEFINE Bad == {n \in 0 .. L : after[n].even /\ ~Good(n)}
  <2>1. after[L].even
    BY <1>3
  <2> HIDE DEF after, Tried, Good
  <2>2. SUFFICES ASSUME Bad # {}
                 PROVE  FALSE
    BY <1>1, <2>1
  <2>3. PICK n \in Bad : \A j \in Bad : n <= j
    <3>1. Bad \in SUBSET Nat
      BY <1>1
    <3> HIDE DEF Bad
    <3>2. QED
      BY <2>2, <3>1, LeastElement
  <2>4. n \in 1 .. L
    BY <1>10, <2>3
  <2>5. n - 1 \in 0 .. L /\ n - 1 \notin Bad
    BY <2>3, <2>4
  <2>6. after[n].even => after[n - 1].even
    BY <1>8, <2>4
  <2>7. QED
    BY <1>9, <2>3, <2>4, <2>5, <2>6
<1>12. Tried(L) \subseteq Tickers \ excluded
  BY <1>1
<1> HIDE DEF after, Tried
<1>13. QED
  BY <1>2, <1>3, <1>11, <1>12 DEF Sound

-----------------------------------------------------------------------------
(* The books (Rebalance).  A review moves money between cash and holdings    *)
(* only: equity is what it was when the day's prices came in, in either phase.*)
(* What is held on a review day was bought before it.                        *)

\* FullyInvested of the targets.
TargetsTaken ==
    \A u \in ToSet(rbTargets) \ (DOMAIN rbHoldings \union rbSoldNow) :
        \/ rbPrice[u] <= 0
        \/ rbCash = 0 /\ \A t \in DOMAIN rbHoldings : rbHoldings[t].entry = rbDay => t \in ToSet(rbTargets)

BooksInv ==
    /\ rbDay \in TradingDays \union {FirstDay - 1}
    /\ rbPhase \in {"review", "closed"} /\ (rbPhase = "review" => rbDay \in TradingDays)
    /\ rbPrice \in PriceTables /\ rbCash \in Nat /\ rbHoldings \in Portfolios
    /\ rbTargets \in Seq(Tickers) /\ rbTrades \in [Tickers -> [buys : Nat, sells : Nat]]
    /\ Equity = rbWorth
    /\ Cardinality(DOMAIN rbHoldings) <= PortfolioSize
    /\ rbSoldNow \intersect DOMAIN rbHoldings = {}
    /\ \A t \in Tickers :
           rbTrades[t].buys - rbTrades[t].sells = IF t \in DOMAIN rbHoldings THEN 1 ELSE 0
    /\ \A t \in DOMAIN rbHoldings :
           rbHoldings[t].entry <= rbDay /\ (rbPhase = "review" => rbHoldings[t].entry < rbDay)
    /\ Cardinality(DOMAIN rbHoldings) = PortfolioSize => rbCash = 0
    /\ rbPhase = "closed" => TargetsTaken

LEMMA EmptyPortfolio == <<>> \in Portfolios /\ DOMAIN <<>> = {}
<1>1. <<>> \in [{} -> Holding] /\ {} \in SUBSET Tickers
  OBVIOUS
<1>2. QED
  BY <1>1 DEF Portfolios

LEMMA RestrictTyped ==
    ASSUME NEW h \in Portfolios, NEW S \in SUBSET (DOMAIN h)
    PROVE  /\ Restrict(h, S) \in Portfolios /\ DOMAIN Restrict(h, S) = S
           /\ \A t \in S : Restrict(h, S)[t] = h[t]
<1>1. PICK T \in SUBSET Tickers : h \in [T -> Holding]
  BY DEF Portfolios
<1>2. Restrict(h, S) \in [S -> Holding] /\ S \in SUBSET Tickers
  BY <1>1 DEF Restrict
<1>3. QED
  BY <1>2 DEF Portfolios, Restrict

LEMMA EarliestDay ==
    ASSUME NEW S \in SUBSET TradingDays, S # {}
    PROVE  Min(S) \in S
<1>1. S \in SUBSET Nat
  BY RebalanceAssumption
<1>2. \E m \in S : \A j \in S : m <= j
  BY <1>1, LeastElement
<1>3. QED
  BY <1>2 DEF Min

LEMMA FirstTyped == FirstDay \in TradingDays /\ FirstDay \in Nat
BY EarliestDay, RebalanceAssumption DEF FirstDay

LEMMA BooksStart == RebalanceInit => BooksInv
<1>1. SUFFICES ASSUME RebalanceInit
               PROVE  BooksInv
  OBVIOUS
<1>2. /\ rbDay \in TradingDays \union {FirstDay - 1} /\ rbPhase = "closed"
      /\ rbPrice \in PriceTables /\ rbCash \in Nat /\ rbHoldings \in Portfolios /\ DOMAIN rbHoldings = {}
      /\ rbTargets \in Seq(Tickers) /\ rbTrades \in [Tickers -> [buys : Nat, sells : Nat]]
      /\ \A t \in Tickers : rbTrades[t].buys - rbTrades[t].sells = 0
      /\ rbSoldNow = {} /\ ToSet(rbTargets) = {}
  BY <1>1, EmptyPortfolio, RebalanceAssumption DEF RebalanceInit, PriceTables, ToSet
<1>3. Equity = rbWorth
  <2>1. MarketValue(rbHoldings, rbPrice) = 0
    BY <1>2, NothingValued
  <2>2. rbWorth = rbCash
    BY <1>1 DEF RebalanceInit
  <2>3. QED
    BY <1>2, <2>1, <2>2 DEF Equity
<1>4. Cardinality(DOMAIN rbHoldings) <= PortfolioSize
  BY <1>2, FS_EmptySet, RebalanceAssumption
<1>5. Cardinality(DOMAIN rbHoldings) # PortfolioSize
  BY <1>2, FS_EmptySet, RebalanceAssumption
<1>6. QED
  BY <1>2, <1>3, <1>4, <1>5 DEF BooksInv, TargetsTaken

LEMMA BooksOpen == BooksInv /\ OpenDay => BooksInv'
<1>1. SUFFICES ASSUME BooksInv, OpenDay
               PROVE  BooksInv'
  OBVIOUS
<1>2. rbDay' \in TradingDays /\ rbDay' > rbDay
  <2>1. {d \in TradingDays : d > rbDay} # {} /\ rbDay' = Min({d \in TradingDays : d > rbDay})
    BY <1>1 DEF OpenDay
  <2>2. QED
    BY <2>1, EarliestDay
<1>3. rbPhase' \in {"review", "closed"}
  BY <1>1 DEF OpenDay
<1>4. rbPrice' \in PriceTables
  BY <1>1 DEF OpenDay, BooksInv, PriceTables
<1>5. Equity' = rbWorth'
  BY <1>1 DEF OpenDay, Equity
<1>6. UNCHANGED <<rbCash, rbHoldings, rbTrades>> /\ rbSoldNow' = {} /\ rbTargets' = <<>>
  BY <1>1 DEF OpenDay
<1>7. \A t \in DOMAIN rbHoldings' : rbHoldings'[t].entry < rbDay' /\ rbHoldings'[t].entry <= rbDay'
  <2>1. ASSUME NEW t \in DOMAIN rbHoldings
        PROVE  rbHoldings[t].entry < rbDay' /\ rbHoldings[t].entry <= rbDay'
    <3>1. rbHoldings[t].entry \in TradingDays /\ rbHoldings[t].entry <= rbDay
      BY <1>1 DEF BooksInv, Portfolios, Holding
    <3>2. rbDay \in Int /\ rbDay' \in Int /\ rbHoldings[t].entry \in Int
      <4>1. rbDay \in TradingDays \/ rbDay = FirstDay - 1
        BY <1>1 DEF BooksInv
      <4>2. TradingDays \subseteq Int
        BY RebalanceAssumption
      <4>3. FirstDay - 1 \in Int
        BY FirstTyped
      <4>4. QED
        BY <1>2, <3>1, <4>1, <4>2, <4>3
    <3>3. QED
      BY <1>2, <3>1, <3>2
  <2>2. QED
    BY <1>6, <2>1
<1>8. TargetsTaken'
  BY <1>6 DEF TargetsTaken, ToSet
<1>9. QED
  BY <1>1, <1>2, <1>3, <1>4, <1>5, <1>6, <1>7, <1>8 DEF BooksInv

LEMMA RankedTyped == \A ranked \in Rankings : ranked \in Seq(Tickers)
<1>1. SUFFICES ASSUME NEW ranked \in Rankings
               PROVE  ranked \in Seq(Tickers)
  OBVIOUS
<1>2. PICK S \in SUBSET Tickers : ranked \in SetToSeqs(S)
  BY DEF Rankings
<1>3. ranked \in [1 .. Cardinality(S) -> S] /\ Cardinality(S) \in Nat
  BY <1>2, FS_Subset, FS_CardinalityType, RebalanceAssumption DEF SetToSeqs
<1>4. ranked \in Seq(S)
  BY <1>3
<1>5. QED
  BY <1>4

LEMMA BooksReview ==
    ASSUME BooksInv, NEW ranked \in Rankings, Review(ranked)
    PROVE  BooksInv'
<1>1. rbPrice \in PriceTables /\ rbDay \in TradingDays /\ rbHoldings \in Portfolios /\ rbCash \in Nat
  BY DEF BooksInv, Review
<1>2. PICK sold : sold = {t \in DOMAIN rbHoldings : MustSell(t)}
  OBVIOUS
<1>3. PICK kept \in Portfolios, gone \in Portfolios :
           /\ kept = Restrict(rbHoldings, DOMAIN rbHoldings \ sold)
           /\ DOMAIN kept = DOMAIN rbHoldings \ sold /\ \A t \in DOMAIN kept : rbHoldings[t] = kept[t]
           /\ gone = Restrict(rbHoldings, sold)
           /\ DOMAIN gone = sold /\ \A t \in DOMAIN gone : rbHoldings[t] = gone[t]
  <2>1. sold \in SUBSET (DOMAIN rbHoldings) /\ DOMAIN rbHoldings \ sold \in SUBSET (DOMAIN rbHoldings)
    BY <1>2
  <2>2. QED
    BY <1>1, <2>1, RestrictTyped
<1>4. PICK start :
           start = [cash |-> rbCash + MarketValue(gone, rbPrice),
                    slots |-> PortfolioSize - Cardinality(DOMAIN kept), bought |-> <<>>,
                    even |-> TRUE]
  OBVIOUS
<1>5. PICK book : book = Fill(start, ranked, sold \union DOMAIN kept)
  OBVIOUS
<1>6. /\ rbPhase' = "closed" /\ rbCash' = book.cash /\ rbHoldings' = Together(book.bought, kept)
      /\ rbTargets' = TargetRows(ranked) /\ rbTrades' = TradeSummary(DOMAIN book.bought, sold)
      /\ rbSoldNow' = sold /\ UNCHANGED <<rbDay, rbPrice, rbWorth>> /\ book.even
  BY <1>2, <1>3, <1>4, <1>5, Zenon DEF Review
<1>7. MarketValue(gone, rbPrice) \in Nat /\ MarketValue(kept, rbPrice) \in Nat
  BY <1>1, <1>3, Valued
<1>8. /\ Cardinality(DOMAIN kept) \in Nat /\ Cardinality(DOMAIN kept) <= PortfolioSize
      /\ IsFiniteSet(DOMAIN kept)
  <2>1. IsFiniteSet(DOMAIN rbHoldings) /\ Cardinality(DOMAIN rbHoldings) \in Nat
    BY <1>1, DomainCounted
  <2>2. IsFiniteSet(DOMAIN kept) /\ Cardinality(DOMAIN kept) <= Cardinality(DOMAIN rbHoldings)
    BY <1>3, <2>1, FS_Subset
  <2>3. Cardinality(DOMAIN rbHoldings) <= PortfolioSize
    BY DEF BooksInv
  <2>4. Cardinality(DOMAIN kept) \in Nat
    BY <1>3, DomainCounted
  <2>5. QED
    BY <2>1, <2>2, <2>3, <2>4, RebalanceAssumption
<1>9. /\ start.cash = rbCash + MarketValue(gone, rbPrice)
      /\ start.slots = PortfolioSize - Cardinality(DOMAIN kept) /\ start.bought = <<>>
  BY <1>4
<1>10. Sound(start, start, {})
  <2>1. start \in Ledger
    <3>1. PICK c \in Nat, s \in Nat, p \in Portfolios :
             c = rbCash + MarketValue(gone, rbPrice) /\ s = PortfolioSize - Cardinality(DOMAIN kept) /\ p = <<>>
      BY <1>1, <1>7, <1>8, EmptyPortfolio, RebalanceAssumption
    <3>2. [cash |-> c, slots |-> s, bought |-> p, even |-> TRUE] \in Ledger
      BY DEF Ledger
    <3>3. QED
      BY <1>4, <3>1, <3>2
  <2>2. MarketValue(start.bought, rbPrice) = 0
    BY <1>1, <1>9, EmptyPortfolio, NothingValued
  <2>3. DOMAIN start.bought = {} /\ Cardinality(DOMAIN start.bought) = 0
    BY <1>9, EmptyPortfolio, FS_EmptySet
  <2>4. start.cash \in Nat /\ start.slots \in Nat
    BY <2>1 DEF Ledger
  <2>5. QED
    BY <2>1, <2>2, <2>3, <2>4 DEF Sound
<1>11. sold \union DOMAIN kept = DOMAIN rbHoldings
  BY <1>2, <1>3
<1>12. /\ Sound(book, start, Tickers \ DOMAIN rbHoldings)
       /\ Attended(book, ranked, DOMAIN rbHoldings, Len(ranked))
  <2>1. Fill(start, ranked, DOMAIN rbHoldings).even
    BY <1>5, <1>6, <1>11, Zenon
  <2>2. QED
    BY <1>1, <1>5, <1>10, <1>11, <2>1, FilledSoundly
<1>13. PICK cash \in Nat, slots \in Nat, bought \in Portfolios :
           /\ cash = book.cash /\ slots = book.slots /\ bought = book.bought
           /\ DOMAIN bought \subseteq Tickers \ DOMAIN rbHoldings
           /\ cash + MarketValue(bought, rbPrice) = start.cash
           /\ slots + Cardinality(DOMAIN bought) = start.slots
           /\ slots = 0 /\ start.slots # 0 => cash = 0
           /\ \A t \in DOMAIN bought : bought[t].entry = rbDay
  BY <1>12 DEF Sound, Ledger
<1>14. PICK new \in Portfolios :
           /\ new = rbHoldings' /\ DOMAIN new = DOMAIN bought \union DOMAIN kept
           /\ \A t \in DOMAIN bought : new[t] = bought[t]
           /\ \A t \in DOMAIN kept : new[t] = kept[t]
  <2>1. DOMAIN bought \intersect DOMAIN kept = {}
    BY <1>3, <1>13
  <2>2. /\ Together(bought, kept) \in Portfolios
        /\ DOMAIN Together(bought, kept) = DOMAIN bought \union DOMAIN kept
        /\ \A t \in DOMAIN bought : Together(bought, kept)[t] = bought[t]
        /\ \A t \in DOMAIN kept : t \notin DOMAIN bought => Together(bought, kept)[t] = kept[t]
    BY TogetherTyped
  <2>3. rbHoldings' = Together(bought, kept)
    BY <1>6, <1>13
  <2>4. QED
    BY <2>1, <2>2, <2>3
<1>15. Equity' = rbWorth'
  <2>1. MarketValue(new, rbPrice) = MarketValue(bought, rbPrice) + MarketValue(kept, rbPrice)
    <3>1. DOMAIN bought \intersect DOMAIN kept = {}
      BY <1>3, <1>13
    <3>2. /\ DOMAIN new = DOMAIN bought \union DOMAIN kept
          /\ \A t \in DOMAIN bought : new[t] = bought[t]
          /\ \A t \in DOMAIN kept : new[t] = kept[t]
      BY <1>14
    <3>3. rbPrice \in PriceTables
      BY <1>1
    <3>4. QED
      BY <3>1, <3>2, <3>3, ValueAdds
  <2>2. MarketValue(rbHoldings, rbPrice) = MarketValue(gone, rbPrice) + MarketValue(kept, rbPrice)
    <3>1. DOMAIN gone \intersect DOMAIN kept = {} /\ DOMAIN rbHoldings = DOMAIN gone \union DOMAIN kept
      BY <1>2, <1>3
    <3>2. /\ \A t \in DOMAIN gone : rbHoldings[t] = gone[t]
          /\ \A t \in DOMAIN kept : rbHoldings[t] = kept[t]
      BY <1>3
    <3>3. rbPrice \in PriceTables /\ rbHoldings \in Portfolios
      BY <1>1
    <3>4. QED
      BY <3>1, <3>2, <3>3, ValueAdds
  <2>3. Equity' = cash + MarketValue(new, rbPrice)
    BY <1>6, <1>13, <1>14 DEF Equity
  <2>4. rbCash + MarketValue(rbHoldings, rbPrice) = rbWorth
    BY DEF BooksInv, Equity
  <2>5. MarketValue(bought, rbPrice) \in Nat
    BY <1>1, <1>13, Valued
  <2>6. QED
    BY <1>1, <1>6, <1>7, <1>9, <1>13, <2>1, <2>2, <2>3, <2>4, <2>5
<1>16. /\ Cardinality(DOMAIN bought) \in Nat /\ IsFiniteSet(DOMAIN bought)
       /\ Cardinality(DOMAIN rbHoldings') = Cardinality(DOMAIN bought) + Cardinality(DOMAIN kept)
       /\ Cardinality(DOMAIN rbHoldings') <= PortfolioSize
  <2>1. IsFiniteSet(DOMAIN bought) /\ Cardinality(DOMAIN bought) \in Nat
    BY <1>13, DomainCounted
  <2>2. DOMAIN bought \intersect DOMAIN kept = {}
    BY <1>3, <1>13
  <2>3. Cardinality(DOMAIN bought \intersect DOMAIN kept) = 0
    BY <2>2, FS_EmptySet
  <2>4. Cardinality(DOMAIN new) = Cardinality(DOMAIN bought) + Cardinality(DOMAIN kept)
    <3>1. Cardinality(DOMAIN bought \union DOMAIN kept)
              = Cardinality(DOMAIN bought) + Cardinality(DOMAIN kept)
                    - Cardinality(DOMAIN bought \intersect DOMAIN kept)
      BY <1>8, <2>1, FS_Union
    <3>2. QED
      BY <1>8, <1>14, <2>1, <2>3, <3>1
  <2>5. QED
    BY <1>8, <1>9, <1>13, <1>14, <2>1, <2>4, RebalanceAssumption
<1>17. rbSoldNow' \intersect DOMAIN rbHoldings' = {}
  BY <1>2, <1>3, <1>6, <1>13, <1>14
<1>18. rbTargets' \in Seq(Tickers)
  <2>1. ranked \in Seq(Tickers)
    BY RankedTyped
  <2>2. PICK n \in 0 .. Len(ranked) : rbTargets' = SubSeq(ranked, 1, n)
    BY <1>6, <2>1, RebalanceAssumption DEF TargetRows
  <2>3. SubSeq(ranked, 1, n) \in Seq(Tickers)
    BY <2>1
  <2>4. QED
    BY <2>2, <2>3
<1>19. /\ rbTrades' \in [Tickers -> [buys : Nat, sells : Nat]]
       /\ \A t \in Tickers :
              rbTrades'[t].buys - rbTrades'[t].sells = IF t \in DOMAIN rbHoldings' THEN 1 ELSE 0
  <2>1. rbTrades \in [Tickers -> [buys : Nat, sells : Nat]]
    BY DEF BooksInv
  <2>2. rbTrades' = [t \in Tickers |-> [buys |-> rbTrades[t].buys + (IF t \in DOMAIN bought THEN 1 ELSE 0),
                                       sells |-> rbTrades[t].sells + (IF t \in sold THEN 1 ELSE 0)]]
    BY <1>6, <1>13 DEF TradeSummary
  <2>3. rbTrades' \in [Tickers -> [buys : Nat, sells : Nat]]
    BY <2>1, <2>2
  <2>4. ASSUME NEW t \in Tickers
        PROVE  rbTrades'[t].buys - rbTrades'[t].sells = IF t \in DOMAIN rbHoldings' THEN 1 ELSE 0
    <3>1. rbTrades[t].buys - rbTrades[t].sells = IF t \in DOMAIN rbHoldings THEN 1 ELSE 0
      BY DEF BooksInv
    <3>2. rbTrades[t].buys \in Nat /\ rbTrades[t].sells \in Nat
      BY <2>1
    <3>3. /\ rbTrades'[t].buys = rbTrades[t].buys + (IF t \in DOMAIN bought THEN 1 ELSE 0)
          /\ rbTrades'[t].sells = rbTrades[t].sells + (IF t \in sold THEN 1 ELSE 0)
      BY <2>2
    <3>4. t \in DOMAIN rbHoldings' <=> t \in DOMAIN bought \/ (t \in DOMAIN rbHoldings /\ t \notin sold)
      BY <1>3, <1>14
    <3>5. (t \in DOMAIN bought => t \notin DOMAIN rbHoldings) /\ (t \in sold => t \in DOMAIN rbHoldings)
      BY <1>2, <1>13
    <3>6. QED
      BY <3>1, <3>2, <3>3, <3>4, <3>5
  <2>5. QED
    BY <2>3, <2>4
<1>20. slots = 0 => rbCash' = 0
  <2>1. SUFFICES ASSUME slots = 0, start.slots = 0
                 PROVE  cash = 0
    BY <1>6, <1>13
  <2>2. Cardinality(DOMAIN kept) = PortfolioSize
    BY <1>8, <1>9, <2>1, RebalanceAssumption
  <2>3. IsFiniteSet(DOMAIN rbHoldings) /\ DOMAIN kept \in SUBSET (DOMAIN rbHoldings)
    BY <1>1, <1>3, DomainCounted
  <2>4. Cardinality(DOMAIN rbHoldings) = PortfolioSize /\ rbCash = 0
    <3>1. Cardinality(DOMAIN kept) <= Cardinality(DOMAIN rbHoldings) /\ Cardinality(DOMAIN rbHoldings) \in Nat
      BY <1>1, <2>3, FS_Subset, DomainCounted
    <3>2. Cardinality(DOMAIN rbHoldings) <= PortfolioSize
      BY DEF BooksInv
    <3>3. Cardinality(DOMAIN rbHoldings) = PortfolioSize
      BY <2>2, <3>1, <3>2, RebalanceAssumption
    <3>4. QED
      BY <3>3 DEF BooksInv
  <2>5. DOMAIN kept = DOMAIN rbHoldings
    BY <2>2, <2>3, <2>4, FS_Subset
  <2>6. DOMAIN gone = {}
    BY <1>2, <1>3, <2>5
  <2>7. MarketValue(gone, rbPrice) = 0
    BY <1>1, <2>6, NothingValued
  <2>8. start.cash = 0
    BY <1>9, <2>4, <2>7
  <2>9. MarketValue(bought, rbPrice) \in Nat
    BY <1>1, <1>13, Valued
  <2>10. QED
    BY <1>13, <2>8, <2>9
<1>21. Cardinality(DOMAIN rbHoldings') = PortfolioSize => rbCash' = 0
  <2>1. SUFFICES ASSUME Cardinality(DOMAIN rbHoldings') = PortfolioSize
                 PROVE  slots = 0
    BY <1>20
  <2>2. QED
    BY <1>8, <1>9, <1>13, <1>16, <2>1, RebalanceAssumption
<1>22. \A t \in DOMAIN rbHoldings' : rbHoldings'[t].entry <= rbDay
  <2>1. \A t \in DOMAIN kept : kept[t].entry <= rbDay
    BY <1>3 DEF BooksInv
  <2>2. \A t \in DOMAIN bought : bought[t].entry <= rbDay
    <3>1. rbDay <= rbDay
      BY <1>1, RebalanceAssumption
    <3>2. QED
      BY <1>13, <3>1
  <2>3. QED
    BY <1>14, <2>1, <2>2
<1>23. TargetsTaken'
  <2>1. PICK L \in Nat : L = Len(ranked) /\ ranked \in [1 .. L -> Tickers]
    <3>1. ranked \in Seq(Tickers)
      BY RankedTyped
    <3>2. QED
      BY <3>1
  <2>2. PICK m \in 0 .. L : rbTargets' = SubSeq(ranked, 1, m)
    <3>1. PICK m : m = IF L < PortfolioSize THEN L ELSE PortfolioSize
      OBVIOUS
    <3>2. m \in 0 .. L
      <4>1. PortfolioSize \in Nat
        BY RebalanceAssumption
      <4>2. QED
        BY <3>1, <4>1
    <3>3. rbTargets' = SubSeq(ranked, 1, m)
      BY <1>6, <2>1, <3>1 DEF TargetRows
    <3>4. QED
      BY <3>2, <3>3
  <2>3. ToSet(rbTargets') = {ranked[j] : j \in 1 .. m}
    <3>1. DOMAIN SubSeq(ranked, 1, m) = 1 .. m /\ \A j \in 1 .. m : SubSeq(ranked, 1, m)[j] = ranked[j]
      BY <2>1
    <3>2. QED
      BY <2>2, <3>1 DEF ToSet
  <2>4. SUFFICES ASSUME NEW i \in 1 .. m, ranked[i] \notin DOMAIN rbHoldings', ranked[i] \notin sold,
                        ~(rbPrice[ranked[i]] <= 0)
                 PROVE  rbCash' = 0 /\ \A t \in DOMAIN rbHoldings' :
                            rbHoldings'[t].entry = rbDay => t \in {ranked[j] : j \in 1 .. m}
    BY <1>6, <2>3 DEF TargetsTaken
  <2>5. ranked[i] \notin DOMAIN bought /\ ranked[i] \notin DOMAIN rbHoldings
    BY <1>3, <1>14, <2>4
  <2>6. /\ slots = 0 \/ cash = 0
        /\ DOMAIN bought \subseteq {ranked[j] : j \in 1 .. i}
    <3>1. i \in 1 .. Len(ranked)
      BY <2>1
    <3>2. QED
      BY <1>12, <1>13, <2>4, <2>5, <3>1 DEF Attended
  <2>7. rbCash' = 0
    BY <1>6, <1>13, <1>20, <2>6
  <2>8. ASSUME NEW t \in DOMAIN rbHoldings', rbHoldings'[t].entry = rbDay
        PROVE  t \in {ranked[j] : j \in 1 .. m}
    <3>1. t \notin DOMAIN kept
      <4>1. SUFFICES ASSUME t \in DOMAIN kept
                     PROVE  FALSE
        OBVIOUS
      <4>2. rbHoldings[t].entry = rbDay /\ t \in DOMAIN rbHoldings
        BY <1>3, <1>14, <2>8, <4>1
      <4>3. rbHoldings[t].entry < rbDay
        BY <4>2 DEF BooksInv, Review
      <4>4. QED
        BY <1>1, <4>2, <4>3, RebalanceAssumption
    <3>2. t \in DOMAIN bought
      BY <1>14, <2>8, <3>1
    <3>3. PICK j \in 1 .. i : t = ranked[j]
      BY <2>6, <3>2
    <3>4. j \in 1 .. m
      OBVIOUS
    <3>5. QED
      BY <3>3, <3>4
  <2>9. QED
    BY <2>7, <2>8
<1>24. QED
  <2>1. rbDay' \in TradingDays \union {FirstDay - 1} /\ rbPhase' = "closed" /\ rbPrice' \in PriceTables
    BY <1>1, <1>6
  <2>2. rbCash' \in Nat /\ rbHoldings' \in Portfolios
    BY <1>6, <1>13, <1>14
  <2>3. \A t \in DOMAIN rbHoldings' : rbHoldings'[t].entry <= rbDay'
    BY <1>6, <1>22
  <2>4. QED
    BY <1>15, <1>16, <1>17, <1>18, <1>19, <1>21, <1>23, <2>1, <2>2, <2>3 DEF BooksInv

LEMMA BooksHold == RebalanceSpec => []BooksInv
<1>1. BooksInv /\ [RebalanceNext]_rebalanceVars => BooksInv'
  <2>1. BooksInv /\ UNCHANGED rebalanceVars => BooksInv'
    BY DEF BooksInv, rebalanceVars, Equity, TargetsTaken
  <2>2. QED
    BY <2>1, BooksOpen, BooksReview DEF RebalanceNext
<1>2. QED
  BY <1>1, BooksStart, PTL DEF RebalanceSpec

LEMMA RebalanceTypes == RebalanceSpec => []RebalanceTypeOK
<1>1. BooksInv => RebalanceTypeOK
  BY DEF BooksInv, RebalanceTypeOK, Portfolios, Holding, PriceTables
<1>2. QED
  BY <1>1, BooksHold, PTL

\* Over any sequence of reviews (_rebalance, _build_trade_summary) the books are kept, and
\* what there is to invest is invested by rank.
THEOREM BooksAlwaysBalance == RebalanceSpec => []BooksBalance
<1>1. BooksInv => BooksKept
  BY DEF BooksInv, BooksKept
<1>2. BooksInv => FullyInvested
  BY DEF BooksInv, FullyInvested, TargetsTaken
<1>3. QED
  BY <1>1, <1>2, BooksHold, PTL DEF BooksBalance

-----------------------------------------------------------------------------
(* The rate limiter (RateLimiter): its deque is the tail of the calls it has *)
(* granted.                                                                 *)

\* What the loop that pops the deque leaves: its end, and every call that still counts.
LEMMA RecentCalls ==
    ASSUME NEW calls \in Seq(Nat), rlNow \in Nat
    PROVE  \E d \in 0 .. Len(calls) :
               /\ Recent(calls) \in Seq(Nat) /\ Len(Recent(calls)) = Len(calls) - d
               /\ \A i \in 1 .. Len(calls) - d : Recent(calls)[i] = calls[i + d]
               /\ \A i \in 1 .. d : rlNow - calls[i] > Window
<1>1. DOMAIN calls = 1 .. Len(calls) /\ Len(calls) \in Nat /\ \A i \in 1 .. Len(calls) : calls[i] \in Nat
  OBVIOUS
<1>2. ASSUME NEW i \in 1 .. Len(calls), i \notin Live(calls)
      PROVE  rlNow - calls[i] > Window
  BY <1>1, <1>2, LimiterAssumption DEF Live
<1>3. CASE Live(calls) = {}
  <2>1. Recent(calls) = <<>>
    BY <1>3 DEF Recent
  <2>2. Recent(calls) \in Seq(Nat) /\ Len(Recent(calls)) = 0
    BY <2>1
  <2>3. \A i \in 1 .. Len(calls) : rlNow - calls[i] > Window
    BY <1>2, <1>3
  <2>4. WITNESS Len(calls) \in 0 .. Len(calls)
  <2>5. QED
    BY <1>1, <2>2, <2>3
<1>4. CASE Live(calls) # {}
  <2>1. Live(calls) \subseteq 1 .. Len(calls) /\ Live(calls) \in SUBSET Nat
    BY <1>1 DEF Live
  <2>2. \E m \in Live(calls) : \A j \in Live(calls) : m <= j
    BY <1>4, <2>1, LeastElement
  <2>3. PICK m \in Live(calls) : /\ \A j \in Live(calls) : m <= j
                                 /\ Recent(calls) = SubSeq(calls, m, Len(calls))
    <3>1. (CHOOSE i \in Live(calls) : \A j \in Live(calls) : i <= j) \in Live(calls)
      BY <2>2
    <3>2. \A j \in Live(calls) : (CHOOSE i \in Live(calls) : \A k \in Live(calls) : i <= k) <= j
      BY <2>2
    <3>3. QED
      BY <1>4, <3>1, <3>2 DEF Recent
  <2>4. m \in 1 .. Len(calls)
    BY <2>1
  <2>5. \A i \in m .. Len(calls) : calls[i] \in Nat
    BY <1>1, <2>4
  <2>6. /\ SubSeq(calls, m, Len(calls)) \in Seq(Nat)
        /\ Len(SubSeq(calls, m, Len(calls))) = Len(calls) - m + 1
        /\ \A i \in 1 .. Len(calls) - m + 1 : SubSeq(calls, m, Len(calls))[i] = calls[m + i - 1]
    <3>1. m \in Int /\ Len(calls) \in Int /\ m <= Len(calls)
      BY <1>1, <2>4
    <3>2. QED
      BY <2>5, <3>1, SubSeqProperties
  <2>7. \A i \in 1 .. m - 1 : rlNow - calls[i] > Window
    <3>1. ASSUME NEW i \in 1 .. m - 1
          PROVE  i \in 1 .. Len(calls) /\ i \notin Live(calls)
      <4>1. i \in 1 .. Len(calls) /\ ~(m <= i)
        BY <1>1, <2>4
      <4>2. QED
        BY <2>3, <4>1
    <3>2. QED
      BY <1>2, <3>1
  <2>8. PICK d \in 0 .. Len(calls) : m = d + 1
    <3>1. m - 1 \in 0 .. Len(calls) /\ m = (m - 1) + 1
      BY <1>1, <2>4
    <3>2. QED
      BY <3>1
  <2>9. WITNESS d \in 0 .. Len(calls)
  <2>10. Len(calls) - m + 1 = Len(calls) - d /\ m - 1 = d /\ \A i \in Int : m + i - 1 = i + d
    BY <1>1, <2>8
  <2>11. \A i \in 1 .. Len(calls) - d : Recent(calls)[i] = calls[i + d]
    <3>1. SUFFICES ASSUME NEW i \in 1 .. Len(calls) - d
                   PROVE  Recent(calls)[i] = calls[i + d]
      OBVIOUS
    <3>2. Recent(calls)[i] = calls[m + i - 1]
      BY <2>3, <2>6, <2>10
    <3>3. m + i - 1 = i + d
      BY <2>10
    <3>4. QED
      BY <3>2, <3>3
  <2>12. QED
    BY <2>3, <2>6, <2>7, <2>10, <2>11
<1>5. QED
  BY <1>3, <1>4

-----------------------------------------------------------------------------
\* How many of the calls let through have left the deque.
Dropped(calls) == Len(rlGranted) - Len(calls)

\* The deque holds the last of the calls let through; those it has lost no longer count.
Holds(calls) ==
    /\ calls \in Seq(Nat) /\ Len(calls) <= Len(rlGranted)
    /\ \A i \in 1 .. Len(calls) : calls[i] = rlGranted[i + Dropped(calls)]
    /\ \A i \in 1 .. Dropped(calls) : rlNow - rlGranted[i] > Window

LimiterInv ==
    /\ rlNow \in Nat /\ rlGranted \in Seq(Nat)
    /\ Holds(rlCalls)
    /\ WindowBounded

LEMMA RecentHolds ==
    ASSUME LimiterInv
    PROVE  Holds(Recent(rlCalls))
<1>1. /\ rlNow \in Nat /\ rlCalls \in Seq(Nat) /\ Len(rlCalls) \in Nat /\ Len(rlGranted) \in Nat
      /\ Len(rlCalls) <= Len(rlGranted)
  BY DEF LimiterInv, Holds
<1>2. PICK d \in 0 .. Len(rlCalls) :
          /\ Recent(rlCalls) \in Seq(Nat) /\ Len(Recent(rlCalls)) = Len(rlCalls) - d
          /\ \A i \in 1 .. Len(rlCalls) - d : Recent(rlCalls)[i] = rlCalls[i + d]
          /\ \A i \in 1 .. d : rlNow - rlCalls[i] > Window
  BY <1>1, RecentCalls
<1>3. PICK g \in Nat : g = Len(rlGranted) - Len(rlCalls)
  <2>1. Len(rlGranted) - Len(rlCalls) \in Nat
    BY <1>1
  <2>2. QED
    BY <2>1
<1>4. Dropped(rlCalls) = g /\ Dropped(Recent(rlCalls)) = g + d
  BY <1>1, <1>2, <1>3 DEF Dropped
<1>5. \A i \in 1 .. Len(rlCalls) : rlCalls[i] = rlGranted[i + g]
  BY <1>4 DEF LimiterInv, Holds
<1>6. ASSUME NEW i \in 1 .. Len(rlCalls) - d
      PROVE  Recent(rlCalls)[i] = rlGranted[i + (g + d)]
  <2>1. i + d \in 1 .. Len(rlCalls) /\ (i + d) + g = i + (g + d)
    BY <1>1
  <2>2. Recent(rlCalls)[i] = rlCalls[i + d]
    BY <1>2
  <2>3. rlCalls[i + d] = rlGranted[(i + d) + g]
    BY <1>5, <2>1
  <2>4. QED
    BY <2>1, <2>2, <2>3
<1>7. ASSUME NEW i \in 1 .. g + d
      PROVE  rlNow - rlGranted[i] > Window
  <2>1. CASE i <= g
    <3>1. i \in 1 .. g
      BY <2>1
    <3>2. QED
      BY <1>4, <3>1 DEF LimiterInv, Holds
  <2>2. CASE i > g
    <3>1. PICK j \in 1 .. d : i = j + g
      <4>1. i - g \in 1 .. d /\ i = (i - g) + g
        BY <2>2
      <4>2. QED
        BY <4>1
    <3>2. j \in 1 .. Len(rlCalls)
      BY <1>1
    <3>3. rlCalls[j] = rlGranted[i]
      BY <1>5, <3>1, <3>2
    <3>4. rlNow - rlCalls[j] > Window
      BY <1>2
    <3>5. QED
      BY <3>3, <3>4
  <2>3. QED
    BY <2>1, <2>2
<1>8. Len(Recent(rlCalls)) <= Len(rlGranted)
  BY <1>1, <1>2
<1>9. \A i \in 1 .. Len(Recent(rlCalls)) : Recent(rlCalls)[i] = rlGranted[i + Dropped(Recent(rlCalls))]
  BY <1>2, <1>4, <1>6
<1>10. \A i \in 1 .. Dropped(Recent(rlCalls)) : rlNow - rlGranted[i] > Window
  BY <1>4, <1>7
<1>11. QED
  BY <1>2, <1>8, <1>9, <1>10 DEF Holds

LEMMA LimiterStart == LimiterInit => LimiterInv
<1> SUFFICES ASSUME LimiterInit
             PROVE  LimiterInv
  OBVIOUS
<1>1. rlNow = 0 /\ rlCalls = <<>> /\ rlGranted = <<>>
  BY DEF LimiterInit
<1>2. Len(rlCalls) = 0 /\ Len(rlGranted) = 0 /\ Dropped(rlCalls) = 0 /\ rlCalls \in Seq(Nat) /\ rlGranted \in Seq(Nat)
  BY <1>1 DEF Dropped
<1>3. Holds(rlCalls)
  BY <1>2 DEF Holds
<1>4. DOMAIN rlGranted = {}
  BY <1>1
<1>5. QED
  BY <1>1, <1>2, <1>3, <1>4 DEF LimiterInv, WindowBounded

LEMMA LimiterStep == LimiterInv /\ [LimiterNext]_limiterVars => LimiterInv'
<1> SUFFICES ASSUME LimiterInv, [LimiterNext]_limiterVars
             PROVE  LimiterInv'
  OBVIOUS
<1>0. /\ rlNow \in Nat /\ rlGranted \in Seq(Nat) /\ rlCalls \in Seq(Nat)
      /\ Len(rlCalls) \in Nat /\ Len(rlGranted) \in Nat /\ DOMAIN rlGranted = 1 .. Len(rlGranted)
      /\ \A i \in 1 .. Len(rlGranted) : rlGranted[i] \in Nat
  BY DEF LimiterInv, Holds
<1>1. CASE UNCHANGED <<rlNow, rlCalls, rlGranted>>
  BY <1>1 DEF LimiterInv, Holds, Dropped, WindowBounded
<1>2. CASE Clock
  <2>1. rlNow' = rlNow + 1 /\ rlCalls' = rlCalls /\ rlGranted' = rlGranted
    BY <1>2 DEF Clock
  <2>2. Dropped(rlCalls)' = Dropped(rlCalls) /\ Dropped(rlCalls) <= Len(rlGranted) /\ Dropped(rlCalls) \in Int
    BY <1>0, <2>1 DEF Dropped
  <2>3. ASSUME NEW i \in 1 .. Dropped(rlCalls)
        PROVE  rlNow' - rlGranted[i] > Window
    <3>1. rlNow - rlGranted[i] > Window
      BY DEF LimiterInv, Holds
    <3>2. rlGranted[i] \in Nat
      BY <1>0, <2>2
    <3>3. QED
      BY <1>0, <2>1, <3>1, <3>2, LimiterAssumption
  <2>4. Holds(rlCalls)'
    BY <2>1, <2>2, <2>3 DEF LimiterInv, Holds
  <2>5. WindowBounded'
    BY <2>1 DEF LimiterInv, WindowBounded
  <2>6. QED
    BY <1>0, <2>1, <2>4, <2>5 DEF LimiterInv
<1>3. ASSUME NEW t \in Threads, Look(t)
      PROVE  LimiterInv'
  <2>1. PICK calls \in Seq(Nat) : calls = Recent(rlCalls) /\ Holds(calls)
    BY RecentHolds DEF Holds
  <2>2. rlNow' = rlNow /\ Len(calls) \in Nat /\ Len(calls) <= Len(rlGranted)
    BY <1>3, <2>1 DEF Look, Holds
  <2>3. CASE Len(calls) < MaxCalls
    <3>1. rlCalls' = Append(calls, rlNow) /\ rlGranted' = Append(rlGranted, rlNow)
      BY <1>3, <2>1, <2>3 DEF Look
    <3>2. /\ rlCalls' \in Seq(Nat) /\ Len(rlCalls') = Len(calls) + 1
          /\ \A i \in 1 .. Len(calls) : rlCalls'[i] = calls[i]
          /\ rlCalls'[Len(calls) + 1] = rlNow
      BY <1>0, <2>1, <3>1, AppendProperties
    <3>3. /\ rlGranted' \in Seq(Nat) /\ Len(rlGranted') = Len(rlGranted) + 1
          /\ \A i \in 1 .. Len(rlGranted) : rlGranted'[i] = rlGranted[i]
          /\ rlGranted'[Len(rlGranted) + 1] = rlNow
          /\ DOMAIN rlGranted' = 1 .. Len(rlGranted) + 1
      BY <1>0, <3>1, AppendProperties
    <3>4. PICK g \in Nat : g = Len(rlGranted) - Len(calls)
      <4>1. Len(rlGranted) - Len(calls) \in Nat
        BY <1>0, <2>2
      <4>2. QED
        BY <4>1
    <3>5. Dropped(calls) = g /\ Dropped(rlCalls)' = g
      BY <1>0, <2>2, <3>2, <3>3, <3>4 DEF Dropped
    <3>6. ASSUME NEW i \in 1 .. Len(calls) + 1
          PROVE  rlCalls'[i] = rlGranted'[i + g]
      <4>1. CASE i = Len(calls) + 1
        <5>1. i + g = Len(rlGranted) + 1
          BY <1>0, <2>2, <3>4, <4>1
        <5>2. QED
          BY <3>2, <3>3, <4>1, <5>1
      <4>2. CASE i \in 1 .. Len(calls)
        <5>1. i + g \in 1 .. Len(rlGranted)
          BY <1>0, <2>2, <3>4, <4>2
        <5>2. calls[i] = rlGranted[i + g]
          BY <2>1, <3>5, <4>2 DEF Holds
        <5>3. QED
          BY <3>2, <3>3, <4>2, <5>1, <5>2
      <4>3. QED
        BY <2>2, <4>1, <4>2
    <3>7. ASSUME NEW i \in 1 .. g
          PROVE  rlNow - rlGranted[i] > Window /\ rlGranted'[i] = rlGranted[i]
      <4>1. i \in 1 .. Len(rlGranted)
        BY <1>0, <2>2, <3>4
      <4>2. i \in 1 .. Dropped(calls)
        BY <3>5
      <4>3. rlNow - rlGranted[i] > Window
        BY <2>1, <4>2 DEF Holds
      <4>4. QED
        BY <3>3, <4>1, <4>3
    <3>8. Len(rlCalls') <= Len(rlGranted')
      BY <1>0, <2>2, <3>2, <3>3
    <3>9. Holds(rlCalls)'
      BY <2>2, <3>2, <3>5, <3>6, <3>7, <3>8 DEF Holds
    <3>10. ASSUME NEW i \in 1 .. Len(rlGranted) + 1, i + MaxCalls \in 1 .. Len(rlGranted) + 1
           PROVE  rlGranted'[i + MaxCalls] - rlGranted'[i] > Window
      <4>1. CASE i + MaxCalls = Len(rlGranted) + 1
        <5>1. i \in 1 .. g
          BY <1>0, <2>2, <2>3, <3>4, <4>1, LimiterAssumption
        <5>2. QED
          BY <3>3, <3>7, <4>1, <5>1
      <4>2. CASE i + MaxCalls # Len(rlGranted) + 1
        <5>1. i \in 1 .. Len(rlGranted) /\ i + MaxCalls \in 1 .. Len(rlGranted)
          BY <1>0, <3>10, <4>2, LimiterAssumption
        <5>2. rlGranted[i + MaxCalls] - rlGranted[i] > Window
          BY <1>0, <5>1 DEF LimiterInv, WindowBounded
        <5>3. QED
          BY <3>3, <5>1, <5>2
      <4>3. QED
        BY <4>1, <4>2
    <3>11. WindowBounded'
      BY <3>3, <3>10 DEF WindowBounded
    <3>12. QED
      BY <1>0, <2>2, <3>3, <3>9, <3>11 DEF LimiterInv
  <2>4. CASE ~(Len(calls) < MaxCalls)
    <3>1. rlCalls' = calls /\ rlGranted' = rlGranted
      BY <1>3, <2>1, <2>4 DEF Look
    <3>2. Holds(rlCalls)'
      BY <2>1, <2>2, <3>1 DEF Holds, Dropped
    <3>3. WindowBounded'
      BY <3>1 DEF LimiterInv, WindowBounded
    <3>4. QED
      BY <1>0, <2>2, <3>1, <3>2, <3>3 DEF LimiterInv
  <2>5. QED
    BY <2>3, <2>4
<1>4. ASSUME NEW t \in Threads, Ask(t) \/ Call(t)
      PROVE  LimiterInv'
  BY <1>1, <1>4 DEF Ask, Call
<1>5. CASE UNCHANGED limiterVars
  BY <1>1, <1>5 DEF limiterVars
<1>6. QED
  BY <1>2, <1>3, <1>4, <1>5 DEF LimiterNext

\* No window of window_seconds sees more than max_calls calls let through, for every number
\* of threads and whatever they do between their looks at the deque.
THEOREM RateHeld == LimiterSpec => []WindowBounded
<1>1. LimiterInv => WindowBounded
  BY DEF LimiterInv
<1>2. QED
  BY <1>1, LimiterStart, LimiterStep, PTL DEF LimiterSpec

\* The waits between two attempts of a call are whole numbers.
LEMMA PowersTyped == \A n \in Nat : 2 ^ n \in Nat
<1>1. ASSUME NEW n \in Nat
      PROVE  2 ^ n \in Nat
  <2>1. IsFiniteSet(1 .. n) /\ Cardinality(1 .. n) = n
    BY FS_Interval
  <2>2. IsFiniteSet(SUBSET (1 .. n)) /\ Cardinality(SUBSET (1 .. n)) = 2 ^ n
    BY <2>1, FS_SUBSET
  <2>3. QED
    BY <2>2, FS_CardinalityType
<1>2. QED
  BY <1>1

LEMMA LimiterLooks ==
    ASSUME LimiterTypeOK, NEW t \in Threads, Look(t)
    PROVE  LimiterTypeOK'
<1> DEFINE Ticks == 0 .. LimiterEnd
<1>1. rlNow \in Ticks /\ rlCalls \in Seq(Nat) /\ rlNow \in Nat /\ rlCalls \in Seq(Ticks) /\ Len(rlCalls) \in Nat
  BY LimiterAssumption DEF LimiterTypeOK
<1>2. PICK d \in 0 .. Len(rlCalls) :
           /\ Recent(rlCalls) \in Seq(Nat) /\ Len(Recent(rlCalls)) = Len(rlCalls) - d
           /\ \A i \in 1 .. Len(rlCalls) - d : Recent(rlCalls)[i] = rlCalls[i + d]
  BY <1>1, RecentCalls
<1>3. PICK calls \in Seq(Nat) : calls = Recent(rlCalls)
  BY <1>2
<1>4. \A i \in 1 .. Len(calls) : calls[i] \in Ticks
  <2>1. ASSUME NEW i \in 1 .. Len(calls)
        PROVE  calls[i] \in Ticks
    <3>1. i + d \in 1 .. Len(rlCalls) /\ i \in 1 .. Len(rlCalls) - d
      <4>1. i \in 1 .. Len(rlCalls) - d /\ d \in 0 .. Len(rlCalls) /\ Len(rlCalls) \in Nat
        <5> HIDE DEF Ticks
        <5> QED
          BY <1>1, <1>2, <1>3
      <4>2. QED
        BY <4>1
    <3>2. rlCalls[i + d] \in Ticks
      <4> HIDE DEF Ticks
      <4> QED
        BY <1>1, <3>1, ElementOfSeq
    <3>3. QED
      BY <1>2, <1>3, <3>1, <3>2
  <2>2. QED
    BY <2>1
<1>5. calls \in Seq(Ticks) /\ Len(calls) \in Nat /\ Len(calls) <= MaxCalls
  <2>1. calls = [i \in 1 .. Len(calls) |-> calls[i]] /\ Len(calls) \in Nat
    OBVIOUS
  <2>2. calls \in [1 .. Len(calls) -> Ticks]
    BY <1>4, <2>1
  <2>3. calls \in Seq(Ticks)
    <3> HIDE DEF Ticks
    <3> QED
      BY <2>1, <2>2, SeqDef
  <2>4. Len(calls) <= MaxCalls
    BY <1>1, <1>2, <1>3, LimiterAssumption DEF LimiterTypeOK
  <2>5. QED
    BY <2>1, <2>3, <2>4
<1>6. CASE Len(calls) < MaxCalls
  <2>1. /\ rlCalls' = Append(calls, rlNow) /\ rlGranted' = Append(rlGranted, rlNow) /\ rlNow' = rlNow
        /\ rlThread' = [rlThread EXCEPT ![t] = [pc |-> "calling", until |-> 0, attempt |-> 0]]
    BY <1>3, <1>6 DEF Look, SetThread
  <2>2. rlCalls' \in Seq(Ticks) /\ Len(rlCalls') = Len(calls) + 1
    BY <1>1, <1>5, <2>1, AppendProperties
  <2>3. rlGranted' \in Seq(Ticks)
    BY <1>1, <2>1, AppendProperties DEF LimiterTypeOK
  <2>4. [pc |-> "calling", until |-> 0, attempt |-> 0] \in Thread
    BY LimiterAssumption DEF Thread
  <2>5. rlThread' \in [Threads -> Thread]
    BY <2>1, <2>4 DEF LimiterTypeOK
  <2>6. QED
    BY <1>1, <1>5, <1>6, <2>1, <2>2, <2>3, <2>5, LimiterAssumption DEF LimiterTypeOK
<1>7. CASE ~(Len(calls) < MaxCalls)
  <2>1. /\ rlCalls' = calls /\ rlGranted' = rlGranted /\ rlNow' = rlNow
        /\ rlThread' = [rlThread EXCEPT ![t] = [pc |-> "waiting", until |-> rlNow + Nap(calls), attempt |-> 0]]
    BY <1>3, <1>7 DEF Look, SetThread
  <2>2. calls[1] \in Nat
    BY <1>5, <1>7, LimiterAssumption
  <2>3. Nap(calls) \in Nat
    BY <1>1, <2>2, LimiterAssumption DEF Nap, Least, Most
  <2>4. PICK until \in Nat : until = rlNow + Nap(calls)
    BY <1>1, <2>3
  <2>5. [pc |-> "waiting", until |-> until, attempt |-> 0] \in Thread
    BY LimiterAssumption DEF Thread
  <2>6. rlThread' \in [Threads -> Thread]
    BY <2>1, <2>4, <2>5 DEF LimiterTypeOK
  <2>7. QED
    BY <1>1, <1>5, <2>1, <2>6 DEF LimiterTypeOK
<1>8. QED
  BY <1>6, <1>7

\* The clock, the deque, the alarms and the history keep their types.
LEMMA LimiterTypes == LimiterSpec => []LimiterTypeOK
<1>1. LimiterInit => LimiterTypeOK
  <2>1. SUFFICES ASSUME LimiterInit
                 PROVE  LimiterTypeOK
    OBVIOUS
  <2>2. [pc |-> "ready", until |-> 0, attempt |-> 0] \in Thread
    BY LimiterAssumption DEF Thread
  <2>3. QED
    BY <2>1, <2>2, LimiterAssumption DEF LimiterInit, LimiterTypeOK
<1>2. LimiterTypeOK /\ [LimiterNext]_limiterVars => LimiterTypeOK'
  <2>1. SUFFICES ASSUME LimiterTypeOK, [LimiterNext]_limiterVars
                 PROVE  LimiterTypeOK'
    OBVIOUS
  <2>2. CASE Clock
    BY <2>1, <2>2, LimiterAssumption DEF Clock, LimiterTypeOK
  <2>3. ASSUME NEW t \in Threads, Ask(t)
        PROVE  LimiterTypeOK'
    <3>1. [pc |-> "waiting", until |-> rlNow, attempt |-> 0] \in Thread
      BY <2>1, LimiterAssumption DEF Thread, LimiterTypeOK
    <3>2. QED
      BY <2>1, <2>3, <3>1 DEF Ask, SetThread, LimiterTypeOK
  <2>4. ASSUME NEW t \in Threads, Call(t)
        PROVE  LimiterTypeOK'
    <3>1. PICK pc, until, attempt :
             /\ rlThread' = [rlThread EXCEPT ![t] = [pc |-> pc, until |-> until, attempt |-> attempt]]
             /\ pc \in {"ready", "calling"} /\ until \in Nat /\ attempt \in 0 .. MaxAttempts
      <4>1. rlThread[t].attempt \in 0 .. MaxAttempts
        BY <2>1 DEF LimiterTypeOK, Thread
      <4>2. PICK failures \in Nat \ {0} : failures = rlThread[t].attempt + 1
        BY <4>1, LimiterAssumption
      <4>3. rlNow + 2 ^ (failures - 1) \in Nat
        <5>1. failures - 1 \in Nat
          BY <4>2
        <5>2. PICK wait \in Nat : wait = 2 ^ (failures - 1)
          BY <5>1, PowersTyped
        <5>3. rlNow \in Nat
          BY <2>1, LimiterAssumption DEF LimiterTypeOK
        <5>4. QED
          BY <5>2, <5>3
      <4>4. CASE SetThread(t, "ready", 0, 0)
        <5>1. rlThread' = [rlThread EXCEPT ![t] = [pc |-> "ready", until |-> 0, attempt |-> 0]]
          BY <4>4 DEF SetThread
        <5>2. "ready" \in {"ready", "calling"} /\ 0 \in Nat /\ 0 \in 0 .. MaxAttempts
          BY LimiterAssumption
        <5>3. QED
          BY <5>1, <5>2
      <4>5. CASE failures < MaxAttempts /\ SetThread(t, "calling", rlNow + 2 ^ (failures - 1), failures)
        <5>1. PICK wake \in Nat : wake = rlNow + 2 ^ (failures - 1)
          BY <4>3
        <5>2. rlThread' = [rlThread EXCEPT ![t] = [pc |-> "calling", until |-> wake, attempt |-> failures]]
          BY <4>5, <5>1 DEF SetThread
        <5>3. failures \in 0 .. MaxAttempts
          BY <4>2, <4>5, LimiterAssumption
        <5>4. QED
          BY <5>1, <5>2, <5>3
      <4>6. QED
        BY <2>4, <4>2, <4>4, <4>5 DEF Call
    <3>2. [pc |-> pc, until |-> until, attempt |-> attempt] \in Thread
      BY <3>1 DEF Thread
    <3>3. QED
      BY <2>1, <2>4, <3>1, <3>2 DEF Call, LimiterTypeOK
  <2>5. CASE UNCHANGED limiterVars
    BY <2>1, <2>5 DEF limiterVars, LimiterTypeOK
  <2>6. QED
    BY <2>1, <2>2, <2>3, <2>4, <2>5, LimiterLooks DEF LimiterNext
<1>3. QED
  BY <1>1, <1>2, PTL DEF LimiterSpec

-----------------------------------------------------------------------------
(* The files of snapshots (Snapshots).                                       *)

\* What a job has of a ticker: a snapshot when it holds or gives one, its own or one that
\* was not too old; and what it fetched is lost only from a file that two were writing.
FileMeant(r, file) ==
    /\ r.pc \in {"open", "write", "rename", "served"} => r.got.kind = "whole"
    /\ r.pc \in {"open", "write", "rename"} => r.own
    /\ r.pc = "served" => r.own \/ r.age <= Ttl
    /\ r.pc \in {"todo", "live"} => ~r.own
    /\ r.pc = "failed" /\ r.own => file \in snRaced
    /\ r.got.kind = "whole" => r.got.at <= snNow

\* No snapshot is of a later hour.
InodesDated ==
    \A j \in FetchJobs, t \in FetchTickers :
        snInode[j][t].kind = "whole" => snInode[j][t].at <= snNow

FetchesMeant == \A j \in FetchJobs, t \in FetchTickers : FileMeant(snFetch[j][t], FileOf(j, t))

JobsOrdered ==
    \A j \in FetchJobs, t \in FetchTickers :
        /\ snJob[j].pc = "momentum" => snFetch[j][t].pc = "todo"
        /\ snJob[j].pc = "done" => snFetch[j][t].pc \in {"served", "failed"}

\* Who writes a file alone finds it under its temporary name.
TempThere ==
    \A j \in FetchJobs, t \in FetchTickers :
        Writing(j, t) => FileOf(j, t) \in snRaced \/ snTemp[FileOf(j, t)] # NoFile

WritersMet ==
    \A j, k \in FetchJobs, t \in FetchTickers :
        Writing(j, t) /\ Writing(k, t) /\ FileOf(j, t) = FileOf(k, t) =>
            j = k \/ FileOf(j, t) \in snRaced

SnapInv == FetchTypeOK /\ InodesDated /\ FetchesMeant /\ JobsOrdered /\ TempThere /\ WritersMet

LEMMA FetchParts ==
    ASSUME SnapInv, NEW j \in FetchJobs, NEW t \in FetchTickers
    PROVE  /\ snJob[j] \in Job /\ snFetch[j][t] \in Fetch /\ FileOf(j, t) \in Files
           /\ snFetch[j][t].got \in Contents /\ snInode[j][t] \in Contents
           /\ FileMeant(snFetch[j][t], FileOf(j, t))
<1>1. snJob[j] \in Job /\ snFetch[j][t] \in Fetch /\ snInode[j][t] \in Contents
  BY DEF SnapInv, FetchTypeOK
<1>2. snFetch[j][t].got \in Contents
  BY <1>1 DEF Fetch
<1>3. FileOf(j, t) \in Files
  BY <1>1 DEF FileOf, Files, Job
<1>4. QED
  BY <1>1, <1>2, <1>3 DEF SnapInv, FetchesMeant

\* Whole contents are snapshots.
LEMMA WholeIsSnapshot ==
    ASSUME NEW c \in Contents, c.kind = "whole"
    PROVE  c \in Snapshot /\ c.at \in Hours
BY DEF Contents, Snapshot, Nothing, Torn

LEMMA NowIsHour ==
    ASSUME SnapInv
    PROVE  snNow \in Hours /\ snNow \in Nat /\ Hours \subseteq Nat /\ 0 \in Hours
<1>1. 0 \in 0 .. FetchEnd
  BY FetchAssumption
<1>2. QED
  BY <1>1, FetchAssumption DEF SnapInv, FetchTypeOK, Hours

\* A step on one ticker of one job.
LEMMA OneFetch ==
    ASSUME SnapInv, NEW j \in FetchJobs, NEW t \in FetchTickers, NEW n \in Fetch, SetFetch(j, t, n)
    PROVE  /\ snFetch' \in [FetchJobs -> [FetchTickers -> Fetch]] /\ snFetch'[j][t] = n
           /\ \A k \in FetchJobs, u \in FetchTickers :
                  k # j \/ u # t => snFetch'[k][u] = snFetch[k][u]
<1>1. snFetch \in [FetchJobs -> [FetchTickers -> Fetch]]
  BY DEF SnapInv, FetchTypeOK
<1>2. snFetch' = [snFetch EXCEPT ![j] = [snFetch[j] EXCEPT ![t] = n]]
  BY <1>1 DEF SetFetch
<1>3. [snFetch[j] EXCEPT ![t] = n] \in [FetchTickers -> Fetch]
  BY <1>1
<1>4. QED
  BY <1>1, <1>2, <1>3

\* The hour passes.
LEMMA HourPasses == SnapInv /\ Hour => SnapInv'
<1> SUFFICES ASSUME SnapInv, Hour
             PROVE  SnapInv'
  OBVIOUS
<1>1. /\ snNow' = snNow + 1 /\ snNow' \in Hours
      /\ UNCHANGED <<snJob, snFetch, snInode, snTemp, snFile, snRaced>>
  BY NowIsHour, FetchAssumption DEF Hour, Hours
<1>2. \A h \in Hours : h <= snNow => h <= snNow'
  BY <1>1, NowIsHour
<1>3. InodesDated'
  <2>1. \A k \in FetchJobs, u \in FetchTickers :
            snInode[k][u].kind = "whole" => snInode[k][u].at \in Hours /\ snInode[k][u].at <= snNow
    BY FetchParts, WholeIsSnapshot DEF SnapInv, InodesDated
  <2>2. QED
    BY <1>1, <1>2, <2>1 DEF InodesDated
<1>4. FetchesMeant'
  <2> SUFFICES ASSUME NEW k \in FetchJobs, NEW u \in FetchTickers
               PROVE  FileMeant(snFetch[k][u], FileOf(k, u))'
    BY DEF FetchesMeant
  <2>1. FileMeant(snFetch[k][u], FileOf(k, u))
    BY FetchParts
  <2>2. snFetch[k][u].got.kind = "whole" => snFetch[k][u].got.at \in Hours
    BY FetchParts, WholeIsSnapshot
  <2>3. QED
    BY <1>1, <1>2, <2>1, <2>2 DEF FileMeant, FileOf
<1>5. QED
  BY <1>1, <1>3, <1>4 DEF SnapInv, FetchTypeOK, JobsOrdered, TempThere, WritersMet, Writing, FileOf

\* A job passes from one stage to the next; it enters the fetching from the momentum only.
LEMMA JobPasses ==
    ASSUME SnapInv, NEW j \in FetchJobs, NEW pc \in {"fetch", "done", "raised", "crashed"},
           snJob' = [snJob EXCEPT ![j].pc = pc],
           pc = "fetch" => snJob[j].pc = "momentum",
           pc = "done" => \A t \in FetchTickers : snFetch[j][t].pc \in {"served", "failed"},
           UNCHANGED <<snNow, snFetch, snInode, snTemp, snFile, snRaced>>
    PROVE  SnapInv'
<1>1. PICK job \in Job : job = [snJob[j] EXCEPT !.pc = pc] /\ job.pc = pc /\ job.provider = snJob[j].provider
  <2>1. snJob[j] \in Job
    BY DEF SnapInv, FetchTypeOK
  <2>2. PICK job : job = [snJob[j] EXCEPT !.pc = pc]
    OBVIOUS
  <2>3. job \in Job /\ job.pc = pc /\ job.provider = snJob[j].provider
    BY <2>1, <2>2 DEF Job
  <2>4. QED
    BY <2>2, <2>3
<1>2. snJob' \in [FetchJobs -> Job] /\ snJob'[j] = job /\ \A k \in FetchJobs : k # j => snJob'[k] = snJob[k]
  BY <1>1 DEF SnapInv, FetchTypeOK
<1>3. \A k \in FetchJobs, t \in FetchTickers : FileOf(k, t)' = FileOf(k, t)
  BY <1>1, <1>2 DEF FileOf
<1>4. \A k \in FetchJobs, t \in FetchTickers : Writing(k, t)' => Writing(k, t)
  BY <1>1, <1>2 DEF SnapInv, JobsOrdered, Writing
<1>5. FetchTypeOK'
  BY <1>2 DEF SnapInv, FetchTypeOK
<1>6. JobsOrdered'
  BY <1>1, <1>2 DEF SnapInv, JobsOrdered
<1>7. FetchesMeant' /\ InodesDated'
  BY <1>3 DEF SnapInv, FetchesMeant, FileMeant, InodesDated
<1>8. TempThere' /\ WritersMet'
  BY <1>3, <1>4 DEF SnapInv, TempThere, WritersMet
<1>9. QED
  BY <1>5, <1>6, <1>7, <1>8 DEF SnapInv

\* One ticker of a job that fetches is handled, and nothing is written.
LEMMA FetchPasses ==
    ASSUME SnapInv, NEW j \in FetchJobs, NEW t \in FetchTickers, NEW n \in Fetch, SetFetch(j, t, n),
           snJob[j].pc = "fetch", n.pc \notin {"write", "rename"}, FileMeant(n, FileOf(j, t)),
           UNCHANGED <<snNow, snJob, snInode, snTemp, snFile, snRaced>>
    PROVE  SnapInv'
<1>1. /\ snFetch' \in [FetchJobs -> [FetchTickers -> Fetch]] /\ snFetch'[j][t] = n
      /\ \A k \in FetchJobs, u \in FetchTickers : k # j \/ u # t => snFetch'[k][u] = snFetch[k][u]
  BY OneFetch
<1>2. \A k \in FetchJobs, u \in FetchTickers : FileOf(k, u)' = FileOf(k, u)
  BY DEF FileOf
<1>3. \A k \in FetchJobs, u \in FetchTickers : Writing(k, u)' => Writing(k, u)
  BY <1>1 DEF Writing
<1>4. FetchTypeOK' /\ InodesDated'
  BY <1>1 DEF SnapInv, FetchTypeOK, InodesDated
<1>5. JobsOrdered'
  BY <1>1 DEF SnapInv, JobsOrdered
<1>6. FetchesMeant'
  BY <1>1, <1>2 DEF SnapInv, FetchesMeant, FileMeant
<1>7. TempThere' /\ WritersMet'
  BY <1>2, <1>3 DEF SnapInv, TempThere, WritersMet
<1>8. QED
  BY <1>4, <1>5, <1>6, <1>7 DEF SnapInv

LEMMA LoadKeeps ==
    ASSUME SnapInv, NEW j \in FetchJobs, NEW t \in FetchTickers, LoadFile(j, t)
    PROVE  SnapInv'
<1> DEFINE file == snFile[FileOf(j, t)]
<1>1. PICK content : content = IF file = NoFile THEN Nothing ELSE snInode[file][t]
  OBVIOUS
<1>2. /\ snJob[j].pc = "fetch"
      /\ SetFetch(j, t, IF Usable(j, content)
                        THEN [NewFetch EXCEPT !.pc = "served", !.got = content, !.age = snNow - content.at]
                        ELSE [NewFetch EXCEPT !.pc = "live"])
      /\ UNCHANGED <<snNow, snJob, snInode, snTemp, snFile, snRaced>>
  BY <1>1 DEF LoadFile, MayFetch
<1>3. CASE Usable(j, content)
  <2>1. content.kind = "whole" /\ snNow - content.at <= Ttl
    BY <1>3 DEF Usable
  <2>2. file \in FetchJobs /\ content = snInode[file][t]
    <3>1. file # NoFile
      BY <1>1, <2>1 DEF Nothing
    <3>2. file \in FetchJobs \union {NoFile}
      BY FetchParts DEF SnapInv, FetchTypeOK
    <3>3. QED
      BY <1>1, <3>1, <3>2
  <2>3. content \in Contents /\ content.at \in Hours /\ content.at <= snNow
    BY <2>1, <2>2, FetchParts, WholeIsSnapshot DEF SnapInv, InodesDated
  <2>4. PICK age \in Hours : age = snNow - content.at
    <3>1. snNow - content.at \in 0 .. FetchEnd
      BY <2>3, NowIsHour, FetchAssumption DEF Hours
    <3>2. QED
      BY <3>1 DEF Hours
  <2>5. PICK n : n = [NewFetch EXCEPT !.pc = "served", !.got = content, !.age = age]
    OBVIOUS
  <2>6. n \in Fetch /\ n.pc = "served" /\ n.got = content /\ n.age = age
    BY <2>3, <2>5 DEF NewFetch, Fetch
  <2>7. SetFetch(j, t, n)
    BY <1>2, <1>3, <2>4, <2>5
  <2>8. FileMeant(n, FileOf(j, t))
    BY <2>1, <2>3, <2>4, <2>6 DEF FileMeant
  <2>9. QED
    BY <1>2, <2>6, <2>7, <2>8, FetchPasses
<1>4. CASE ~Usable(j, content)
  <2>1. PICK n : n = [NewFetch EXCEPT !.pc = "live"]
    OBVIOUS
  <2>2. n \in Fetch /\ n.pc = "live" /\ n.got.kind = "empty" /\ n.own = FALSE
    BY <2>1, NowIsHour DEF NewFetch, Fetch, Nothing, Contents
  <2>3. SetFetch(j, t, n)
    BY <1>2, <1>4, <2>1
  <2>4. FileMeant(n, FileOf(j, t))
    BY <2>2 DEF FileMeant
  <2>5. QED
    BY <1>2, <2>2, <2>3, <2>4, FetchPasses
<1>5. QED
  BY <1>3, <1>4

LEMMA LiveKeeps ==
    ASSUME SnapInv, NEW j \in FetchJobs, NEW t \in FetchTickers, FetchLive(j, t)
    PROVE  SnapInv'
<1>1. PICK found \in BOOLEAN : Fetched(j, t, found)
  BY DEF FetchLive, YahooLive, AlphaLive
<1>2. /\ snJob[j].pc = "fetch" /\ snFetch[j][t].pc = "live"
      /\ UNCHANGED <<snNow, snJob, snInode, snTemp, snFile, snRaced>>
  BY DEF FetchLive, MayFetch
<1>3. /\ snFetch[j][t] \in Fetch /\ snJob[j] \in Job
      /\ FileMeant(snFetch[j][t], FileOf(j, t)) /\ ~snFetch[j][t].own
  BY <1>2, FetchParts DEF FileMeant
<1>4. CASE found
  <2>1. PICK pc \in {"open", "served"} : pc = IF snJob[j].use THEN "open" ELSE "served"
    OBVIOUS
  <2>2. PICK n : n = [snFetch[j][t] EXCEPT !.pc = pc, !.own = TRUE, !.got = [kind |-> "whole", at |-> snNow]]
    OBVIOUS
  <2>3. [kind |-> "whole", at |-> snNow] \in Contents
    BY NowIsHour DEF Contents, Snapshot
  <2>4. n \in Fetch /\ n.pc = pc /\ n.own = TRUE /\ n.got = [kind |-> "whole", at |-> snNow]
    BY <1>3, <2>2, <2>3 DEF Fetch
  <2>5. SetFetch(j, t, n)
    BY <1>1, <1>4, <2>1, <2>2 DEF Fetched
  <2>6. FileMeant(n, FileOf(j, t))
    BY <2>4, NowIsHour DEF FileMeant
  <2>7. QED
    BY <1>2, <2>4, <2>5, <2>6, FetchPasses
<1>5. CASE ~found
  <2>1. PICK n : n = [snFetch[j][t] EXCEPT !.pc = "failed"]
    OBVIOUS
  <2>2. n \in Fetch /\ n.pc = "failed" /\ n.got = snFetch[j][t].got /\ n.own = snFetch[j][t].own
    BY <1>3, <2>1 DEF Fetch
  <2>3. SetFetch(j, t, n)
    BY <1>1, <1>5, <2>1 DEF Fetched
  <2>4. FileMeant(n, FileOf(j, t))
    BY <1>3, <2>2 DEF FileMeant
  <2>5. QED
    BY <1>2, <2>2, <2>3, <2>4, FetchPasses
<1>6. QED
  BY <1>4, <1>5

\* A job opens the temporary file: it is there now, and others that write it are met.
LEMMA OpenKeeps ==
    ASSUME SnapInv, NEW j \in FetchJobs, NEW t \in FetchTickers, OpenTemp(j, t)
    PROVE  SnapInv'
<1>1. PICK f \in Files : f = FileOf(j, t)
  BY FetchParts
<1>2. PICK inode \in FetchJobs : inode = IF snTemp[f] = NoFile THEN j ELSE snTemp[f]
  BY DEF SnapInv, FetchTypeOK
<1>3. PICK n : n = [snFetch[j][t] EXCEPT !.pc = "write", !.handle = inode, !.got.at = snNow]
  OBVIOUS
<1>4. /\ snJob[j].pc = "fetch" /\ snFetch[j][t].pc = "open"
      /\ snTemp' = [snTemp EXCEPT ![f] = inode]
      /\ snInode' = [snInode EXCEPT ![inode][t] = Nothing]
      /\ SetFetch(j, t, n)
      /\ snRaced' = snRaced \union {g \in {f} : \E k \in FetchJobs \ {j} : FileOf(k, t) = f /\ Writing(k, t)}
      /\ UNCHANGED <<snNow, snJob, snFile>>
  BY <1>1, <1>2, <1>3 DEF OpenTemp
<1>5. PICK got \in Contents : got = [snFetch[j][t].got EXCEPT !.at = snNow] /\ got.kind = "whole" /\ got.at = snNow
  <2>1. snFetch[j][t].got \in Snapshot
    BY <1>4, FetchParts, WholeIsSnapshot DEF FileMeant
  <2>2. PICK got : got = [snFetch[j][t].got EXCEPT !.at = snNow]
    OBVIOUS
  <2>3. got \in Snapshot /\ got.kind = "whole" /\ got.at = snNow
    BY <2>1, <2>2, NowIsHour DEF Snapshot
  <2>4. QED
    BY <2>2, <2>3 DEF Contents
<1>6. n \in Fetch /\ n.pc = "write" /\ n.got = got /\ n.own = snFetch[j][t].own
  BY <1>3, <1>5, FetchParts DEF Fetch
<1>7. /\ snFetch' \in [FetchJobs -> [FetchTickers -> Fetch]] /\ snFetch'[j][t] = n
      /\ \A k \in FetchJobs, u \in FetchTickers : k # j \/ u # t => snFetch'[k][u] = snFetch[k][u]
  BY <1>4, <1>6, OneFetch
<1>8. /\ snInode' \in [FetchJobs -> [FetchTickers -> Contents]]
      /\ \A k \in FetchJobs, u \in FetchTickers : snInode'[k][u] = snInode[k][u] \/ snInode'[k][u] = Nothing
  <2>1. snInode' = [snInode EXCEPT ![inode] = [snInode[inode] EXCEPT ![t] = Nothing]]
    BY <1>4 DEF SnapInv, FetchTypeOK
  <2>2. Nothing \in Contents
    BY DEF Contents
  <2>3. QED
    BY <2>1, <2>2 DEF SnapInv, FetchTypeOK
<1>9. /\ snTemp' \in [Files -> FetchJobs \union {NoFile}] /\ snTemp'[f] # NoFile
      /\ \A g \in Files : snTemp[g] # NoFile => snTemp'[g] # NoFile
  BY <1>2, <1>4, FetchAssumption DEF SnapInv, FetchTypeOK
<1>10. snRaced \subseteq snRaced' /\ snRaced' \subseteq Files
  BY <1>1, <1>4 DEF SnapInv, FetchTypeOK
<1>11. \A k \in FetchJobs, u \in FetchTickers : FileOf(k, u)' = FileOf(k, u) /\ FileOf(k, u) \in Files
  BY <1>4, FetchParts DEF FileOf
<1>12. \A k \in FetchJobs, u \in FetchTickers : Writing(k, u)' => Writing(k, u) \/ (k = j /\ u = t)
  BY <1>4, <1>7 DEF Writing
<1>13. FetchTypeOK'
  BY <1>4, <1>7, <1>8, <1>9, <1>10 DEF SnapInv, FetchTypeOK
<1>14. InodesDated'
  BY <1>4, <1>8 DEF SnapInv, InodesDated, Nothing
<1>15. FetchesMeant'
  <2> SUFFICES ASSUME NEW k \in FetchJobs, NEW u \in FetchTickers
               PROVE  FileMeant(snFetch[k][u], FileOf(k, u))'
    BY DEF FetchesMeant
  <2>1. CASE k = j /\ u = t
    <3>1. n.own
      BY <1>4, <1>6, FetchParts DEF FileMeant
    <3>2. FileMeant(n, f)'
      BY <1>4, <1>5, <1>6, <3>1, NowIsHour DEF FileMeant
    <3>3. QED
      BY <1>1, <1>7, <1>11, <2>1, <3>2
  <2>2. CASE k # j \/ u # t
    BY <1>4, <1>7, <1>10, <1>11, <2>2, FetchParts DEF FileMeant
  <2>3. QED
    BY <2>1, <2>2
<1>16. JobsOrdered'
  BY <1>4, <1>7 DEF SnapInv, JobsOrdered
<1>17. TempThere'
  <2> SUFFICES ASSUME NEW k \in FetchJobs, NEW u \in FetchTickers, Writing(k, u)'
               PROVE  FileOf(k, u) \in snRaced' \/ snTemp'[FileOf(k, u)] # NoFile
    BY <1>11 DEF TempThere
  <2>1. QED
    BY <1>1, <1>9, <1>10, <1>11, <1>12 DEF SnapInv, TempThere
<1>18. WritersMet'
  <2> SUFFICES ASSUME NEW k \in FetchJobs, NEW l \in FetchJobs, NEW u \in FetchTickers, k # l,
                      Writing(k, u)', Writing(l, u)', FileOf(k, u) = FileOf(l, u)
               PROVE  FileOf(k, u) \in snRaced'
    BY <1>11 DEF WritersMet
  <2>1. CASE Writing(k, u) /\ Writing(l, u)
    BY <1>10, <2>1 DEF SnapInv, WritersMet
  <2>2. CASE k = j /\ u = t /\ Writing(l, u)
    BY <1>1, <1>4, <2>2
  <2>3. CASE l = j /\ u = t /\ Writing(k, u)
    BY <1>1, <1>4, <2>3
  <2>4. QED
    BY <1>12, <2>1, <2>2, <2>3
<1>19. QED
  BY <1>13, <1>14, <1>15, <1>16, <1>17, <1>18 DEF SnapInv

LEMMA WriteKeeps ==
    ASSUME SnapInv, NEW j \in FetchJobs, NEW t \in FetchTickers, WriteTemp(j, t)
    PROVE  SnapInv'
<1>1. PICK inode : inode = snFetch[j][t].handle
  OBVIOUS
<1>2. PICK content \in {snFetch[j][t].got, Torn} : snInode' = [snInode EXCEPT ![inode][t] = content]
  BY <1>1 DEF WriteTemp
<1>3. PICK n : n = [snFetch[j][t] EXCEPT !.pc = "rename"]
  OBVIOUS
<1>4. /\ snJob[j].pc = "fetch" /\ snFetch[j][t].pc = "write" /\ SetFetch(j, t, n)
      /\ UNCHANGED <<snNow, snJob, snTemp, snFile, snRaced>>
  BY <1>3 DEF WriteTemp
<1>5. /\ n \in Fetch /\ n.pc = "rename" /\ n.got = snFetch[j][t].got /\ n.own = snFetch[j][t].own
      /\ FileMeant(snFetch[j][t], FileOf(j, t))
  BY <1>3, FetchParts DEF Fetch
<1>6. /\ snFetch' \in [FetchJobs -> [FetchTickers -> Fetch]] /\ snFetch'[j][t] = n
      /\ \A k \in FetchJobs, u \in FetchTickers : k # j \/ u # t => snFetch'[k][u] = snFetch[k][u]
  BY <1>4, <1>5, OneFetch
<1>7. content \in Contents /\ (content.kind = "whole" => content.at <= snNow)
  BY <1>2, <1>5, FetchParts DEF Contents, Torn, FileMeant
<1>8. /\ snInode' \in [FetchJobs -> [FetchTickers -> Contents]]
      /\ \A k \in FetchJobs, u \in FetchTickers : snInode'[k][u] = snInode[k][u] \/ snInode'[k][u] = content
  <2>1. snInode' = [snInode EXCEPT ![inode] = [snInode[inode] EXCEPT ![t] = content]]
    BY <1>2
  <2>2. snInode \in [FetchJobs -> [FetchTickers -> Contents]]
    BY DEF SnapInv, FetchTypeOK
  <2>3. CASE inode \in FetchJobs
    BY <1>7, <2>1, <2>2, <2>3
  <2>4. CASE inode \notin FetchJobs
    BY <2>1, <2>2, <2>4
  <2>5. QED
    BY <2>3, <2>4
<1>9. \A k \in FetchJobs, u \in FetchTickers : FileOf(k, u)' = FileOf(k, u)
  BY <1>4 DEF FileOf
<1>10. \A k \in FetchJobs, u \in FetchTickers : Writing(k, u)' => Writing(k, u)
  BY <1>4, <1>6 DEF Writing
<1>11. FetchTypeOK' /\ InodesDated'
  BY <1>4, <1>6, <1>7, <1>8 DEF SnapInv, FetchTypeOK, InodesDated
<1>12. FetchesMeant'
  <2>1. FileMeant(n, FileOf(j, t))
    BY <1>4, <1>5 DEF FileMeant
  <2>2. QED
    BY <1>4, <1>6, <1>9, <2>1 DEF SnapInv, FetchesMeant, FileMeant
<1>13. JobsOrdered'
  BY <1>4, <1>6 DEF SnapInv, JobsOrdered
<1>14. TempThere' /\ WritersMet'
  BY <1>4, <1>9, <1>10 DEF SnapInv, TempThere, WritersMet
<1>15. QED
  BY <1>11, <1>12, <1>13, <1>14 DEF SnapInv

\* A rename takes the temporary name from every other that writes the file: they were met.
LEMMA RenameKeeps ==
    ASSUME SnapInv, NEW j \in FetchJobs, NEW t \in FetchTickers, RenameTemp(j, t)
    PROVE  SnapInv'
<1>1. PICK f \in Files : f = FileOf(j, t)
  BY FetchParts
<1>2. PICK n : n = [snFetch[j][t] EXCEPT !.pc = IF snTemp[f] = NoFile THEN "failed" ELSE "served", !.handle = NoFile]
  OBVIOUS
<1>3. /\ snJob[j].pc = "fetch" /\ snFetch[j][t].pc = "rename" /\ SetFetch(j, t, n)
      /\ snTemp' = IF snTemp[f] = NoFile THEN snTemp ELSE [snTemp EXCEPT ![f] = NoFile]
      /\ snFile' = IF snTemp[f] = NoFile THEN snFile ELSE [snFile EXCEPT ![f] = snTemp[f]]
      /\ UNCHANGED <<snNow, snJob, snInode, snRaced>>
  BY <1>1, <1>2 DEF RenameTemp
<1>4. /\ n \in Fetch /\ n.pc = IF snTemp[f] = NoFile THEN "failed" ELSE "served"
      /\ n.got = snFetch[j][t].got /\ n.own = snFetch[j][t].own
      /\ FileMeant(snFetch[j][t], FileOf(j, t))
  BY <1>2, FetchParts DEF Fetch
<1>5. /\ snFetch' \in [FetchJobs -> [FetchTickers -> Fetch]] /\ snFetch'[j][t] = n
      /\ \A k \in FetchJobs, u \in FetchTickers : k # j \/ u # t => snFetch'[k][u] = snFetch[k][u]
  BY <1>3, <1>4, OneFetch
<1>6. \A k \in FetchJobs, u \in FetchTickers : FileOf(k, u)' = FileOf(k, u) /\ FileOf(k, u) \in Files
  BY <1>3, FetchParts DEF FileOf
<1>7. \A k \in FetchJobs, u \in FetchTickers : Writing(k, u)' => Writing(k, u) /\ (k # j \/ u # t)
  BY <1>3, <1>4, <1>5 DEF Writing
<1>8. Writing(j, t)
  BY <1>3 DEF Writing
<1>9. FetchTypeOK' /\ InodesDated'
  BY <1>1, <1>3, <1>5 DEF SnapInv, FetchTypeOK, InodesDated
<1>10. FetchesMeant'
  <2>1. snTemp[f] = NoFile => f \in snRaced
    BY <1>1, <1>8 DEF SnapInv, TempThere
  <2>2. FileMeant(n, FileOf(j, t))
    BY <1>1, <1>3, <1>4, <2>1 DEF FileMeant
  <2>3. QED
    BY <1>3, <1>5, <1>6, <2>2 DEF SnapInv, FetchesMeant, FileMeant
<1>11. JobsOrdered'
  BY <1>3, <1>5 DEF SnapInv, JobsOrdered
<1>12. TempThere'
  <2> SUFFICES ASSUME NEW k \in FetchJobs, NEW u \in FetchTickers, Writing(k, u)', FileOf(k, u) \notin snRaced
               PROVE  snTemp'[FileOf(k, u)] # NoFile
    BY <1>3, <1>6 DEF TempThere
  <2>1. snTemp[FileOf(k, u)] # NoFile
    BY <1>7 DEF SnapInv, TempThere
  <2>2. FileOf(k, u) # f
    <3>1. SUFFICES ASSUME FileOf(k, u) = f
                   PROVE  FALSE
      OBVIOUS
    <3>2. u = t
      BY <1>1, <3>1 DEF FileOf
    <3>3. QED
      BY <1>1, <1>7, <1>8, <3>1, <3>2 DEF SnapInv, WritersMet
  <2>3. QED
    BY <1>3, <1>6, <2>1, <2>2 DEF SnapInv, FetchTypeOK
<1>13. WritersMet'
  BY <1>3, <1>6, <1>7 DEF SnapInv, WritersMet
<1>14. QED
  BY <1>9, <1>10, <1>11, <1>12, <1>13 DEF SnapInv

LEMMA SnapStep ==
    ASSUME SnapInv, NEW j \in FetchJobs, Momentum(j) \/ Collect(j) \/ Crash(j)
    PROVE  SnapInv'
<1>1. ASSUME Momentum(j)
      PROVE  \E pc \in {"fetch", "raised"} : snJob' = [snJob EXCEPT ![j].pc = pc]
  <2>1. CASE YahooMomentum(j)
    BY <2>1 DEF YahooMomentum
  <2>2. CASE AlphaMomentum(j)
    <3>1. PICK replies \in [FetchTickers -> Replies] :
               snJob' = [snJob EXCEPT ![j].pc = IF \A t \in FetchTickers : Accepted(replies[t])
                                                THEN "fetch" ELSE "raised"]
      BY <2>2 DEF AlphaMomentum
    <3>2. CASE \A t \in FetchTickers : Accepted(replies[t])
      BY <3>1, <3>2
    <3>3. CASE ~\A t \in FetchTickers : Accepted(replies[t])
      BY <3>1, <3>3
    <3>4. QED
      BY <3>2, <3>3
  <2>3. QED
    BY <1>1, <2>1, <2>2 DEF Momentum
<1>2. CASE Momentum(j)
  <2>1. PICK pc \in {"fetch", "raised"} : snJob' = [snJob EXCEPT ![j].pc = pc]
    BY <1>1, <1>2
  <2>2. snJob[j].pc = "momentum" /\ UNCHANGED <<snNow, snFetch, snInode, snTemp, snFile, snRaced>>
    BY <1>2 DEF Momentum
  <2>3. QED
    BY <2>1, <2>2, JobPasses
<1>3. CASE Collect(j)
  <2>1. PICK pc \in {"done", "raised"} : pc = IF Served(j) = {} THEN "raised" ELSE "done"
    OBVIOUS
  <2>2. /\ snJob' = [snJob EXCEPT ![j].pc = pc]
        /\ \A t \in FetchTickers : snFetch[j][t].pc \in {"served", "failed"}
        /\ UNCHANGED <<snNow, snFetch, snInode, snTemp, snFile, snRaced>>
    BY <1>3, <2>1 DEF Collect
  <2>3. QED
    BY <2>1, <2>2, JobPasses
<1>4. CASE Crash(j)
  BY <1>4, JobPasses DEF Crash
<1>5. QED
  BY <1>2, <1>3, <1>4

LEMMA SnapHolds == FetchSpec => []SnapInv
<1>1. FetchInit => SnapInv
  <2> SUFFICES ASSUME FetchInit
               PROVE  SnapInv
    OBVIOUS
  <2>1. 0 \in Hours
    BY FetchAssumption DEF Hours
  <2>2. Nothing \in Contents /\ Nothing.kind = "empty"
    BY DEF Nothing, Contents
  <2>3. NewFetch \in Fetch /\ NewFetch.pc = "todo" /\ NewFetch.own = FALSE /\ NewFetch.got.kind = "empty"
    BY <2>1, <2>2 DEF NewFetch, Fetch
  <2>4. /\ snJob \in [FetchJobs -> Job] /\ \A j \in FetchJobs : snJob[j].pc = "momentum"
        /\ snNow = 0
        /\ \A j \in FetchJobs, t \in FetchTickers : snFetch[j][t] = NewFetch /\ snInode[j][t] = Nothing
    BY DEF FetchInit
  <2>5. FetchTypeOK
    BY <2>1, <2>2, <2>3, <2>4 DEF FetchInit, FetchTypeOK
  <2>6. InodesDated /\ FetchesMeant
    BY <2>2, <2>3, <2>4 DEF InodesDated, FetchesMeant, FileMeant
  <2>7. JobsOrdered /\ TempThere /\ WritersMet
    BY <2>3, <2>4 DEF JobsOrdered, TempThere, WritersMet, Writing
  <2>8. QED
    BY <2>5, <2>6, <2>7 DEF SnapInv
<1>2. SnapInv /\ [FetchNext]_fetchVars => SnapInv'
  <2> SUFFICES ASSUME SnapInv, [FetchNext]_fetchVars
               PROVE  SnapInv'
    OBVIOUS
  <2>1. CASE UNCHANGED fetchVars
    BY <2>1 DEF fetchVars, SnapInv, FetchTypeOK, InodesDated, FetchesMeant, FileMeant, JobsOrdered,
                TempThere, WritersMet, Writing, FileOf
  <2>2. CASE FetchNext
    BY <2>2, HourPasses, SnapStep, LoadKeeps, LiveKeeps, OpenKeeps, WriteKeeps, RenameKeeps DEF FetchNext
  <2>3. QED
    BY <2>1, <2>2
<1>3. QED
  BY <1>1, <1>2, PTL DEF FetchSpec

\* The variables keep their types: what a file says of its age is never of a later hour.
THEOREM FetchTypes == FetchSpec => []FetchTypeOK
<1>1. SnapInv => FetchTypeOK
  BY DEF SnapInv
<1>2. QED
  BY <1>1, SnapHolds, PTL

\* What a job returns is complete, its own or not too old; and what it fetched is missing
\* only if another process was writing its file at the time.
THEOREM SnapshotsHold == FetchSpec => []SnapshotsAccounted
<1>1. SnapInv => SnapshotsAccounted
  <2> SUFFICES ASSUME SnapInv, NEW j \in FetchJobs, snJob[j].pc = "done", NEW t \in FetchTickers
               PROVE  /\ snFetch[j][t].pc = "served" =>
                             /\ snFetch[j][t].got.kind = "whole"
                             /\ snFetch[j][t].own \/ snFetch[j][t].age <= Ttl
                      /\ snFetch[j][t].pc # "served" /\ snFetch[j][t].own => FileOf(j, t) \in snRaced
    BY DEF SnapshotsAccounted, Served, Missing
  <2>1. FileMeant(snFetch[j][t], FileOf(j, t)) /\ snFetch[j][t].pc \in {"served", "failed"}
    BY FetchParts DEF SnapInv, JobsOrdered
  <2>2. QED
    BY <2>1 DEF FileMeant
<1>2. QED
  BY <1>1, SnapHolds, PTL

-----------------------------------------------------------------------------
(* The run of a backtest (BacktestRun).                                     *)

\* The attempt no longer writes.
Over(a) == btTry[a].pc \in {"finish", "done", "failed"}

OverAttempts == {a \in Attempts : Over(a)}

\* The providers whose data an attempt has used are what it says of them.
AttemptOK(a) ==
    /\ At(a, "load") \/ At(a, "build") => btOrigins[a] = {} /\ ~btTry[a].fallbackUsed
    /\ ~Over(a) /\ ~At(a, "load") =>
           /\ btTry[a].config = ProviderConfig(btRequest)
           /\ btTry[a].fallbackUsed <=> btTry[a].config.fallback \in btOrigins[a]
           /\ ~btTry[a].fallbackUsed => /\ btOrigins[a] \subseteq {btTry[a].config.provider}
                                        /\ btTry[a].resolved = btTry[a].config.provider
    /\ ~Over(a) /\ btTry[a].pc \notin {"load", "build", "prices"} => btOrigins[a] # {}

\* What a transaction has inserted at each step of it.
InsertedOK(a) ==
    /\ btTry[a].pc \notin {"insert", "save"} => btTx[a].inserted = {}
    /\ At(a, "insert") => btTx[a].inserted = IF btTx[a].table = "points" THEN {} ELSE {"points"}
    /\ At(a, "save") => btTx[a].inserted = RowsOf(a)

\* What a transaction has deleted: rows of attempts that are over; all of the equity curve
\* before it adds one; and, if that was the run's present curve, the trades as well.
DeletedOK(a) ==
    /\ \A n \in Tables : btTx[a].deleted[n] \subseteq OverAttempts
    /\ "points" \in btTx[a].inserted => btRows["points"] \subseteq btTx[a].deleted["points"]
    /\ btRun.by \in btTx[a].deleted["points"] =>
           /\ At(a, "lock") /\ btTx[a].table = "trades" => btRows["trades"] \subseteq btTx[a].seen
           /\ At(a, "insert") \/ At(a, "save") => btRows["trades"] \subseteq btTx[a].deleted["trades"]

\* Two transactions never both hold a curve.
OneCurve ==
    \A a, b \in Attempts :
        "points" \in btTx[a].inserted /\ "points" \in btTx[b].inserted => a = b

SavedOver == btRun.by # Unsaved => btRun.by \in OverAttempts

Launched == ProviderConfig(btRequest) = ProviderConfig(Recorded(btAsked))

BacktestInv ==
    /\ BacktestTypeOK
    /\ \A a \in Attempts : AttemptOK(a) /\ InsertedOK(a) /\ DeletedOK(a)
    /\ OneCurve /\ SavedOver /\ Launched
    /\ RunIsOneAttempts

-----------------------------------------------------------------------------
LEMMA Domains ==
    /\ Tables = {"points", "trades"} /\ Unsaved \notin Attempts
    /\ NoProvider \notin Providers /\ DefaultProvider \in Providers
    /\ DefaultFallback \in Providers \union {NoProvider}
BY BacktestAssumption DEF Tables

LEMMA ConfigTyped ==
    ASSUME NEW request \in Requests
    PROVE  ProviderConfig(request) \in Names
<1>1. /\ request.provider \in Providers \union {NoProvider}
      /\ request.fallback \in Providers \union {NoProvider}
  BY DEF Requests
<1>2. OrDefault(request.provider, DefaultProvider) \in Providers
  BY <1>1, Domains DEF OrDefault
<1>3. OrDefault(request.fallback, DefaultFallback) \in Providers \union {NoProvider}
  BY <1>1, Domains DEF OrDefault
<1>4. QED
  BY <1>2, <1>3, Domains DEF ProviderConfig, Names

LEMMA NamesAreRequests == Names \subseteq Requests
BY DEF Names, Requests

\* Serializing parsed names changes nothing.
LEMMA SerializedSame ==
    ASSUME NEW config \in Names
    PROVE  Serialized(config) = config
<1>1. config.fallback # config.provider /\ config \in [provider : Providers, fallback : Providers \union {NoProvider}]
  BY DEF Names
<1>2. Serialized(config) = [config EXCEPT !.fallback = config.fallback]
  BY <1>1 DEF Serialized
<1>3. QED
  BY <1>1, <1>2

LEMMA RecordedTyped ==
    ASSUME NEW request \in Requests
    PROVE  Recorded(request) \in Names /\ Recorded(request) = ProviderConfig(request)
BY ConfigTyped, SerializedSame DEF Recorded

\* Parsing what was parsed once: the default fallback comes back, unless it is the provider.
LEMMA ConfigTwice ==
    ASSUME NEW config \in Names
    PROVE  ProviderConfig(ProviderConfig(config)) = ProviderConfig(config)
<1>1. /\ config.provider \in Providers /\ config.fallback \in Providers \union {NoProvider}
      /\ config.fallback # config.provider
  BY DEF Names
<1>2. PICK p \in Providers, f \in Providers \union {NoProvider} :
          p = config.provider /\ f = OrDefault(config.fallback, DefaultFallback)
  BY <1>1, Domains DEF OrDefault
<1>3. ProviderConfig(config) = [provider |-> p, fallback |-> IF f = p THEN NoProvider ELSE f]
  BY <1>1, <1>2, Domains DEF ProviderConfig, OrDefault
<1>4. CASE f = p
  <2>1. DefaultFallback = p
    BY <1>1, <1>2, <1>4 DEF OrDefault
  <2>2. QED
    BY <1>2, <1>3, <1>4, <2>1, Domains DEF ProviderConfig, OrDefault
<1>5. CASE f # p
  <2>1. f = NoProvider => DefaultFallback = NoProvider
    BY <1>2, Domains DEF OrDefault
  <2>2. QED
    BY <1>2, <1>3, <1>5, <2>1, Domains DEF ProviderConfig, OrDefault
<1>6. QED
  BY <1>4, <1>5

\* A template gives back the names it was made from.
LEMMA TemplateKeeps ==
    ASSUME NEW config \in Names
    PROVE  LaunchedFrom(ConfigFromRun(config)) = ProviderConfig(config)
<1>1. /\ config.provider \in Providers /\ config.fallback \in Providers \union {NoProvider}
      /\ DOMAIN config = {"provider", "fallback"} /\ config = [provider |-> config.provider, fallback |-> config.fallback]
  BY DEF Names
<1> DEFINE kept == {key \in DOMAIN config : config[key] # NoProvider}
           restored == [key \in {"provider", "fallback"} |->
                            IF key \in DOMAIN ConfigFromRun(config) THEN ConfigFromRun(config)[key] ELSE NoProvider]
<1>2. ConfigFromRun(config) = [key \in kept |-> config[key]]
  BY DEF ConfigFromRun, Restrict
<1>3. "provider" \in kept
  BY <1>1, Domains
<1>4. "fallback" \in kept <=> config.fallback # NoProvider
  BY <1>1
<1>5. restored["provider"] = config.provider
  <2> HIDE DEF kept
  <2>1. QED
    BY <1>2, <1>3
<1>6. restored["fallback"] = config.fallback
  <2> HIDE DEF kept
  <2>1. QED
    BY <1>2, <1>4
<1>7. restored = [provider |-> config.provider, fallback |-> config.fallback]
  <2> DEFINE other == [provider |-> config.provider, fallback |-> config.fallback]
  <2>1. restored = [key \in {"provider", "fallback"} |-> restored[key]]
    OBVIOUS
  <2>2. other = [key \in {"provider", "fallback"} |-> other[key]]
    OBVIOUS
  <2>3. other["provider"] = config.provider /\ other["fallback"] = config.fallback
    OBVIOUS
  <2> HIDE DEF other, restored
  <2>4. \A key \in {"provider", "fallback"} : restored[key] = other[key]
    BY <1>5, <1>6, <2>3
  <2>5. QED
    BY <2>1, <2>2, <2>4 DEF other
<1>8. restored = config
  BY <1>1, <1>7
<1>9. LaunchedFrom(ConfigFromRun(config)) = Recorded(config)
  BY <1>8 DEF LaunchedFrom
<1>10. QED
  BY <1>9, NamesAreRequests, RecordedTyped

\* However a run was launched, its job parses to the names the first launch recorded.
LEMMA LaunchKeeps ==
    ASSUME btAsked \in Requests,
           btRequest = Recorded(btAsked) \/ btRequest = LaunchedFrom(ConfigFromRun(Recorded(btAsked)))
    PROVE  btRequest \in Names /\ Launched
<1>1. PICK config \in Names : config = Recorded(btAsked)
  BY RecordedTyped
<1>2. CASE btRequest = config
  BY <1>1, <1>2 DEF Launched
<1>3. CASE btRequest = LaunchedFrom(ConfigFromRun(config))
  <2>1. btRequest = ProviderConfig(config)
    BY <1>3, TemplateKeeps
  <2>2. ProviderConfig(config) \in Names
    BY ConfigTyped, NamesAreRequests
  <2>3. QED
    BY <1>1, <2>1, <2>2, ConfigTwice DEF Launched
<1>4. QED
  BY <1>1, <1>2, <1>3

-----------------------------------------------------------------------------
(* What each step does to the records of its attempt.                       *)

Typed == btTry \in [Attempts -> Try] /\ btTx \in [Attempts -> Tx]

Pcs == {"load", "build", "prices", "benchmark", "snapshots", "store", "delete", "lock",
        "insert", "save", "finish", "done", "failed"}

LEMMA MovedFacts ==
    ASSUME Typed, NEW a \in Attempts, NEW pc \in Pcs, Goto(a, pc)
    PROVE  /\ btTry' \in [Attempts -> Try]
           /\ btTry'[a].pc = pc
           /\ btTry'[a].config = btTry[a].config /\ btTry'[a].resolved = btTry[a].resolved
           /\ btTry'[a].fallbackUsed = btTry[a].fallbackUsed /\ btTry'[a].result = btTry[a].result
           /\ \A b \in Attempts \ {a} : btTry'[b] = btTry[b]
<1>1. btTry[a] \in Try /\ btTry \in [Attempts -> Try]
  BY DEF Typed
<1>2. PICK new \in Try : /\ btTry' = [btTry EXCEPT ![a] = new]
                         /\ new.pc = pc /\ new.config = btTry[a].config /\ new.resolved = btTry[a].resolved
                         /\ new.fallbackUsed = btTry[a].fallbackUsed /\ new.result = btTry[a].result
  <2>1. [btTry[a] EXCEPT !.pc = pc] \in Try
    BY <1>1 DEF Try, Pcs
  <2>2. btTry' = [btTry EXCEPT ![a] = [btTry[a] EXCEPT !.pc = pc]]
    BY DEF Goto
  <2>3. QED
    BY <1>1, <2>1, <2>2 DEF Try
<1>3. QED
  BY <1>1, <1>2

LEMMA NoTxTyped == NoTx \in Tx
BY Domains DEF NoTx, Tx

LEMMA DeleteFacts ==
    ASSUME Typed, btRows \in [Tables -> SUBSET Attempts], NEW a \in Attempts, DeleteRows(a)
    PROVE  LET n == btTx[a].table
           IN  /\ btTx' \in [Attempts -> Tx]
               /\ btTx'[a].seen = {} /\ btTx'[a].inserted = btTx[a].inserted
               /\ btTx'[a].table = IF n = "points" THEN "trades" ELSE "points"
               /\ btTx'[a].deleted = [btTx[a].deleted EXCEPT ![n] = btTx[a].seen \intersect btRows[n]]
               /\ \A b \in Attempts \ {a} : btTx'[b] = btTx[b]
<1> DEFINE n == btTx[a].table
           rows == btTx[a].seen \intersect btRows[n]
           next == IF n = "points" THEN "trades" ELSE "points"
<1>1. btTx[a] \in Tx /\ btTx \in [Attempts -> Tx]
  BY DEF Typed
<1>2. n \in Tables /\ rows \subseteq Attempts /\ next \in Tables
  BY <1>1, Domains DEF Tx
<1>3. btTx' = [btTx EXCEPT ![a] = [[[btTx[a] EXCEPT !.seen = {}] EXCEPT !.deleted[n] = rows] EXCEPT !.table = next]]
  BY <1>1 DEF DeleteRows
<1> HIDE DEF n, rows, next
<1>4. PICK new \in Tx : /\ btTx' = [btTx EXCEPT ![a] = new]
                        /\ new.seen = {} /\ new.inserted = btTx[a].inserted /\ new.table = next
                        /\ new.deleted = [btTx[a].deleted EXCEPT ![n] = rows]
  <2>1. PICK x \in Tx : /\ x = [btTx[a] EXCEPT !.seen = {}]
                        /\ x.seen = {} /\ x.inserted = btTx[a].inserted /\ x.deleted = btTx[a].deleted
    <3>1. [btTx[a] EXCEPT !.seen = {}] \in Tx
      BY <1>1 DEF Tx
    <3>2. QED
      BY <1>1, <3>1 DEF Tx
  <2>2. PICK y \in Tx : /\ y = [x EXCEPT !.deleted[n] = rows]
                        /\ y.seen = {} /\ y.inserted = btTx[a].inserted
                        /\ y.deleted = [btTx[a].deleted EXCEPT ![n] = rows]
    <3>1. PICK deleted \in [Tables -> SUBSET Attempts] : deleted = [btTx[a].deleted EXCEPT ![n] = rows]
      BY <1>1, <1>2 DEF Tx
    <3>2. [x EXCEPT !.deleted[n] = rows] = [x EXCEPT !.deleted = deleted]
      BY <2>1, <3>1 DEF Tx
    <3>3. PICK y \in Tx : y = [x EXCEPT !.deleted = deleted]
      BY DEF Tx
    <3>4. y.seen = {} /\ y.inserted = btTx[a].inserted /\ y.deleted = deleted
      BY <2>1, <3>3 DEF Tx
    <3>5. QED
      BY <3>1, <3>2, <3>3, <3>4
  <2>3. PICK z \in Tx : /\ z = [y EXCEPT !.table = next]
                        /\ z.seen = {} /\ z.inserted = btTx[a].inserted /\ z.table = next
                        /\ z.deleted = [btTx[a].deleted EXCEPT ![n] = rows]
    <3>1. PICK z \in Tx : z = [y EXCEPT !.table = next]
      BY <1>2 DEF Tx
    <3>2. z.seen = y.seen /\ z.inserted = y.inserted /\ z.table = next /\ z.deleted = y.deleted
      BY <3>1 DEF Tx
    <3>3. QED
      BY <2>2, <3>1, <3>2
  <2>4. QED
    BY <1>3, <2>1, <2>2, <2>3
<1>5. QED
  BY <1>1, <1>4 DEF n, rows, next

LEMMA InsertFacts ==
    ASSUME Typed, NEW a \in Attempts, InsertRows(a)
    PROVE  /\ btTx' \in [Attempts -> Tx]
           /\ btTx'[a].seen = btTx[a].seen /\ btTx'[a].deleted = btTx[a].deleted /\ btTx'[a].table = "trades"
           /\ btTx'[a].inserted = btTx[a].inserted \union {btTx[a].table}
           /\ \A b \in Attempts \ {a} : btTx'[b] = btTx[b]
<1> DEFINE rows == btTx[a].inserted \union {btTx[a].table}
<1>1. btTx[a] \in Tx /\ btTx \in [Attempts -> Tx]
  BY DEF Typed
<1>2. rows \subseteq Tables /\ "trades" \in Tables
  BY <1>1, Domains DEF Tx
<1>3. btTx' = [btTx EXCEPT ![a] = [[btTx[a] EXCEPT !.table = "trades"] EXCEPT !.inserted = rows]]
  BY <1>1 DEF InsertRows, Tx
<1> HIDE DEF rows
<1>4. PICK new \in Tx : /\ btTx' = [btTx EXCEPT ![a] = new]
                        /\ new.seen = btTx[a].seen /\ new.deleted = btTx[a].deleted
                        /\ new.table = "trades" /\ new.inserted = rows
  <2>1. PICK x \in Tx : /\ x = [btTx[a] EXCEPT !.table = "trades"]
                        /\ x.seen = btTx[a].seen /\ x.deleted = btTx[a].deleted /\ x.table = "trades"
    <3>1. [btTx[a] EXCEPT !.table = "trades"] \in Tx
      BY <1>1, <1>2 DEF Tx
    <3>2. QED
      BY <1>1, <3>1 DEF Tx
  <2>2. PICK y \in Tx : /\ y = [x EXCEPT !.inserted = rows]
                        /\ y.seen = btTx[a].seen /\ y.deleted = btTx[a].deleted /\ y.table = "trades"
                        /\ y.inserted = rows
    <3>1. PICK y \in Tx : y = [x EXCEPT !.inserted = rows]
      BY <1>2 DEF Tx
    <3>2. y.seen = x.seen /\ y.deleted = x.deleted /\ y.table = x.table /\ y.inserted = rows
      BY <3>1 DEF Tx
    <3>3. QED
      BY <2>1, <3>1, <3>2
  <2>3. QED
    BY <1>3, <2>1, <2>2
<1>5. QED
  BY <1>1, <1>4 DEF rows

LEMMA FindFacts ==
    ASSUME Typed, btRows \in [Tables -> SUBSET Attempts], NEW a \in Attempts, FindRows(a)
    PROVE  /\ btTx' \in [Attempts -> Tx]
           /\ btTx'[a].seen = btRows[btTx[a].table] /\ btTx'[a].deleted = btTx[a].deleted
           /\ btTx'[a].table = btTx[a].table /\ btTx'[a].inserted = btTx[a].inserted
           /\ \A b \in Attempts \ {a} : btTx'[b] = btTx[b]
<1>1. btTx[a] \in Tx /\ btTx \in [Attempts -> Tx]
  BY DEF Typed
<1>2. PICK rows \in SUBSET Attempts : rows = btRows[btTx[a].table]
  BY <1>1 DEF Tx
<1>3. btTx' = [btTx EXCEPT ![a] = [btTx[a] EXCEPT !.seen = rows]]
  BY <1>1, <1>2 DEF FindRows
<1>4. [btTx[a] EXCEPT !.seen = rows] \in Tx
  BY <1>1 DEF Tx
<1>5. QED
  BY <1>1, <1>2, <1>3, <1>4 DEF Tx

\* The transaction of attempt a is over.
LEMMA RollbackFacts ==
    ASSUME Typed, NEW a \in Attempts, btTx' = [btTx EXCEPT ![a] = NoTx]
    PROVE  /\ btTx' \in [Attempts -> Tx]
           /\ btTx'[a].deleted = [n \in Tables |-> {}] /\ btTx'[a].inserted = {}
           /\ \A b \in Attempts \ {a} : btTx'[b] = btTx[b]
<1>1. btTx \in [Attempts -> Tx]
  BY DEF Typed
<1>2. NoTx.deleted = [n \in Tables |-> {}] /\ NoTx.inserted = {}
  BY DEF NoTx
<1>3. btTx'[a] = NoTx /\ \A b \in Attempts \ {a} : btTx'[b] = btTx[b]
  BY <1>1
<1>4. btTx' \in [Attempts -> Tx]
  BY <1>1, NoTxTyped
<1>5. QED
  BY <1>2, <1>3, <1>4

LEMMA ReadFacts ==
    ASSUME Typed, btRequest \in Names, NEW a \in Attempts, ReadRun(a)
    PROVE  /\ btTry' \in [Attempts -> Try]
           /\ btTry'[a].pc = "build" /\ btTry'[a].config = ProviderConfig(btRequest)
           /\ btTry'[a].resolved = ProviderConfig(btRequest).provider
           /\ btTry'[a].fallbackUsed = btTry[a].fallbackUsed
           /\ \A b \in Attempts \ {a} : btTry'[b] = btTry[b]
<1>1. btTry[a] \in Try /\ btTry \in [Attempts -> Try]
  BY DEF Typed
<1>2. PICK config \in Names : config = ProviderConfig(btRequest) /\ config.provider \in Providers
  <2>1. ProviderConfig(btRequest) \in Names
    BY ConfigTyped, NamesAreRequests
  <2>2. QED
    BY <2>1 DEF Names
<1>3. btTry' = [btTry EXCEPT ![a] = [[[btTry[a] EXCEPT !.pc = "build"] EXCEPT !.config = config]
                                        EXCEPT !.resolved = config.provider]]
  BY <1>1, <1>2 DEF ReadRun
<1>4. PICK x \in Try : x = [btTry[a] EXCEPT !.pc = "build"]
  BY <1>1 DEF Try
<1>5. PICK y \in Try : y = [x EXCEPT !.config = config]
  BY DEF Try
<1>6. PICK z \in Try : z = [y EXCEPT !.resolved = config.provider]
  BY <1>2 DEF Try
<1>7. z.pc = "build" /\ z.config = config /\ z.resolved = config.provider /\ z.fallbackUsed = btTry[a].fallbackUsed
  BY <1>1, <1>4, <1>5, <1>6 DEF Try
<1>8. btTry' = [btTry EXCEPT ![a] = z]
  BY <1>3, <1>4, <1>5, <1>6
<1>9. QED
  BY <1>1, <1>2, <1>7, <1>8

LEMMA AfterFacts ==
    ASSUME NEW method \in Methods
    PROVE  After(method) \subseteq {"benchmark", "snapshots", "store"}
BY DEF Methods, After

LEMMA AnsweredFacts ==
    ASSUME Typed, NEW a \in Attempts, NEW method \in Methods, Answered(a, method)
    PROVE  /\ btTry' \in [Attempts -> Try]
           /\ btTry'[a].pc \in {"benchmark", "snapshots", "store"}
           /\ btTry'[a].config = btTry[a].config /\ btTry'[a].fallbackUsed = btTry[a].fallbackUsed
           /\ btTry'[a].resolved = IF btTry[a].fallbackUsed THEN btTry[a].resolved ELSE btTry[a].config.provider
           /\ \A b \in Attempts \ {a} : btTry'[b] = btTry[b]
<1>1. btTry[a] \in Try /\ btTry \in [Attempts -> Try]
  BY DEF Typed
<1>2. PICK resolved \in Providers :
          resolved = IF btTry[a].fallbackUsed THEN btTry[a].resolved ELSE btTry[a].config.provider
  BY <1>1 DEF Try, Names
<1>3. PICK pc \in {"benchmark", "snapshots", "store"} :
          btTry' = [btTry EXCEPT ![a] = [[btTry[a] EXCEPT !.pc = pc] EXCEPT !.resolved = resolved]]
  <2>1. PICK pc \in After(method) :
            btTry' = [btTry EXCEPT ![a].pc = pc,
                                   ![a].resolved = IF btTry[a].fallbackUsed THEN @ ELSE btTry[a].config.provider]
    BY DEF Answered
  <2>2. pc \in {"benchmark", "snapshots", "store"}
    BY AfterFacts
  <2>3. [btTry[a] EXCEPT !.pc = pc].resolved = btTry[a].resolved
    BY <1>1 DEF Try
  <2>4. btTry' = [btTry EXCEPT ![a] = [[btTry[a] EXCEPT !.pc = pc] EXCEPT !.resolved = resolved]]
    BY <1>1, <1>2, <2>1, <2>3
  <2>5. QED
    BY <2>2, <2>4
<1>4. PICK x \in Try : x = [btTry[a] EXCEPT !.pc = pc]
  BY <1>1 DEF Try
<1>5. PICK y \in Try : y = [x EXCEPT !.resolved = resolved]
  BY DEF Try
<1>6. y.pc = pc /\ y.config = btTry[a].config /\ y.resolved = resolved /\ y.fallbackUsed = btTry[a].fallbackUsed
  BY <1>1, <1>4, <1>5 DEF Try
<1>7. btTry' = [btTry EXCEPT ![a] = y]
  BY <1>3, <1>4, <1>5
<1>8. QED
  BY <1>1, <1>2, <1>6, <1>7

LEMMA FailedOverFacts ==
    ASSUME Typed, NEW a \in Attempts, NEW method \in Methods, FailedOver(a, method)
    PROVE  /\ btTry' \in [Attempts -> Try]
           /\ btTry'[a].pc \in {"benchmark", "snapshots", "store"}
           /\ btTry'[a].config = btTry[a].config /\ btTry'[a].fallbackUsed
           /\ btTry[a].config.fallback \in Providers
           /\ \A b \in Attempts \ {a} : btTry'[b] = btTry[b]
<1>1. btTry[a] \in Try /\ btTry \in [Attempts -> Try]
  BY DEF Typed
<1>2. PICK fallback \in Providers : fallback = btTry[a].config.fallback
  BY <1>1 DEF FailedOver, Try, Names
<1>3. PICK pc \in {"benchmark", "snapshots", "store"} :
          btTry' = [btTry EXCEPT ![a] = [[[btTry[a] EXCEPT !.pc = pc] EXCEPT !.fallbackUsed = TRUE]
                                            EXCEPT !.resolved = fallback]]
  <2>1. PICK pc \in After(method) :
            btTry' = [btTry EXCEPT ![a].pc = pc, ![a].fallbackUsed = TRUE, ![a].resolved = fallback]
    BY <1>2 DEF FailedOver
  <2>2. pc \in {"benchmark", "snapshots", "store"}
    BY AfterFacts
  <2>3. btTry' = [btTry EXCEPT ![a] = [[[btTry[a] EXCEPT !.pc = pc] EXCEPT !.fallbackUsed = TRUE]
                                          EXCEPT !.resolved = fallback]]
    BY <1>1, <2>1
  <2>4. QED
    BY <2>2, <2>3
<1>4. PICK x \in Try : x = [btTry[a] EXCEPT !.pc = pc]
  BY <1>1 DEF Try
<1>5. PICK y \in Try : y = [x EXCEPT !.fallbackUsed = TRUE]
  BY DEF Try
<1>6. PICK z \in Try : z = [y EXCEPT !.resolved = fallback]
  BY DEF Try
<1>7. z.pc = pc /\ z.config = btTry[a].config /\ z.fallbackUsed
  BY <1>1, <1>4, <1>5, <1>6 DEF Try
<1>8. btTry' = [btTry EXCEPT ![a] = z]
  BY <1>3, <1>4, <1>5, <1>6
<1>9. QED
  BY <1>1, <1>2, <1>7, <1>8

LEMMA StoreFacts ==
    ASSUME Typed, NEW a \in Attempts, Store(a)
    PROVE  /\ btTry' \in [Attempts -> Try]
           /\ btTry'[a].pc = "delete"
           /\ btTry'[a].config = btTry[a].config /\ btTry'[a].resolved = btTry[a].resolved
           /\ btTry'[a].fallbackUsed = btTry[a].fallbackUsed
           /\ \A b \in Attempts \ {a} : btTry'[b] = btTry[b]
<1>1. btTry[a] \in Try /\ btTry \in [Attempts -> Try]
  BY DEF Typed
<1>2. PICK result \in Results :
          btTry' = [btTry EXCEPT ![a] = [[btTry[a] EXCEPT !.pc = "delete"] EXCEPT !.result = result]]
  BY <1>1 DEF Store
<1>3. PICK x \in Try : x = [btTry[a] EXCEPT !.pc = "delete"]
  BY <1>1 DEF Try
<1>4. PICK y \in Try : y = [x EXCEPT !.result = result]
  BY DEF Try
<1>5. /\ y.pc = "delete" /\ y.config = btTry[a].config /\ y.resolved = btTry[a].resolved
      /\ y.fallbackUsed = btTry[a].fallbackUsed
  BY <1>1, <1>3, <1>4 DEF Try
<1>6. btTry' = [btTry EXCEPT ![a] = y]
  BY <1>2, <1>3, <1>4
<1>7. QED
  BY <1>1, <1>5, <1>6

-----------------------------------------------------------------------------
(* The steps preserve the invariant.                                        *)

\* Steps that neither begin, change nor end a transaction's work.
Quiet(a) ==
    \/ ReadRun(a) \/ Build(a) \/ \E method \in Methods : Answered(a, method) \/ FailedOver(a, method)
    \/ Store(a) \/ Finish(a)

Rollback(a) == Conflict(a) \/ Abandon(a)

Step(a) ==
    \/ Quiet(a) \/ FindRows(a) \/ DeleteRows(a) \/ InsertRows(a) \/ InsertNothing(a)
    \/ Rollback(a) \/ SaveRun(a)

LEMMA NextSteps == BacktestNext <=> \E a \in Attempts : Step(a)
BY DEF BacktestNext, Step, Quiet, Rollback

\* Only an attempt's own steps change its records, and an attempt that is over stays so.
AloneMoves(a) ==
    /\ btAsked' = btAsked /\ btRequest' = btRequest
    /\ \A b \in Attempts \ {a} : /\ btTry'[b] = btTry[b] /\ btTx'[b] = btTx[b]
                                 /\ btOrigins'[b] = btOrigins[b]
    /\ Over(a) => btOrigins'[a] = btOrigins[a] /\ Over(a)'

LEMMA TypedFacts == BacktestTypeOK => /\ Typed /\ btRows \in [Tables -> SUBSET Attempts] /\ btRequest \in Names
                                      /\ btOrigins \in [Attempts -> SUBSET Providers]
BY DEF BacktestTypeOK, Typed

LEMMA QuietStep ==
    ASSUME BacktestTypeOK, NEW a \in Attempts, Quiet(a)
    PROVE  /\ btTx' = btTx /\ btRows' = btRows /\ btRun' = btRun
           /\ BacktestTypeOK' /\ AloneMoves(a)
           /\ btTry'[a].pc \notin {"load", "lock", "insert", "save"} /\ ~At(a, "insert") /\ ~At(a, "save")
<1>0. Typed /\ btRequest \in Names /\ btOrigins \in [Attempts -> SUBSET Providers]
  BY TypedFacts
<1>1. /\ btTx' = btTx /\ btRows' = btRows /\ btRun' = btRun /\ btAsked' = btAsked /\ btRequest' = btRequest
  BY DEF Quiet, ReadRun, Build, Answered, FailedOver, Store, Finish
<1> DEFINE Goal == /\ btTry' \in [Attempts -> Try] /\ btOrigins' \in [Attempts -> SUBSET Providers]
                   /\ \A b \in Attempts \ {a} : btTry'[b] = btTry[b] /\ btOrigins'[b] = btOrigins[b]
                   /\ Over(a) => btOrigins'[a] = btOrigins[a] /\ Over(a)'
                   /\ btTry'[a].pc \notin {"load", "lock", "insert", "save"} /\ ~At(a, "insert") /\ ~At(a, "save")
<1>2. ASSUME ReadRun(a)
      PROVE  Goal
  <2>1. btOrigins' = btOrigins /\ btTry[a].pc = "load"
    BY <1>2 DEF ReadRun, At
  <2>2. Goal
    BY <1>0, <1>2, <2>1, ReadFacts DEF Over, At
  <2>3. QED
    BY <2>2
<1>3. ASSUME Build(a)
      PROVE  Goal
  <2>1. PICK pc \in {"prices", "failed"} : Goto(a, pc)
    BY <1>3 DEF Build
  <2>2. btOrigins' = btOrigins /\ btTry[a].pc = "build" /\ pc \in Pcs
    BY <1>3 DEF Build, At, Pcs
  <2>3. btTry' \in [Attempts -> Try] /\ btTry'[a].pc = pc /\ \A b \in Attempts \ {a} : btTry'[b] = btTry[b]
    BY <1>0, <2>1, <2>2, MovedFacts
  <2>4. QED
    BY <1>0, <2>2, <2>3 DEF Over, At
<1>4. ASSUME NEW method \in Methods, Answered(a, method)
      PROVE  Goal
  <2>1. PICK p \in Providers : btOrigins' = [btOrigins EXCEPT ![a] = btOrigins[a] \union {p}]
    <3>1. btTry[a].config.provider \in Providers
      BY <1>0 DEF Typed, Try, Names
    <3>2. QED
      BY <1>0, <1>4, <3>1 DEF Answered
  <2>2. btTry[a].pc \in {"prices", "benchmark", "snapshots"}
    BY <1>4 DEF Answered, At, Methods
  <2>3. btOrigins' \in [Attempts -> SUBSET Providers] /\ \A b \in Attempts \ {a} : btOrigins'[b] = btOrigins[b]
    BY <1>0, <2>1
  <2>4. /\ btTry' \in [Attempts -> Try] /\ btTry'[a].pc \in {"benchmark", "snapshots", "store"}
        /\ \A b \in Attempts \ {a} : btTry'[b] = btTry[b]
    BY <1>0, <1>4, AnsweredFacts
  <2>5. QED
    BY <2>2, <2>3, <2>4 DEF Over, At
<1>5. ASSUME NEW method \in Methods, FailedOver(a, method)
      PROVE  Goal
  <2>1. PICK p \in Providers : btOrigins' = [btOrigins EXCEPT ![a] = btOrigins[a] \union {p}]
    <3>1. btTry[a].config.fallback \in Providers
      BY <1>0, <1>5, FailedOverFacts
    <3>2. QED
      BY <1>0, <1>5, <3>1 DEF FailedOver
  <2>2. btTry[a].pc \in {"prices", "benchmark", "snapshots"}
    BY <1>5 DEF FailedOver, At, Methods
  <2>3. btOrigins' \in [Attempts -> SUBSET Providers] /\ \A b \in Attempts \ {a} : btOrigins'[b] = btOrigins[b]
    BY <1>0, <2>1
  <2>4. /\ btTry' \in [Attempts -> Try] /\ btTry'[a].pc \in {"benchmark", "snapshots", "store"}
        /\ \A b \in Attempts \ {a} : btTry'[b] = btTry[b]
    BY <1>0, <1>5, FailedOverFacts
  <2>5. QED
    BY <2>2, <2>3, <2>4 DEF Over, At
<1>6. ASSUME Store(a)
      PROVE  Goal
  <2>1. btOrigins' = btOrigins /\ btTry[a].pc = "store"
    BY <1>6 DEF Store, At
  <2>2. Goal
    BY <1>0, <1>6, <2>1, StoreFacts DEF Over, At
  <2>3. QED
    BY <2>2
<1>7. ASSUME Finish(a)
      PROVE  Goal
  <2>1. btOrigins' = btOrigins /\ btTry[a].pc = "finish" /\ Goto(a, "done") /\ "done" \in Pcs
    BY <1>7 DEF Finish, At, Pcs
  <2>2. btTry' \in [Attempts -> Try] /\ btTry'[a].pc = "done" /\ \A b \in Attempts \ {a} : btTry'[b] = btTry[b]
    BY <1>0, <2>1, MovedFacts
  <2>3. QED
    BY <1>0, <2>1, <2>2 DEF Over, At
<1>8. Goal
  BY <1>2, <1>3, <1>4, <1>5, <1>6, <1>7 DEF Quiet
<1>9. BacktestTypeOK' /\ AloneMoves(a)
  BY <1>1, <1>8 DEF BacktestTypeOK, AloneMoves
<1>10. QED
  BY <1>1, <1>8, <1>9

\* A step of the transaction: where it leads, and what it leaves alone.
LEMMA TxStep ==
    ASSUME BacktestTypeOK, NEW a \in Attempts, Step(a), ~Quiet(a)
    PROVE  BacktestTypeOK' /\ AloneMoves(a) /\ btOrigins' = btOrigins
<1>0. Typed /\ btRows \in [Tables -> SUBSET Attempts] /\ btTx \in [Attempts -> Tx]
  BY TypedFacts DEF BacktestTypeOK
<1>1. btOrigins' = btOrigins /\ btAsked' = btAsked /\ btRequest' = btRequest
  BY DEF Step, Rollback, FindRows, DeleteRows, InsertRows, InsertNothing, Conflict, Abandon, SaveRun
<1>2. PICK pc \in Pcs : Goto(a, pc)
  <2>1. "lock" \in Pcs /\ "delete" \in Pcs /\ "insert" \in Pcs /\ "save" \in Pcs /\ "failed" \in Pcs /\ "finish" \in Pcs
    BY DEF Pcs
  <2>2. CASE FindRows(a) \/ InsertNothing(a) \/ Conflict(a) \/ Abandon(a) \/ SaveRun(a)
    BY <2>1, <2>2 DEF FindRows, InsertNothing, Conflict, Abandon, SaveRun
  <2>3. CASE DeleteRows(a)
    BY <2>1, <2>3 DEF DeleteRows
  <2>4. CASE InsertRows(a)
    BY <2>1, <2>4 DEF InsertRows, Proceed
  <2>5. QED
    BY <2>2, <2>3, <2>4 DEF Step, Rollback
<1>3. btTry' \in [Attempts -> Try] /\ \A b \in Attempts \ {a} : btTry'[b] = btTry[b]
  BY <1>0, <1>2, MovedFacts
<1>4. Over(a) => Over(a)'
  <2>1. CASE FindRows(a) \/ InsertNothing(a) \/ Conflict(a) \/ SaveRun(a)
    BY <2>1 DEF Over, At, FindRows, InsertNothing, Conflict, SaveRun
  <2>2. CASE DeleteRows(a)
    BY <2>2 DEF Over, At, DeleteRows
  <2>3. CASE InsertRows(a)
    BY <2>3 DEF Over, At, InsertRows
  <2>4. CASE Abandon(a)
    <3>1. Goto(a, "failed") /\ "failed" \in Pcs
      BY <2>4 DEF Abandon, Pcs
    <3>2. btTry'[a].pc = "failed"
      BY <1>0, <3>1, MovedFacts
    <3>3. QED
      BY <3>2 DEF Over
  <2>5. QED
    BY <2>1, <2>2, <2>3, <2>4 DEF Step, Rollback
<1>5. btTx' \in [Attempts -> Tx] /\ \A b \in Attempts \ {a} : btTx'[b] = btTx[b]
  <2>1. CASE FindRows(a)
    BY <1>0, <2>1, FindFacts
  <2>2. CASE DeleteRows(a)
    BY <1>0, <2>2, DeleteFacts
  <2>3. CASE InsertRows(a)
    BY <1>0, <2>3, InsertFacts
  <2>4. CASE InsertNothing(a)
    BY <1>0, <2>4 DEF InsertNothing
  <2>5. CASE Rollback(a) \/ SaveRun(a)
    <3>1. btTx' = [btTx EXCEPT ![a] = NoTx]
      BY <2>5 DEF Rollback, Conflict, Abandon, SaveRun
    <3>2. QED
      BY <1>0, <3>1, RollbackFacts
  <2>6. QED
    BY <2>1, <2>2, <2>3, <2>4, <2>5 DEF Step
<1>6. btRows' \in [Tables -> SUBSET Attempts] /\ btRun'.by \in Attempts \union {Unsaved}
  <2>1. CASE SaveRun(a)
    <3>1. btRows' = [n \in Tables |-> (btRows[n] \ btTx[a].deleted[n]) \union
                                      (IF n \in btTx[a].inserted THEN {a} ELSE {})]
      BY <2>1 DEF SaveRun
    <3>2. btRows' \in [Tables -> SUBSET Attempts]
      BY <1>0, <3>1
    <3>3. btRun'.by = a
      BY <2>1 DEF SaveRun, Summary
    <3>4. QED
      BY <3>2, <3>3
  <2>2. CASE ~SaveRun(a)
    <3>1. btRows' = btRows /\ btRun' = btRun
      BY <2>2 DEF Step, Rollback, FindRows, DeleteRows, InsertRows, InsertNothing, Conflict, Abandon
    <3>2. QED
      BY <3>1 DEF BacktestTypeOK
  <2>3. QED
    BY <2>1, <2>2
<1>7. QED
  BY <1>1, <1>3, <1>4, <1>5, <1>6 DEF BacktestTypeOK, AloneMoves

LEMMA EveryStep ==
    ASSUME BacktestTypeOK, NEW a \in Attempts, Step(a)
    PROVE  BacktestTypeOK' /\ AloneMoves(a) /\ OverAttempts \subseteq OverAttempts'
<1>1. BacktestTypeOK' /\ AloneMoves(a)
  BY QuietStep, TxStep
<1>2. ASSUME NEW b \in Attempts, Over(b)
      PROVE  Over(b)'
  <2>1. CASE b = a
    BY <1>1, <1>2, <2>1 DEF AloneMoves
  <2>2. CASE b # a
    BY <1>1, <1>2, <2>2 DEF AloneMoves, Over
  <2>3. QED
    BY <2>1, <2>2
<1>3. QED
  BY <1>1, <1>2 DEF OverAttempts

\* An attempt goes on saying whose data it has used.
LEMMA AttemptStep ==
    ASSUME BacktestInv, NEW a \in Attempts, Step(a), NEW b \in Attempts
    PROVE  AttemptOK(b)'
<1>0. BacktestTypeOK /\ AttemptOK(b) /\ AttemptOK(a)
  BY DEF BacktestInv
<1>t. Typed /\ btRequest \in Names /\ btOrigins \in [Attempts -> SUBSET Providers]
  BY <1>0, TypedFacts
<1>f. AloneMoves(a)
  BY <1>0, EveryStep
<1>1. CASE b # a
  BY <1>0, <1>1, <1>f DEF AloneMoves, AttemptOK, Over, At
<1>2. CASE Over(a)'
  <2>1. btTry'[a].pc \in {"finish", "done", "failed"}
    BY <1>2 DEF Over
  <2>2. AttemptOK(a)'
    BY <2>1 DEF AttemptOK, Over, At
  <2>3. QED
    BY <1>1, <2>2
<1>3. CASE b = a /\ ReadRun(a)
  <2>1. btOrigins' = btOrigins /\ btRequest' = btRequest /\ btTry[a].pc = "load"
    BY <1>3 DEF ReadRun, At
  <2>2. btOrigins[a] = {} /\ ~btTry[a].fallbackUsed
    BY <1>0, <2>1 DEF AttemptOK, At
  <2>3. /\ btTry'[a].pc = "build" /\ btTry'[a].config = ProviderConfig(btRequest)
        /\ btTry'[a].resolved = ProviderConfig(btRequest).provider /\ ~btTry'[a].fallbackUsed
    BY <1>t, <1>3, <2>2, ReadFacts
  <2>4. QED
    BY <1>3, <2>1, <2>2, <2>3 DEF AttemptOK, Over, At
<1>4. CASE b = a /\ Build(a)
  <2>1. PICK pc \in {"prices", "failed"} : Goto(a, pc)
    BY <1>4 DEF Build
  <2>2. btOrigins' = btOrigins /\ btRequest' = btRequest /\ btTry[a].pc = "build" /\ pc \in Pcs
    BY <1>4 DEF Build, At, Pcs
  <2>3. /\ btTry'[a].pc = pc /\ btTry'[a].config = btTry[a].config /\ btTry'[a].resolved = btTry[a].resolved
        /\ btTry'[a].fallbackUsed = btTry[a].fallbackUsed
    BY <1>t, <2>1, <2>2, MovedFacts
  <2>4. QED
    BY <1>0, <1>4, <2>2, <2>3 DEF AttemptOK, Over, At
<1>5. ASSUME NEW method \in Methods, Answered(a, method), b = a
      PROVE  AttemptOK(b)'
  <2>1. btRequest' = btRequest /\ btOrigins'[a] = btOrigins[a] \union {btTry[a].config.provider}
    BY <1>t, <1>5 DEF Answered
  <2>2. btTry[a].pc \in {"prices", "benchmark", "snapshots"}
    BY <1>5 DEF Answered, At, Methods
  <2>3. /\ btTry'[a].pc \in {"benchmark", "snapshots", "store"}
        /\ btTry'[a].config = btTry[a].config /\ btTry'[a].fallbackUsed = btTry[a].fallbackUsed
        /\ ~btTry[a].fallbackUsed => btTry'[a].resolved = btTry[a].config.provider
    BY <1>t, <1>5, AnsweredFacts
  <2>4. btTry[a].config.fallback # btTry[a].config.provider
    BY <1>t DEF Typed, Try, Names
  <2>5. /\ btTry[a].config = ProviderConfig(btRequest)
        /\ btTry[a].fallbackUsed <=> btTry[a].config.fallback \in btOrigins[a]
        /\ ~btTry[a].fallbackUsed => btOrigins[a] \subseteq {btTry[a].config.provider}
    BY <1>0, <2>2 DEF AttemptOK, Over, At
  <2>6. /\ btTry'[a].fallbackUsed <=> btTry'[a].config.fallback \in btOrigins'[a]
        /\ ~btTry'[a].fallbackUsed => /\ btOrigins'[a] \subseteq {btTry'[a].config.provider}
                                      /\ btTry'[a].resolved = btTry'[a].config.provider
        /\ btOrigins'[a] # {}
    BY <2>1, <2>3, <2>4, <2>5
  <2>7. QED
    BY <1>5, <2>1, <2>3, <2>5, <2>6 DEF AttemptOK, Over, At
<1>6. ASSUME NEW method \in Methods, FailedOver(a, method), b = a
      PROVE  AttemptOK(b)'
  <2>1. btRequest' = btRequest /\ btOrigins'[a] = btOrigins[a] \union {btTry[a].config.fallback}
    BY <1>t, <1>6 DEF FailedOver
  <2>2. btTry[a].pc \in {"prices", "benchmark", "snapshots"}
    BY <1>6 DEF FailedOver, At, Methods
  <2>3. /\ btTry'[a].pc \in {"benchmark", "snapshots", "store"}
        /\ btTry'[a].config = btTry[a].config /\ btTry'[a].fallbackUsed
    BY <1>t, <1>6, FailedOverFacts
  <2>4. btTry[a].config = ProviderConfig(btRequest)
    BY <1>0, <2>2 DEF AttemptOK, Over, At
  <2>5. QED
    BY <1>6, <2>1, <2>3, <2>4 DEF AttemptOK, Over, At
<1>7. CASE b = a /\ Store(a)
  <2>1. btOrigins' = btOrigins /\ btRequest' = btRequest /\ btTry[a].pc = "store"
    BY <1>7 DEF Store, At
  <2>2. /\ btTry'[a].pc = "delete" /\ btTry'[a].config = btTry[a].config
        /\ btTry'[a].resolved = btTry[a].resolved /\ btTry'[a].fallbackUsed = btTry[a].fallbackUsed
    BY <1>t, <1>7, StoreFacts
  <2>3. QED
    BY <1>0, <1>7, <2>1, <2>2 DEF AttemptOK, Over, At
<1>8. CASE b = a /\ (FindRows(a) \/ DeleteRows(a) \/ InsertRows(a) \/ InsertNothing(a))
  <2>1. PICK pc \in {"lock", "delete", "insert", "save"} : Goto(a, pc)
    BY <1>8 DEF FindRows, DeleteRows, InsertRows, InsertNothing, Proceed
  <2>2. btTry[a].pc \in {"delete", "lock", "insert"} /\ btOrigins' = btOrigins /\ btRequest' = btRequest
    <3>1. CASE FindRows(a)
      BY <3>1 DEF FindRows, At
    <3>2. CASE DeleteRows(a)
      BY <3>2 DEF DeleteRows, At
    <3>3. CASE InsertRows(a)
      BY <3>3 DEF InsertRows, At
    <3>4. CASE InsertNothing(a)
      BY <3>4 DEF InsertNothing, At
    <3>5. QED
      BY <1>8, <3>1, <3>2, <3>3, <3>4
  <2>3. pc \in Pcs
    BY DEF Pcs
  <2>4. /\ btTry'[a].pc = pc /\ btTry'[a].config = btTry[a].config
        /\ btTry'[a].resolved = btTry[a].resolved /\ btTry'[a].fallbackUsed = btTry[a].fallbackUsed
    BY <1>t, <2>1, <2>3, MovedFacts
  <2>5. QED
    BY <1>0, <1>8, <2>2, <2>4 DEF AttemptOK, Over, At
<1>9. CASE Finish(a) \/ Rollback(a) \/ SaveRun(a)
  <2>1. PICK pc \in {"done", "failed", "finish"} : Goto(a, pc)
    BY <1>9 DEF Finish, Rollback, Conflict, Abandon, SaveRun
  <2>2. pc \in Pcs
    BY DEF Pcs
  <2>3. btTry'[a].pc = pc
    BY <1>t, <2>1, <2>2, MovedFacts
  <2>4. QED
    BY <1>2, <2>3 DEF Over
<1>10. QED
  BY <1>1, <1>3, <1>4, <1>5, <1>6, <1>7, <1>8, <1>9 DEF Step, Quiet

LEMMA InsertedStep ==
    ASSUME BacktestInv, NEW a \in Attempts, Step(a), NEW b \in Attempts
    PROVE  InsertedOK(b)'
<1>0. BacktestTypeOK /\ InsertedOK(b) /\ InsertedOK(a)
  BY DEF BacktestInv
<1>t. Typed /\ btRows \in [Tables -> SUBSET Attempts]
  BY <1>0, TypedFacts
<1>f. AloneMoves(a)
  BY <1>0, EveryStep
<1>1. CASE b # a
  BY <1>0, <1>1, <1>f DEF AloneMoves, InsertedOK, At, RowsOf
<1>2. CASE b = a /\ Quiet(a)
  <2>1. btTx' = btTx /\ btTry'[a].pc \notin {"insert", "save"} /\ btTry[a].pc \notin {"insert", "save"}
    BY <1>0, <1>2, QuietStep DEF At
  <2>2. QED
    BY <1>0, <1>2, <2>1 DEF InsertedOK, At
<1>3. CASE b = a /\ FindRows(a)
  <2>1. btTry[a].pc = "delete" /\ Goto(a, "lock") /\ "lock" \in Pcs
    BY <1>3 DEF FindRows, At, Pcs
  <2>2. btTry'[a].pc = "lock"
    BY <1>t, <2>1, MovedFacts
  <2>3. btTx'[a].inserted = btTx[a].inserted
    BY <1>t, <1>3, FindFacts
  <2>4. QED
    BY <1>0, <1>3, <2>1, <2>2, <2>3 DEF InsertedOK, At
<1>4. CASE b = a /\ DeleteRows(a)
  <2>1. PICK pc \in Pcs : /\ Goto(a, pc) /\ btTry[a].pc = "lock"
                          /\ pc = IF btTx[a].table = "points" THEN "delete" ELSE "insert"
    <3>1. "delete" \in Pcs /\ "insert" \in Pcs
      BY DEF Pcs
    <3>2. QED
      BY <1>4, <3>1 DEF DeleteRows, At
  <2>2. btTry'[a].pc = pc
    BY <1>t, <2>1, MovedFacts
  <2>3. /\ btTx'[a].inserted = btTx[a].inserted
        /\ btTx'[a].table = IF btTx[a].table = "points" THEN "trades" ELSE "points"
    BY <1>t, <1>4, DeleteFacts
  <2>4. btTx[a].inserted = {}
    BY <1>0, <2>1 DEF InsertedOK
  <2>5. QED
    BY <1>4, <2>1, <2>2, <2>3, <2>4 DEF InsertedOK, At
<1>5. CASE b = a /\ InsertRows(a)
  <2>1. PICK pc \in Pcs : /\ Goto(a, pc) /\ btTry[a].pc = "insert" /\ btTx[a].table \in RowsOf(a)
                          /\ pc = IF btTx[a].table = "points" THEN "insert" ELSE "save"
    <3>1. "save" \in Pcs /\ "insert" \in Pcs
      BY DEF Pcs
    <3>2. QED
      BY <1>5, <3>1 DEF InsertRows, Proceed, At
  <2>2. btTry'[a].pc = pc /\ btTry'[a].result = btTry[a].result
    BY <1>t, <2>1, MovedFacts
  <2>3. btTx'[a].inserted = btTx[a].inserted \union {btTx[a].table} /\ btTx'[a].table = "trades"
    BY <1>t, <1>5, InsertFacts
  <2>4. btTx[a].inserted = IF btTx[a].table = "points" THEN {} ELSE {"points"}
    BY <1>0, <2>1 DEF InsertedOK, At
  <2>5. CASE btTx[a].table = "points"
    <3>1. btTry'[a].pc = "insert" /\ btTx'[a].inserted = {"points"} /\ btTx'[a].table # "points"
      BY <2>1, <2>2, <2>3, <2>4, <2>5
    <3>2. QED
      BY <1>5, <3>1 DEF InsertedOK, At
  <2>6. CASE btTx[a].table # "points"
    <3>1. btTx[a].table = "trades" /\ btTry[a].result = "trades"
      BY <2>1, <2>6 DEF RowsOf
    <3>2. btTry'[a].pc = "save" /\ btTx'[a].inserted = {"points", "trades"}
      BY <2>1, <2>2, <2>3, <2>4, <3>1
    <3>3. RowsOf(a)' = {"points", "trades"}
      BY <2>2, <3>1 DEF RowsOf
    <3>4. QED
      BY <1>5, <3>2, <3>3 DEF InsertedOK, At
  <2>7. QED
    BY <2>5, <2>6
<1>6. CASE b = a /\ InsertNothing(a)
  <2>1. btTry[a].pc = "insert" /\ Goto(a, "save") /\ btTx[a].table \notin RowsOf(a) /\ btTx' = btTx /\ "save" \in Pcs
    BY <1>6 DEF InsertNothing, At, Pcs
  <2>2. btTry'[a].pc = "save" /\ btTry'[a].result = btTry[a].result
    BY <1>t, <2>1, MovedFacts
  <2>3. btTx[a].table \in {"points", "trades"}
    BY <1>t, Domains DEF Typed, Tx
  <2>4. btTx[a].table = "trades" /\ btTry[a].result # "trades"
    BY <2>1, <2>3 DEF RowsOf
  <2>5. btTx[a].inserted = {"points"}
    BY <1>0, <2>1, <2>4 DEF InsertedOK, At
  <2>6. RowsOf(a)' = {"points"}
    BY <2>2, <2>4 DEF RowsOf
  <2>7. QED
    BY <1>6, <2>1, <2>2, <2>5, <2>6 DEF InsertedOK, At
<1>7. CASE b = a /\ (Rollback(a) \/ SaveRun(a))
  <2>1. PICK pc \in {"failed", "finish"} : Goto(a, pc) /\ btTx' = [btTx EXCEPT ![a] = NoTx]
    BY <1>7 DEF Rollback, Conflict, Abandon, SaveRun
  <2>2. pc \in Pcs
    BY DEF Pcs
  <2>3. btTry'[a].pc = pc /\ btTx'[a].inserted = {}
    BY <1>t, <2>1, <2>2, MovedFacts, RollbackFacts
  <2>4. QED
    BY <1>7, <2>3 DEF InsertedOK, At
<1>8. QED
  BY <1>1, <1>2, <1>3, <1>4, <1>5, <1>6, <1>7 DEF Step

LEMMA CurveStep ==
    ASSUME BacktestInv, NEW a \in Attempts, Step(a)
    PROVE  OneCurve'
<1>0. BacktestTypeOK /\ OneCurve /\ InsertedOK(a)
  BY DEF BacktestInv
<1>t. Typed /\ btRows \in [Tables -> SUBSET Attempts]
  BY <1>0, TypedFacts
<1>f. \A b \in Attempts \ {a} : btTx'[b] = btTx[b]
  BY <1>0, EveryStep DEF AloneMoves
<1>1. CASE "points" \in btTx'[a].inserted => "points" \in btTx[a].inserted
  BY <1>0, <1>1, <1>f DEF OneCurve
<1>2. CASE InsertRows(a)
  <2>1. CASE btTx[a].table = "points"
    <3>1. \A b \in Attempts \ {a} : "points" \notin btTx[b].inserted
      BY <1>2, <2>1 DEF InsertRows, InsertedByOthers
    <3>2. QED
      BY <1>0, <1>f, <3>1 DEF OneCurve
  <2>2. CASE btTx[a].table # "points"
    <3>1. btTx'[a].inserted = btTx[a].inserted \union {btTx[a].table}
      BY <1>t, <1>2, InsertFacts
    <3>2. QED
      BY <1>1, <2>2, <3>1
  <2>3. QED
    BY <2>1, <2>2
<1>3. CASE Quiet(a) \/ InsertNothing(a)
  <2>1. btTx' = btTx
    BY <1>0, <1>3, QuietStep DEF InsertNothing
  <2>2. QED
    BY <1>1, <2>1
<1>4. CASE FindRows(a) \/ DeleteRows(a)
  <2>1. btTx'[a].inserted = btTx[a].inserted
    BY <1>t, <1>4, FindFacts, DeleteFacts
  <2>2. QED
    BY <1>1, <2>1
<1>5. CASE Rollback(a) \/ SaveRun(a)
  <2>1. btTx' = [btTx EXCEPT ![a] = NoTx]
    BY <1>5 DEF Rollback, Conflict, Abandon, SaveRun
  <2>2. btTx'[a].inserted = {}
    BY <1>t, <2>1, RollbackFacts
  <2>3. QED
    BY <1>1, <2>2
<1>6. QED
  BY <1>2, <1>3, <1>4, <1>5 DEF Step

LEMMA SavedStep ==
    ASSUME BacktestInv, NEW a \in Attempts, Step(a)
    PROVE  SavedOver'
<1>0. BacktestTypeOK /\ SavedOver /\ OverAttempts \subseteq OverAttempts'
  BY EveryStep DEF BacktestInv
<1>1. CASE SaveRun(a)
  <2>1. btRun'.by = a /\ Goto(a, "finish") /\ "finish" \in Pcs
    BY <1>1 DEF SaveRun, Summary, Pcs
  <2>2. btTry'[a].pc = "finish"
    BY <1>0, <2>1, MovedFacts, TypedFacts
  <2>3. QED
    BY <2>1, <2>2 DEF SavedOver, OverAttempts, Over
<1>2. CASE ~SaveRun(a)
  <2>1. btRun' = btRun
    BY <1>0, <1>2, QuietStep DEF Step, Rollback, FindRows, DeleteRows, InsertRows, InsertNothing, Conflict, Abandon
  <2>2. QED
    BY <1>0, <2>1 DEF SavedOver
<1>3. QED
  BY <1>1, <1>2

\* The committed rows are those of the attempt whose summary the run shows.
LEMMA CommittedRows ==
    ASSUME BacktestInv, NEW n \in Tables
    PROVE  btRows[n] \subseteq OverAttempts /\ (btRun.by = Unsaved => btRows[n] = {})
<1>1. btRows[n] \subseteq {btRun.by} /\ btRows[n] \subseteq Attempts
  BY DEF BacktestInv, RunIsOneAttempts, BacktestTypeOK
<1>2. btRun.by # Unsaved => btRun.by \in OverAttempts
  BY DEF BacktestInv, SavedOver
<1>3. QED
  BY <1>1, <1>2, Domains

LEMMA DeletedStep ==
    ASSUME BacktestInv, NEW a \in Attempts, Step(a), NEW b \in Attempts
    PROVE  DeletedOK(b)'
<1>0. BacktestTypeOK /\ DeletedOK(b) /\ DeletedOK(a) /\ InsertedOK(a) /\ OneCurve
  BY DEF BacktestInv
<1>t. Typed /\ btRows \in [Tables -> SUBSET Attempts]
  BY <1>0, TypedFacts
<1>f. AloneMoves(a) /\ OverAttempts \subseteq OverAttempts'
  BY <1>0, EveryStep
<1>p. "points" \in Tables /\ "trades" \in Tables
  BY Domains
<1>1. CASE b # a /\ ~SaveRun(a)
  <2>1. btRun' = btRun /\ btRows' = btRows
    BY <1>0, <1>1, QuietStep DEF Step, Rollback, FindRows, DeleteRows, InsertRows, InsertNothing, Conflict, Abandon
  <2>2. btTx'[b] = btTx[b] /\ btTry'[b] = btTry[b]
    BY <1>1, <1>f DEF AloneMoves
  <2>3. QED
    BY <1>0, <1>f, <2>1, <2>2 DEF DeletedOK, At
<1>2. CASE b # a /\ SaveRun(a)
  <2>1. btTx'[b] = btTx[b] /\ btTry'[b] = btTry[b] /\ btRun'.by = a /\ btTry[a].pc = "save"
    BY <1>2, <1>f DEF AloneMoves, SaveRun, Summary, At
  <2>2. "points" \in btTx[a].inserted
    BY <1>0, <2>1 DEF InsertedOK, At, RowsOf
  <2>3. "points" \notin btTx[b].inserted
    BY <1>0, <1>2, <2>2 DEF OneCurve
  <2>4. a \notin OverAttempts
    BY <2>1 DEF OverAttempts, Over
  <2>5. btRun'.by \notin btTx[b].deleted["points"]
    BY <1>0, <1>p, <2>1, <2>4 DEF DeletedOK
  <2>6. QED
    BY <1>0, <1>f, <2>1, <2>3, <2>5 DEF DeletedOK
<1>3. CASE b = a /\ Quiet(a)
  <2>1. /\ btTx' = btTx /\ btRows' = btRows /\ btRun' = btRun
        /\ btTry'[a].pc \notin {"lock", "insert", "save"}
    BY <1>0, <1>3, QuietStep
  <2>2. QED
    BY <1>0, <1>3, <1>f, <2>1 DEF DeletedOK, At
<1>4. CASE b = a /\ FindRows(a)
  <2>1. btTry[a].pc = "delete" /\ Goto(a, "lock") /\ "lock" \in Pcs /\ btRows' = btRows /\ btRun' = btRun
    BY <1>4 DEF FindRows, At, Pcs
  <2>2. btTry'[a].pc = "lock"
    BY <1>t, <2>1, MovedFacts
  <2>3. /\ btTx'[a].seen = btRows[btTx[a].table] /\ btTx'[a].deleted = btTx[a].deleted
        /\ btTx'[a].table = btTx[a].table /\ btTx'[a].inserted = btTx[a].inserted
    BY <1>t, <1>4, FindFacts
  <2>4. QED
    BY <1>0, <1>4, <1>f, <2>1, <2>2, <2>3 DEF DeletedOK, At
<1>5. CASE b = a /\ DeleteRows(a)
  <2>1. PICK pc \in Pcs : /\ Goto(a, pc) /\ btTry[a].pc = "lock" /\ btRows' = btRows /\ btRun' = btRun
                          /\ pc = IF btTx[a].table = "points" THEN "delete" ELSE "insert"
    <3>1. "delete" \in Pcs /\ "insert" \in Pcs
      BY DEF Pcs
    <3>2. QED
      BY <1>5, <3>1 DEF DeleteRows, At
  <2>2. btTry'[a].pc = pc
    BY <1>t, <2>1, MovedFacts
  <2>3. PICK n \in Tables : /\ n = btTx[a].table
                            /\ btTx'[a].inserted = btTx[a].inserted
                            /\ btTx'[a].deleted = [btTx[a].deleted EXCEPT ![n] = btTx[a].seen \intersect btRows[n]]
    <3>1. btTx[a].table \in Tables
      BY <1>t DEF Typed, Tx
    <3>2. QED
      BY <1>t, <1>5, <3>1, DeleteFacts
  <2>4. btTx[a].inserted = {} /\ btTx[a].deleted \in [Tables -> SUBSET Attempts]
    BY <1>0, <1>t, <2>1 DEF InsertedOK, Typed, Tx
  <2>5. \A m \in Tables : btTx'[a].deleted[m] \subseteq OverAttempts'
    <3>1. btTx[a].seen \intersect btRows[n] \subseteq OverAttempts
      BY CommittedRows
    <3>2. \A m \in Tables : btTx'[a].deleted[m] \subseteq OverAttempts
      BY <1>0, <2>3, <2>4, <3>1 DEF DeletedOK
    <3>3. QED
      BY <1>f, <3>2
  <2>6. ASSUME btRun.by \in btTx'[a].deleted["points"], n # "points"
        PROVE  btRows["trades"] \subseteq btTx'[a].deleted["trades"]
    <3>1. n = "trades"
      BY <2>6, Domains
    <3>2. /\ btTx'[a].deleted["points"] = btTx[a].deleted["points"]
          /\ btTx'[a].deleted["trades"] = btTx[a].seen \intersect btRows["trades"]
      BY <1>p, <2>3, <2>4, <3>1
    <3>3. btRows["trades"] \subseteq btTx[a].seen
      BY <1>0, <2>1, <2>3, <2>6, <3>1, <3>2 DEF DeletedOK, At
    <3>4. QED
      BY <3>2, <3>3
  <2>7. QED
    BY <1>5, <2>1, <2>2, <2>3, <2>4, <2>5, <2>6 DEF DeletedOK, At
<1>6. CASE b = a /\ InsertRows(a)
  <2>1. PICK pc \in Pcs : /\ Goto(a, pc) /\ btTry[a].pc = "insert" /\ pc \in {"insert", "save"}
                          /\ btRows' = btRows /\ btRun' = btRun
    <3>1. "save" \in Pcs /\ "insert" \in Pcs
      BY DEF Pcs
    <3>2. QED
      BY <1>6, <3>1 DEF InsertRows, Proceed, At
  <2>2. btTry'[a].pc = pc
    BY <1>t, <2>1, MovedFacts
  <2>3. btTx'[a].inserted = btTx[a].inserted \union {btTx[a].table} /\ btTx'[a].deleted = btTx[a].deleted
    BY <1>t, <1>6, InsertFacts
  <2>4. "points" \in btTx'[a].inserted => btRows["points"] \subseteq btTx[a].deleted["points"]
    <3>1. CASE btTx[a].table = "points"
      BY <1>6, <3>1 DEF InsertRows
    <3>2. CASE btTx[a].table # "points"
      BY <1>0, <2>3, <3>2 DEF DeletedOK
    <3>3. QED
      BY <3>1, <3>2
  <2>5. btRun.by \in btTx[a].deleted["points"] => btRows["trades"] \subseteq btTx[a].deleted["trades"]
    BY <1>0, <2>1 DEF DeletedOK, At
  <2>6. QED
    BY <1>0, <1>6, <1>f, <2>1, <2>2, <2>3, <2>4, <2>5 DEF DeletedOK, At
<1>7. CASE b = a /\ InsertNothing(a)
  <2>1. /\ btTry[a].pc = "insert" /\ Goto(a, "save") /\ "save" \in Pcs
        /\ btTx' = btTx /\ btRows' = btRows /\ btRun' = btRun
    BY <1>7 DEF InsertNothing, At, Pcs
  <2>2. btTry'[a].pc = "save"
    BY <1>t, <2>1, MovedFacts
  <2>3. QED
    BY <1>0, <1>7, <1>f, <2>1, <2>2 DEF DeletedOK, At
<1>8. CASE b = a /\ (Rollback(a) \/ SaveRun(a))
  <2>1. btTx' = [btTx EXCEPT ![a] = NoTx]
    BY <1>8 DEF Rollback, Conflict, Abandon, SaveRun
  <2>2. btTx'[a].inserted = {} /\ \A n \in Tables : btTx'[a].deleted[n] = {}
    BY <1>t, <2>1, RollbackFacts
  <2>3. QED
    BY <1>8, <1>p, <2>2 DEF DeletedOK
<1>9. QED
  BY <1>1, <1>2, <1>3, <1>4, <1>5, <1>6, <1>7, <1>8 DEF Step

\* A commit leaves the rows of its attempt alone, and that attempt's summary.
LEMMA SaveKeepsOne ==
    ASSUME BacktestInv, NEW a \in Attempts, SaveRun(a)
    PROVE  RunIsOneAttempts'
<1>0. /\ BacktestTypeOK /\ DeletedOK(a) /\ InsertedOK(a) /\ AttemptOK(a) /\ Launched
      /\ \A n \in Tables : btRows[n] \subseteq {btRun.by}
      /\ btRun.by # Unsaved => btRows["points"] # {}
  BY DEF BacktestInv, RunIsOneAttempts
<1>p. "points" \in Tables /\ "trades" \in Tables /\ a # Unsaved
  BY Domains
<1>1. btTry[a].pc = "save" /\ btTx[a].inserted = RowsOf(a)
  BY <1>0 DEF SaveRun, At, InsertedOK
<1>2. btRows["points"] \subseteq btTx[a].deleted["points"]
  BY <1>0, <1>1 DEF DeletedOK, RowsOf
<1>3. btRows["trades"] \subseteq btTx[a].deleted["trades"]
  <2>1. CASE btRun.by = Unsaved
    BY <1>p, <2>1, CommittedRows
  <2>2. CASE btRun.by # Unsaved
    <3>1. btRun.by \in btTx[a].deleted["points"]
      BY <1>0, <1>2, <1>p, <2>2
    <3>2. QED
      BY <1>0, <1>1, <3>1 DEF DeletedOK, At
  <2>3. QED
    BY <2>1, <2>2
<1>4. btRows' = [n \in Tables |-> (btRows[n] \ btTx[a].deleted[n]) \union
                                  (IF n \in btTx[a].inserted THEN {a} ELSE {})]
  BY DEF SaveRun
<1>5. /\ btRows'["points"] = {a}
      /\ btRows'["trades"] = IF btTry[a].result = "trades" THEN {a} ELSE {}
  BY <1>1, <1>2, <1>3, <1>4, <1>p DEF RowsOf
<1>6. \A n \in Tables : btRows'[n] \subseteq {a}
  BY <1>5, Domains
<1>7. /\ btRun'.by = a /\ btRun'.trades = (btTry[a].result = "trades")
      /\ btRun'.info = ProviderInfo(a) /\ btRun'.warnings = Warnings(a)
      /\ btOrigins' = btOrigins /\ btAsked' = btAsked
  BY DEF SaveRun, Summary
<1>8. /\ btRun'.info.provider = btTry[a].config.provider /\ btRun'.info.fallback = btTry[a].config.fallback
      /\ btRun'.info.resolved = btTry[a].resolved /\ btRun'.info.fallbackUsed = btTry[a].fallbackUsed
  BY <1>7 DEF ProviderInfo
<1>9. /\ btTry[a].config = ProviderConfig(btRequest)
      /\ btTry[a].fallbackUsed <=> btTry[a].config.fallback \in btOrigins[a]
      /\ ~btTry[a].fallbackUsed => /\ btOrigins[a] \subseteq {btTry[a].config.provider}
                                   /\ btTry[a].resolved = btTry[a].config.provider
      /\ btOrigins[a] # {}
  BY <1>0, <1>1 DEF AttemptOK, Over, At
<1>10. btTry[a].config = ProviderConfig(Recorded(btAsked))
  BY <1>0, <1>9 DEF Launched
<1>11. /\ "fallback_provider_used" \in Warnings(a) <=> btTry[a].fallbackUsed
       /\ "no_portfolio_turnover" \in Warnings(a) => btTry[a].result = "nothing"
  BY DEF Warnings
<1>12. btRows'["points"] # {} /\ (btRun'.trades <=> btRows'["trades"] # {})
  BY <1>5, <1>7
<1>13. /\ btRun'.info.fallbackUsed <=> btRun'.info.fallback \in btOrigins'[a]
       /\ ~btRun'.info.fallbackUsed => btOrigins'[a] = {btRun'.info.resolved}
  BY <1>7, <1>8, <1>9
<1>14. /\ btRun'.info.fallbackUsed <=> "fallback_provider_used" \in btRun'.warnings
       /\ "no_portfolio_turnover" \in btRun'.warnings => btRows'["trades"] = {}
  BY <1>5, <1>7, <1>8, <1>11
<1>15. /\ btRun'.info.provider = ProviderConfig(Recorded(btAsked))'.provider
       /\ btRun'.info.fallback = ProviderConfig(Recorded(btAsked))'.fallback
  <2>1. ProviderConfig(Recorded(btAsked))' = ProviderConfig(Recorded(btAsked))
    BY <1>7 DEF ProviderConfig, Recorded, Serialized
  <2>2. QED
    BY <1>8, <1>10, <2>1
<1>16. QED
  BY <1>6, <1>7, <1>12, <1>13, <1>14, <1>15 DEF RunIsOneAttempts

LEMMA RunStep ==
    ASSUME BacktestInv, NEW a \in Attempts, Step(a)
    PROVE  RunIsOneAttempts'
<1>0. BacktestTypeOK /\ SavedOver /\ RunIsOneAttempts
  BY DEF BacktestInv
<1>1. CASE SaveRun(a)
  BY <1>1, SaveKeepsOne
<1>2. CASE ~SaveRun(a)
  <2>1. btRun' = btRun /\ btRows' = btRows
    BY <1>0, <1>2, QuietStep DEF Step, Rollback, FindRows, DeleteRows, InsertRows, InsertNothing, Conflict, Abandon
  <2>2. btAsked' = btAsked
    BY <1>0, EveryStep DEF AloneMoves
  <2>3. btRun.by # Unsaved => btOrigins'[btRun.by] = btOrigins[btRun.by]
    BY <1>0, EveryStep DEF SavedOver, OverAttempts, AloneMoves
  <2>4. ProviderConfig(Recorded(btAsked))' = ProviderConfig(Recorded(btAsked))
    BY <2>2 DEF ProviderConfig, Recorded, Serialized
  <2>5. QED
    BY <1>0, <2>1, <2>3, <2>4 DEF RunIsOneAttempts
<1>3. QED
  BY <1>1, <1>2

LEMMA BacktestStart == BacktestInit => BacktestInv
<1> SUFFICES ASSUME BacktestInit
             PROVE  BacktestInv
  OBVIOUS
<1>1. /\ btTry = [a \in Attempts |-> NewTry] /\ btTx = [a \in Attempts |-> NoTx]
      /\ btRows = [n \in Tables |-> {}] /\ btRun = NoSummary /\ btOrigins = [a \in Attempts |-> {}]
      /\ btAsked \in Requests
  BY DEF BacktestInit
<1>2. btRequest \in Names /\ Launched
  BY LaunchKeeps DEF BacktestInit
<1>3. NewTry \in Try /\ NewTry.pc = "load" /\ ~NewTry.fallbackUsed
  <2>1. [provider |-> NoProvider, fallback |-> NoProvider] \in Requests
    BY DEF Requests
  <2>2. ProviderConfig([provider |-> NoProvider, fallback |-> NoProvider]) \in Names
    BY <2>1, ConfigTyped
  <2>3. QED
    BY <2>2, Domains DEF NewTry, Try, Results
<1>4. btRun.by = Unsaved
  BY <1>1 DEF NoSummary
<1>5. BacktestTypeOK
  BY <1>1, <1>2, <1>3, <1>4, NoTxTyped DEF BacktestTypeOK
<1>6. \A a \in Attempts : btTx[a].inserted = {} /\ \A n \in Tables : btTx[a].deleted[n] = {}
  BY <1>1 DEF NoTx
<1>7. \A a \in Attempts : btTry[a].pc = "load" /\ ~btTry[a].fallbackUsed /\ btOrigins[a] = {}
  BY <1>1, <1>3
<1>8. \A a \in Attempts : AttemptOK(a) /\ InsertedOK(a)
  BY <1>6, <1>7 DEF AttemptOK, InsertedOK, At, Over
<1>9. \A a \in Attempts : DeletedOK(a)
  BY <1>6, Domains DEF DeletedOK
<1>10. OneCurve /\ SavedOver
  BY <1>4, <1>6 DEF OneCurve, SavedOver
<1>11. RunIsOneAttempts
  BY <1>1, <1>4 DEF RunIsOneAttempts
<1>12. QED
  BY <1>2, <1>5, <1>8, <1>9, <1>10, <1>11 DEF BacktestInv

LEMMA BacktestStep == BacktestInv /\ [BacktestNext]_backtestVars => BacktestInv'
<1>1. ASSUME BacktestInv, NEW a \in Attempts, Step(a)
      PROVE  BacktestInv'
  <2>1. BacktestTypeOK' /\ AloneMoves(a)
    BY <1>1, EveryStep DEF BacktestInv
  <2>2. \A b \in Attempts : AttemptOK(b)' /\ InsertedOK(b)' /\ DeletedOK(b)'
    BY <1>1, AttemptStep, InsertedStep, DeletedStep
  <2>3. OneCurve' /\ SavedOver' /\ RunIsOneAttempts'
    BY <1>1, CurveStep, SavedStep, RunStep
  <2>4. Launched'
    BY <1>1, <2>1 DEF BacktestInv, Launched, AloneMoves, ProviderConfig, Recorded, Serialized
  <2>5. QED
    BY <2>1, <2>2, <2>3, <2>4 DEF BacktestInv
<1>2. ASSUME BacktestInv, UNCHANGED backtestVars
      PROVE  BacktestInv'
  <2>1. /\ btAsked' = btAsked /\ btRequest' = btRequest /\ btTry' = btTry /\ btTx' = btTx
        /\ btRows' = btRows /\ btRun' = btRun /\ btOrigins' = btOrigins
    BY <1>2 DEF backtestVars
  <2>2. BacktestTypeOK' /\ OneCurve' /\ SavedOver'
    BY <1>2, <2>1 DEF BacktestInv, BacktestTypeOK, OneCurve, SavedOver, OverAttempts, Over
  <2>3. \A b \in Attempts : AttemptOK(b)' /\ InsertedOK(b)'
    BY <1>2, <2>1 DEF BacktestInv, AttemptOK, InsertedOK, Over, At, RowsOf, ProviderConfig
  <2>4. \A b \in Attempts : DeletedOK(b)'
    BY <1>2, <2>1 DEF BacktestInv, DeletedOK, OverAttempts, Over, At
  <2>5. Launched' /\ RunIsOneAttempts'
    BY <1>2, <2>1 DEF BacktestInv, Launched, RunIsOneAttempts, ProviderConfig, Recorded, Serialized
  <2>6. QED
    BY <2>2, <2>3, <2>4, <2>5 DEF BacktestInv
<1>3. QED
  BY <1>1, <1>2, NextSteps

\* Whatever attempts of a run's job overlap, fail over, conflict and are abandoned: the rows
\* and the summary are one attempt's, it admits to the fallback exactly when it used it, and
\* a run launched again from a template has the providers of the run it was made from.
THEOREM RunHoldsTogether == BacktestSpec => []RunIsOneAttempts
<1>1. BacktestInv => RunIsOneAttempts
  BY DEF BacktestInv
<1>2. QED
  BY <1>1, BacktestStart, BacktestStep, PTL DEF BacktestSpec

\* The run, its rows and the attempts' records keep their types.
LEMMA BacktestTypes == BacktestSpec => []BacktestTypeOK
<1>1. BacktestInv => BacktestTypeOK
  BY DEF BacktestInv
<1>2. QED
  BY <1>1, BacktestStart, BacktestStep, PTL DEF BacktestSpec

-----------------------------------------------------------------------------
(* The five parts together (MCResearch).                                    *)

\* Each part of an instance behaves as its specification alone.
LEMMA ResearchPartsBehave ==
    ResearchSpec => FormulaSpec /\ RebalanceSpec /\ LimiterSpec /\ FetchSpec /\ BacktestSpec
<1>1. ResearchInit => FormulaInit /\ RebalanceInit /\ LimiterInit /\ FetchInit /\ BacktestInit
  BY DEF ResearchInit
<1>2. [ResearchNext]_<<part, parts>> =>
          /\ [Screen]_formulaVars /\ [RebalanceNext]_rebalanceVars /\ [LimiterNext]_limiterVars
          /\ [FetchNext]_fetchVars /\ [BacktestNext]_backtestVars
  BY DEF ResearchNext, FormulaPart, RebalancePart, LimiterPart, FetchPart, BacktestPart, parts
<1>3. QED
  BY <1>1, <1>2, PTL DEF ResearchSpec, FormulaSpec, RebalanceSpec, LimiterSpec, FetchSpec, BacktestSpec

\* Screens, simulations, the limiter, the files of snapshots and backtest runs keep their
\* types whatever they are given and however their steps interleave.
THEOREM ResearchTypes == ResearchSpec => []ResearchTypeOK
<1>1. FormulaTypeOK /\ RebalanceTypeOK /\ LimiterTypeOK /\ FetchTypeOK /\ BacktestTypeOK => ResearchTypeOK
  BY DEF ResearchTypeOK
<1>2. QED
  BY <1>1, ResearchPartsBehave, ScreensAreTyped, RebalanceTypes, LimiterTypes, FetchTypes, BacktestTypes, PTL

=============================================================================
