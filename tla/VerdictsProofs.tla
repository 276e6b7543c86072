---------------------------- MODULE VerdictsProofs ----------------------------
(***************************************************************************)
(* Proofs about the walk-forward tournament (WalkForward), about the two   *)
(* pension decisions (PensionDecisions), the yearly reviewed holding and   *)
(* the operating policy of the ISA, about the plans they are decided from  *)
(* (ResearchPlans), about the screen of the contribution parameters        *)
(* (HpScreen) and about the thesis commands (ThesisPipeline), for any      *)
(* candidates, arms, cells, lives, levels, bands, calendars, plan files,   *)
(* axes, threads, theses and worlds of catalogs.                           *)
(***************************************************************************)
EXTENDS MCVerdicts, SequenceTheorems, RecursionTheorems

-----------------------------------------------------------------------------
(* The rank of a candidate *)

Lower(p, q) ==
  \/ p[1] < q[1]
  \/ p[1] = q[1] /\ p[2] < q[2]
  \/ p[1] = q[1] /\ p[2] = q[2] /\ p[3] < q[3]
  \/ p[1] = q[1] /\ p[2] = q[2] /\ p[3] = q[3] /\ p[4] < q[4]

\* Precedes compares quadruples place by place.
LEMMA PrecedesIs ==
  ASSUME NEW a1, NEW a2, NEW a3, NEW a4, NEW q
  PROVE  Precedes(<<a1, a2, a3, a4>>, q) <=> Lower(<<a1, a2, a3, a4>>, q)
<1> DEFINE p == <<a1, a2, a3, a4>>
<1>1. DOMAIN p = 1 .. 4
  OBVIOUS
<1>2. 1 .. (1 - 1) = {} /\ 1 .. (2 - 1) = {1} /\ 1 .. (3 - 1) = {1, 2} /\ 1 .. (4 - 1) = {1, 2, 3}
  OBVIOUS
<1>3. 1 .. 4 = {1, 2, 3, 4}
  OBVIOUS
<1> HIDE DEF p
<1>4. Precedes(p, q) <=> \E i \in {1, 2, 3, 4} : p[i] < q[i] /\ \A j \in 1 .. (i - 1) : p[j] = q[j]
  BY <1>1, <1>3 DEF Precedes
<1>5. Precedes(p, q) <=> Lower(p, q)
  BY <1>2, <1>4 DEF Lower
<1> QED BY <1>5 DEF p

Evidence == [Candidates -> [Cells -> Nat]]
DrawdownSet == [Candidates -> Nat]
HasCells == feasible \in SUBSET Cells /\ feasible # {}

RankAt(c, i) == Rank(c)[i]

LEMMA RankTyped ==
  ASSUME drawdown \in DrawdownSet, NEW c \in Candidates
  PROVE  /\ \A i \in 1 .. 4 : Rank(c)[i] \in Nat
         /\ \A d \in Candidates : Precedes(Rank(c), Rank(d)) <=> Lower(Rank(c), Rank(d))
         /\ \A d \in Candidates : Rank(c)[4] = Rank(d)[4] => c = d
<1>1. \A i \in 1 .. 4 : Rank(c)[i] \in Nat
  BY RankAssumption DEF Rank, DrawdownSet
<1>2. \A d \in Candidates : Precedes(Rank(c), Rank(d)) <=> Lower(Rank(c), Rank(d))
  BY PrecedesIs DEF Rank
<1>3. \A d \in Candidates : Rank(c)[4] = Rank(d)[4] => c = d
  BY RankAssumption DEF Rank
<1> QED BY <1>1, <1>2, <1>3

\* Among any candidates one ranks before all others.
LEMMA FirstRanked ==
  ASSUME drawdown \in DrawdownSet, NEW S, S \subseteq Candidates, S # {}
  PROVE  \E c \in S : \A d \in S \ {c} : Precedes(Rank(c), Rank(d))
<1> DEFINE Least(i, A) == {c \in A : \A d \in A : Rank(c)[i] =< Rank(d)[i]}
<1>1. ASSUME NEW i \in 1 .. 4, NEW A, A \subseteq Candidates, A # {}
      PROVE  Least(i, A) # {} /\ Least(i, A) \subseteq A
  <2>1. {Rank(c)[i] : c \in A} \subseteq Nat /\ {Rank(c)[i] : c \in A} # {}
    BY <1>1, RankTyped
  <2>2. PICK m \in {Rank(c)[i] : c \in A} : \A n \in {Rank(c)[i] : c \in A} : m =< n
    BY <2>1, LeastNatural
  <2> QED BY <2>2
<1> DEFINE A1 == Least(1, S)
           A2 == Least(2, A1)
           A3 == Least(3, A2)
           A4 == Least(4, A3)
<1>2. A1 # {} /\ A1 \subseteq S /\ \A c \in A1, d \in S : Rank(c)[1] =< Rank(d)[1]
  BY <1>1
<1>3. A2 # {} /\ A2 \subseteq A1 /\ \A c \in A2, d \in A1 : Rank(c)[2] =< Rank(d)[2]
  <2> HIDE DEF A1
  <2> QED BY <1>1, <1>2
<1>4. A3 # {} /\ A3 \subseteq A2 /\ \A c \in A3, d \in A2 : Rank(c)[3] =< Rank(d)[3]
  <2> HIDE DEF A1, A2
  <2> QED BY <1>1, <1>2, <1>3
<1>5. A4 # {} /\ A4 \subseteq A3 /\ \A c \in A4, d \in A3 : Rank(c)[4] =< Rank(d)[4]
  <2> HIDE DEF A1, A2, A3
  <2> QED BY <1>1, <1>2, <1>3, <1>4
<1>6. PICK c : c \in A4
  BY <1>5
<1>7. ASSUME NEW d \in S, d # c PROVE Lower(Rank(c), Rank(d))
  <2>1. \A i \in 1 .. 4 : Rank(c)[i] \in Nat /\ Rank(d)[i] \in Nat
    <3> HIDE DEF A1, A2, A3, A4
    <3> QED BY <1>2, <1>3, <1>4, <1>5, <1>6, RankTyped
  <2>2. Rank(c)[1] =< Rank(d)[1] /\ (Rank(c)[1] = Rank(d)[1] => d \in A1)
    <3>1. \A e \in S : Rank(c)[1] =< Rank(e)[1]
      <4> HIDE DEF A1, A2, A3, A4
      <4> QED BY <1>2, <1>3, <1>4, <1>5, <1>6
    <3> QED BY <3>1
  <2>3. d \in A1 => Rank(c)[2] =< Rank(d)[2] /\ (Rank(c)[2] = Rank(d)[2] => d \in A2)
    <3>1. \A e \in A1 : Rank(c)[2] =< Rank(e)[2]
      <4> HIDE DEF A1, A2, A3, A4
      <4> QED BY <1>3, <1>4, <1>5, <1>6
    <3> HIDE DEF A1
    <3> QED BY <3>1
  <2>4. d \in A2 => Rank(c)[3] =< Rank(d)[3] /\ (Rank(c)[3] = Rank(d)[3] => d \in A3)
    <3>1. \A e \in A2 : Rank(c)[3] =< Rank(e)[3]
      <4> HIDE DEF A1, A2, A3, A4
      <4> QED BY <1>4, <1>5, <1>6
    <3> HIDE DEF A2
    <3> QED BY <3>1
  <2>5. d \in A3 => Rank(c)[4] =< Rank(d)[4]
    <3> HIDE DEF A3, A4
    <3> QED BY <1>5, <1>6
  <2>6. Rank(c)[4] # Rank(d)[4]
    <3> HIDE DEF A1, A2, A3, A4
    <3> QED BY <1>2, <1>3, <1>4, <1>5, <1>6, <1>7, RankTyped
  <2> HIDE DEF A1, A2, A3, A4
  <2> QED BY <2>1, <2>2, <2>3, <2>4, <2>5, <2>6 DEF Lower
<1>8. c \in S
  <2> HIDE DEF A1, A2, A3, A4
  <2> QED BY <1>2, <1>3, <1>4, <1>5, <1>6
<1>9. \A d \in S \ {c} : Precedes(Rank(c), Rank(d))
  BY <1>7, <1>8, RankTyped
<1> QED BY <1>8, <1>9

\* Only one of two ranks precedes the other.
LEMMA NeverBoth ==
  ASSUME drawdown \in DrawdownSet, NEW c \in Candidates, NEW d \in Candidates,
         Precedes(Rank(c), Rank(d)), Precedes(Rank(d), Rank(c))
  PROVE  FALSE
<1>1. Lower(Rank(c), Rank(d)) /\ Lower(Rank(d), Rank(c))
  BY RankTyped
<1>2. \A i \in 1 .. 4 : Rank(c)[i] \in Nat /\ Rank(d)[i] \in Nat
  BY RankTyped
<1> QED BY <1>1, <1>2 DEF Lower

\* On one day's evidence the rule says the same.
LEMMA SameDay ==
  ASSUME UNCHANGED <<terminal, feasible, drawdown, strong>>
  PROVE  /\ Equivalent(terminal)' = Equivalent(terminal)
         /\ \A h : Decision(terminal, h)' = Decision(terminal, h)
<1>1. Equivalent(terminal)' = Equivalent(terminal)
  BY DEF Equivalent, Pool, Best, RobustScore, Dominates
<1>2. Selection(terminal)' = Selection(terminal)
  BY DEF Equivalent, Pool, Best, RobustScore, Dominates, Selection, Rank
<1>3. ASSUME NEW CONSTANT h PROVE Decision(terminal, h)' = Decision(terminal, h)
  BY DEF Equivalent, Pool, Best, RobustScore, Dominates, Selection, Rank, Decision, KnifeEdge, GuardReasons
<1> QED BY <1>1, <1>3

-----------------------------------------------------------------------------
(* The rule of the holding decision *)

\* The score of a candidate is what its worst cell is worth.
LEMMA ScoreFacts ==
  ASSUME NEW t \in Evidence, HasCells, NEW c \in Candidates
  PROVE  /\ RobustScore(t, c) \in Nat
         /\ \A x \in feasible : RobustScore(t, c) =< t[c][x]
         /\ \E x \in feasible : RobustScore(t, c) = t[c][x]
<1> DEFINE T == {t[c][x] : x \in feasible}
<1>1. T \subseteq Nat /\ T # {}
  BY DEF Evidence, HasCells
<1>2. Min(T) \in T /\ \A y \in T : Min(T) =< y
  <2> HIDE DEF T
  <2> QED BY <1>1, MinOfNats
<1> QED BY <1>1, <1>2 DEF RobustScore

\* The guard never leaves out the reference.
LEMMA PoolFacts ==
  ASSUME NEW t \in Evidence, HasCells
  PROVE  Reference \in Pool(t) /\ Pool(t) \subseteq Candidates /\ IsFiniteSet(Pool(t))
<1>1. ASSUME NEW x \in feasible PROVE Dominates(t, Reference, x)
  <2>1. t[Reference][x] \in Nat
    BY CandidatesAssumption DEF Evidence, HasCells
  <2>2. \A b, n \in Nat : 100 * n >= (100 - b) * n
    OBVIOUS
  <2> QED BY <2>1, <2>2, CandidatesAssumption DEF Dominates
<1>2. Pool(t) \in SUBSET Candidates
  BY DEF Pool
<1> QED BY <1>1, <1>2, CandidatesAssumption, FS_Subset DEF Pool

\* The best score of a pool is the score of one of it.
LEMMA BestFacts ==
  ASSUME NEW t \in Evidence, HasCells
  PROVE  LET best == Best(t, Pool(t))
         IN  /\ best \in Int
             /\ \E c \in Pool(t) : best = RobustScore(t, c)
             /\ \A c \in Pool(t) : RobustScore(t, c) =< best
<1> DEFINE P == Pool(t)
           f == [c \in P |-> RobustScore(t, c)]
<1>1. P # {} /\ IsFiniteSet(P) /\ P \subseteq Candidates
  BY PoolFacts
<1>2. \A c \in P : f[c] \in Int /\ f[c] = RobustScore(t, c)
  BY <1>1, ScoreFacts
<1>3. {f[c] : c \in P} = {RobustScore(t, c) : c \in P}
  BY <1>2
<1> HIDE DEF P, f
<1>4. LET m == Max({f[c] : c \in P})
      IN  m \in Int /\ (\E c \in P : m = f[c]) /\ \A c \in P : f[c] =< m
  BY <1>1, <1>2, MaxOfValues
<1>5. Best(t, Pool(t)) = Max({f[c] : c \in P})
  BY <1>3 DEF Best, P
<1> QED BY <1>2, <1>4, <1>5 DEF P

\* The selection is the first of the equivalent candidates, and the only one
\* that ranks before all others.
LEMMA SelectionFacts ==
  ASSUME NEW t \in Evidence, HasCells, drawdown \in DrawdownSet
  PROVE  /\ Equivalent(t) \subseteq Pool(t)
         /\ Selection(t) \in Equivalent(t)
         /\ \A d \in Equivalent(t) \ {Selection(t)} : Precedes(Rank(Selection(t)), Rank(d))
<1>1. Equivalent(t) \subseteq Pool(t) /\ Pool(t) \subseteq Candidates
  BY PoolFacts DEF Equivalent
<1>2. Equivalent(t) # {}
  <2>1. PICK c \in Pool(t) : Best(t, Pool(t)) = RobustScore(t, c)
    BY BestFacts
  <2>2. Best(t, Pool(t)) \in Int /\ Band \in Nat
    BY BestFacts, CandidatesAssumption
  <2> QED BY <2>1, <2>2 DEF Equivalent
<1> DEFINE E == Equivalent(t)
<1> HIDE DEF E
<1>3. \E c \in E : \A d \in E \ {c} : Precedes(Rank(c), Rank(d))
  BY <1>1, <1>2, FirstRanked DEF E
<1>4. Selection(t) = CHOOSE c \in E : \A d \in E \ {c} : Precedes(Rank(c), Rank(d))
  BY DEF Selection, E
<1>5. Selection(t) \in E /\ \A d \in E \ {Selection(t)} : Precedes(Rank(Selection(t)), Rank(d))
  BY <1>3, <1>4
<1> QED BY <1>1, <1>5 DEF E

LEMMA OnlyFirst ==
  ASSUME NEW t \in Evidence, HasCells, drawdown \in DrawdownSet,
         NEW c \in Equivalent(t), \A d \in Equivalent(t) \ {c} : Precedes(Rank(c), Rank(d))
  PROVE  Selection(t) = c
<1>1. Selection(t) \in Equivalent(t) /\ Equivalent(t) \subseteq Candidates
  BY SelectionFacts, PoolFacts
<1> SUFFICES ASSUME Selection(t) # c PROVE FALSE
  OBVIOUS
<1>2. Precedes(Rank(c), Rank(Selection(t)))
  BY <1>1
<1>3. Precedes(Rank(Selection(t)), Rank(c))
  BY SelectionFacts
<1> QED BY <1>1, <1>2, <1>3, NeverBoth

\* A selected candidate that does better in one cell is selected still.
LEMMA BetterStays ==
  ASSUME terminal \in Evidence, HasCells, drawdown \in DrawdownSet
  PROVE  BetterStaysSelected
<1> DEFINE t == terminal
           c == Selection(t)
<1> SUFFICES ASSUME c \notin {Benchmark, Reference}, NEW x \in feasible
             PROVE  Selection([t EXCEPT ![c][x] = @ + 1]) = c
  BY DEF BetterStaysSelected
<1> DEFINE u == [t EXCEPT ![c][x] = @ + 1]
<1>1. c \in Equivalent(t) /\ c \in Pool(t) /\ c \in Candidates
  BY SelectionFacts, PoolFacts
<1>2. x \in Cells
  BY DEF HasCells
<1>3. /\ u \in Evidence
      /\ \A d \in Candidates, y \in Cells : u[d][y] = IF d = c /\ y = x THEN t[d][y] + 1 ELSE t[d][y]
  <2> HIDE DEF c
  <2> QED BY <1>1, <1>2 DEF Evidence
<1> HIDE DEF u, c
<1>4. t \in Evidence /\ feasible \subseteq Cells /\ Band \in Nat /\ Reference \in Candidates /\ Reference # c
  BY CandidatesAssumption DEF HasCells
<1>5. \A d \in Candidates : RobustScore(t, d) \in Nat /\ RobustScore(u, d) \in Nat
  BY <1>3, ScoreFacts
<1>6. ASSUME NEW d \in Candidates PROVE RobustScore(t, d) =< RobustScore(u, d)
  <2>1. PICK y \in feasible : RobustScore(u, d) = u[d][y]
    BY <1>3, ScoreFacts
  <2>2. RobustScore(t, d) =< t[d][y]
    BY <2>1, ScoreFacts
  <2>3. t[d][y] \in Nat
    BY <1>4 DEF Evidence
  <2> QED BY <1>3, <1>4, <1>5, <2>1, <2>2, <2>3
<1>7. ASSUME NEW d \in Candidates, d # c PROVE RobustScore(t, d) = RobustScore(u, d)
  <2>1. {t[d][y] : y \in feasible} = {u[d][y] : y \in feasible}
    BY <1>3, <1>4, <1>7
  <2> QED BY <2>1 DEF RobustScore
<1>8. Pool(u) = Pool(t)
  <2>1. ASSUME NEW d \in Candidates, d # c PROVE d \in Pool(u) <=> d \in Pool(t)
    BY <1>3, <1>4, <2>1 DEF Pool, Dominates
  <2>2. ASSUME NEW y \in feasible PROVE Dominates(u, c, y)
    <3>1. Dominates(t, c, y)
      BY <1>1 DEF Pool
    <3>2. u[c][y] \in Nat /\ t[c][y] \in Nat /\ t[c][y] =< u[c][y] /\ u[Reference][y] = t[Reference][y]
      BY <1>1, <1>3, <1>4 DEF Evidence
    <3>3. 100 * t[c][y] =< 100 * u[c][y]
      BY <3>2
    <3>4. t[Reference][y] \in Nat
      BY <1>4 DEF Evidence
    <3> DEFINE least == (100 - Band) * t[Reference][y]
    <3>5. least \in Int
      BY <1>4, <3>4
    <3>6. 100 * t[c][y] >= least
      BY <3>1 DEF Dominates
    <3> HIDE DEF least
    <3>7. 100 * u[c][y] >= least
      BY <3>2, <3>3, <3>5, <3>6
    <3> QED BY <3>2, <3>7 DEF Dominates, least
  <2> QED BY <1>1, <2>1, <2>2 DEF Pool
<1> DEFINE better == Best(u, Pool(u))
           best == Best(t, Pool(t))
<1>9. best \in Int /\ \A d \in Pool(t) : RobustScore(t, d) =< best
  BY BestFacts
<1>10. better \in Int /\ (\E d \in Pool(t) : better = RobustScore(u, d)) /\ \A d \in Pool(t) : RobustScore(u, d) =< better
  BY <1>3, <1>8, BestFacts
<1>11. PICK d \in Pool(t) : best = RobustScore(t, d)
  BY BestFacts
<1>12. Pool(t) \subseteq Candidates
  BY PoolFacts
<1>13. best =< better
  <2> HIDE DEF best, better
  <2> QED BY <1>5, <1>6, <1>9, <1>10, <1>11, <1>12
<1>14. RobustScore(t, c) >= best - Band
  BY <1>1 DEF Equivalent
<1>15. RobustScore(u, c) >= better - Band
  <2>1. PICK e \in Pool(t) : better = RobustScore(u, e)
    BY <1>10
  <2> HIDE DEF best, better
  <2>2. CASE e = c
    BY <1>4, <1>5, <1>1, <2>1, <2>2
  <2>3. CASE e # c
    <3>1. better =< best
      BY <1>7, <1>9, <1>12, <2>1, <2>3
    <3> QED BY <1>1, <1>4, <1>5, <1>6, <1>9, <1>10, <1>14, <3>1
  <2> QED BY <2>2, <2>3
<1>16. c \in Equivalent(u)
  BY <1>1, <1>8, <1>15 DEF Equivalent
<1>17. ASSUME NEW e \in Equivalent(u), e # c PROVE e \in Equivalent(t)
  <2>1. e \in Pool(t) /\ RobustScore(u, e) >= better - Band
    BY <1>8 DEF Equivalent
  <2>2. RobustScore(t, e) = RobustScore(u, e) /\ RobustScore(u, e) \in Nat
    BY <1>5, <1>7, <1>12, <1>17, <2>1
  <2>3. RobustScore(t, e) >= best - Band
    <3> HIDE DEF best, better
    <3> QED BY <1>4, <1>9, <1>10, <1>13, <2>1, <2>2
  <2> QED BY <2>1, <2>3 DEF Equivalent
<1>18. \A e \in Equivalent(t) \ {c} : Precedes(Rank(c), Rank(e))
  BY SelectionFacts DEF c
<1>19. Selection(u) = c
  BY <1>3, <1>16, <1>17, <1>18, OnlyFirst
<1> QED BY <1>19 DEF u

-----------------------------------------------------------------------------
(* The reviews *)

HoldingTyped ==
  /\ terminal \in Evidence /\ HasCells /\ drawdown \in DrawdownSet
  /\ \A x \in Cells : terminal[Benchmark][x] = 100

\* A verdict that may still be frozen is the rule's on the evidence and the
\* holding there are.
VerdictCurrent ==
  verdict # NoVerdict /\ ~settled =>
    \E agrees \in BOOLEAN : verdict = CrossChecked(Decision(terminal, incumbent), agrees)

\* The holding just recorded is one of the equivalents.
HeldIsEquivalent == settled => incumbent \in Equivalent(terminal)

HoldingInv == HoldingTyped /\ VerdictCurrent /\ HeldIsEquivalent /\ ReviewRepeatable

\* What may be frozen names an equivalent candidate that a review would keep,
\* and is the holding itself where that is one, unless it is the benchmark.
LEMMA RulingFacts ==
  ASSUME HoldingTyped, NEW h, NEW agrees \in BOOLEAN, NEW v, v = CrossChecked(Decision(terminal, h), agrees),
         v.status # "NO_DECISION"
  PROVE  /\ v.selected \in Equivalent(terminal)
         /\ Decision(terminal, v.selected).selected = v.selected
         /\ h \in Equivalent(terminal) => v.selected \in {h, Benchmark}
<1> DEFINE c == Selection(terminal)
<1>1. c \in Equivalent(terminal)
  BY SelectionFacts DEF HoldingTyped
<1>2. v = Decision(terminal, h)
  BY DEF CrossChecked
<1> HIDE DEF c
<1> DEFINE Is(status, selected, reason) ==
        [status |-> status, selected |-> selected, reasons |-> reason \cup GuardReasons(terminal)]
<1>3. ASSUME NEW k
      PROVE  /\ c = Benchmark => Decision(terminal, k) = Is("KEEP_BENCHMARK", Benchmark, {})
             /\ c # Benchmark /\ KnifeEdge(terminal, c) => Decision(terminal, k) = Is("NO_DECISION", NoOne, {"KNIFE_EDGE"})
             /\ c # Benchmark /\ ~KnifeEdge(terminal, c) /\ c \notin strong
                  => Decision(terminal, k) = Is("NO_DECISION", NoOne, {"BOOTSTRAP_WEAK"})
             /\ c # Benchmark /\ ~KnifeEdge(terminal, c) /\ c \in strong
                  => Decision(terminal, k) = IF k \in Equivalent(terminal) THEN Is("KEEP_INCUMBENT", k, {})
                                             ELSE Is("ADOPT_CANDIDATE", c, {})
  BY DEF Decision, c
<1>4. CASE c = Benchmark
  BY <1>1, <1>2, <1>3, <1>4
<1>5. CASE c # Benchmark
  <2>1. ~KnifeEdge(terminal, c) /\ c \in strong
    BY <1>2, <1>3, <1>5
  <2>2. \A k : Decision(terminal, k).selected = IF k \in Equivalent(terminal) THEN k ELSE c
    BY <1>3, <1>5, <2>1
  <2> QED BY <1>1, <1>2, <2>2
<1> QED BY <1>4, <1>5

LEMMA HoldingInitial == HoldingInit => HoldingInv
<1> SUFFICES ASSUME HoldingInit PROVE HoldingInv
  OBVIOUS
<1>1. terminal \in Evidence /\ \A x \in Cells : terminal[Benchmark][x] = 100
  BY CandidatesAssumption DEF HoldingInit, Evidence
<1>2. HasCells
  <2>1. feasible \in SUBSET Cells /\ Cardinality(feasible) = 1
    BY DEF HoldingInit
  <2>2. feasible # {}
    BY <2>1, FS_EmptySet
  <2> QED BY <2>1, <2>2 DEF HasCells
<1>3. drawdown \in DrawdownSet /\ verdict = NoVerdict /\ ~settled
  BY RankAssumption DEF HoldingInit, DrawdownSet
<1> QED BY <1>1, <1>2, <1>3 DEF HoldingInv, HoldingTyped, VerdictCurrent, HeldIsEquivalent, ReviewRepeatable

\* A record is one of the equivalents, and none that was is sold but for the benchmark.
LEMMA FreezeStep ==
  ASSUME HoldingInv, FreezePensionDecision
  PROVE  /\ HeldIsEquivalent' /\ ReviewRepeatable'
         /\ incumbent \in Equivalent(terminal) => incumbent' \in {incumbent, Benchmark}
<1>1. PICK agrees \in BOOLEAN : verdict = CrossChecked(Decision(terminal, incumbent), agrees)
  BY DEF HoldingInv, VerdictCurrent, FreezePensionDecision
<1>2. incumbent' = verdict.selected /\ verdict.status # "NO_DECISION" /\ UNCHANGED <<terminal, feasible, drawdown, strong>>
  BY DEF FreezePensionDecision
<1>3. /\ incumbent' \in Equivalent(terminal)
      /\ Decision(terminal, incumbent').selected = incumbent'
      /\ incumbent \in Equivalent(terminal) => incumbent' \in {incumbent, Benchmark}
  BY <1>1, <1>2, RulingFacts DEF HoldingInv
<1>4. Equivalent(terminal)' = Equivalent(terminal) /\ \A h : Decision(terminal, h)' = Decision(terminal, h)
  BY <1>2, SameDay
<1>5. Decision(terminal, incumbent)' = Decision(terminal, incumbent')
  BY <1>2 DEF Equivalent, Pool, Best, RobustScore, Dominates, Selection, Rank, Decision, KnifeEdge, GuardReasons
<1> QED BY <1>3, <1>4, <1>5 DEF HeldIsEquivalent, ReviewRepeatable

LEMMA HoldingStep == HoldingInv /\ [HoldingNext]_holdingVars => HoldingInv'
<1> SUFFICES ASSUME HoldingInv, [HoldingNext]_holdingVars PROVE HoldingInv'
  OBVIOUS
<1> USE DEF HoldingInv
<1>1. HoldingTyped'
  <2>1. ASSUME NEW c \in Candidates, NEW x \in Cells, NEW level \in Levels, PricesMove(c, x, level)
        PROVE  HoldingTyped'
    <3>1. level \in Nat
      BY CandidatesAssumption
    <3>2. terminal' = [terminal EXCEPT ![c][x] = level] /\ c # Benchmark /\ UNCHANGED <<feasible, drawdown>>
      BY <2>1 DEF PricesMove
    <3>3. terminal' \in Evidence /\ terminal'[Benchmark] = terminal[Benchmark]
      BY <3>1, <3>2, CandidatesAssumption DEF HoldingTyped, Evidence
    <3> QED BY <3>2, <3>3 DEF HoldingTyped, HasCells
  <2>2. ASSUME NEW x \in Cells, PanelGrows(x) PROVE HoldingTyped'
    BY <2>2 DEF PanelGrows, HoldingTyped, HasCells
  <2>3. CASE UNCHANGED <<terminal, feasible, drawdown>>
    BY <2>3 DEF HoldingTyped, HasCells
  <2> QED BY <2>1, <2>2, <2>3 DEF HoldingNext, BootstrapMoves, EvaluatePensionDecision, FreezePensionDecision, holdingVars
<1>2. CASE NewDay
  BY <1>1, <1>2 DEF NewDay, VerdictCurrent, HeldIsEquivalent, ReviewRepeatable
<1>3. CASE EvaluatePensionDecision
  <2>1. UNCHANGED <<terminal, feasible, drawdown, strong, incumbent, settled>>
    BY <1>3 DEF EvaluatePensionDecision
  <2>2. Equivalent(terminal)' = Equivalent(terminal) /\ Decision(terminal, incumbent)' = Decision(terminal, incumbent)
    BY <2>1 DEF Equivalent, Pool, Best, RobustScore, Dominates, Selection, Rank, Decision, KnifeEdge, GuardReasons
  <2>3. PICK agrees \in BOOLEAN : verdict' = CrossChecked(Decision(terminal, incumbent), agrees)
    BY <1>3 DEF EvaluatePensionDecision
  <2>4. VerdictCurrent'
    BY <2>2, <2>3 DEF VerdictCurrent, CrossChecked
  <2> QED BY <1>1, <2>1, <2>2, <2>4 DEF HeldIsEquivalent, ReviewRepeatable
<1>4. CASE FreezePensionDecision
  <2>1. VerdictCurrent'
    BY <1>4 DEF FreezePensionDecision, VerdictCurrent
  <2> QED BY <1>1, <1>4, <2>1, FreezeStep
<1>5. CASE UNCHANGED holdingVars
  <2>1. UNCHANGED <<terminal, feasible, drawdown, strong, incumbent, settled, verdict>>
    BY <1>5 DEF holdingVars
  <2>2. Equivalent(terminal)' = Equivalent(terminal) /\ Decision(terminal, incumbent)' = Decision(terminal, incumbent)
    BY <2>1 DEF Equivalent, Pool, Best, RobustScore, Dominates, Selection, Rank, Decision, KnifeEdge, GuardReasons
  <2>3. VerdictCurrent'
    BY <2>1, <2>2 DEF VerdictCurrent, CrossChecked
  <2> QED BY <1>1, <2>1, <2>2, <2>3 DEF HeldIsEquivalent, ReviewRepeatable
<1> QED BY <1>2, <1>3, <1>4, <1>5 DEF HoldingNext, PricesMove, PanelGrows, BootstrapMoves

\* The invariant is more than the promise of a record.
LEMMA HoldingImplied == HoldingInv => HoldingSound
<1> SUFFICES ASSUME HoldingInv PROVE HoldingSound
  OBVIOUS
<1>1. terminal \in Evidence /\ HasCells /\ drawdown \in DrawdownSet
  BY DEF HoldingInv, HoldingTyped
<1>2. BetterStaysSelected
  BY <1>1, BetterStays
<1>3. ASSUME settled PROVE HoldingLosesNoTier
  <2> DEFINE own == RobustScore(terminal, incumbent)
             best == Best(terminal, Pool(terminal))
  <2>1. incumbent \in Pool(terminal) /\ own >= best - Band
    BY <1>3 DEF HoldingInv, HeldIsEquivalent, Equivalent
  <2>2. incumbent \in Candidates /\ Benchmark \in Candidates /\ Band \in Nat
    BY <1>1, <2>1, PoolFacts, CandidatesAssumption
  <2>3. own \in Nat /\ \A x \in feasible : own =< terminal[incumbent][x] /\ terminal[incumbent][x] \in Nat
    BY <1>1, <2>2, ScoreFacts DEF Evidence, HasCells
  <2>4. best \in Int /\ \A c \in Pool(terminal) : RobustScore(terminal, c) =< best
    BY <1>1, BestFacts
  <2>5. \A x \in feasible : 100 * terminal[incumbent][x] >= (100 - Band) * terminal[Reference][x]
    BY <2>1 DEF Pool, Dominates
  <2>6. ASSUME NEW x \in feasible, Benchmark \in Pool(terminal)
        PROVE  terminal[incumbent][x] >= 100 - Band
    <3>1. RobustScore(terminal, Benchmark) = 100
      BY <1>1, <2>2, ScoreFacts DEF HoldingInv, HoldingTyped, HasCells
    <3> HIDE DEF own, best
    <3>2. 100 =< best
      BY <2>4, <2>6, <3>1
    <3> QED BY <2>1, <2>2, <2>3, <2>4, <3>2
  <2>7. ASSUME NEW c \in Candidates,
               \A x \in feasible : 100 * terminal[c][x] >= (100 - Band) * terminal[Reference][x]
        PROVE  \E x \in feasible : terminal[c][x] =< own + Band
    <3>1. c \in Pool(terminal)
      BY <2>7 DEF Pool, Dominates
    <3>2. PICK x \in feasible : RobustScore(terminal, c) = terminal[c][x]
      BY <1>1, ScoreFacts
    <3>3. RobustScore(terminal, c) \in Nat
      BY <1>1, ScoreFacts
    <3>4. RobustScore(terminal, c) =< best
      BY <2>4, <3>1
    <3> HIDE DEF own, best
    <3>5. RobustScore(terminal, c) =< own + Band
      BY <2>1, <2>2, <2>3, <2>4, <3>3, <3>4
    <3> QED BY <3>2, <3>5
  <2> QED BY <2>5, <2>6, <2>7 DEF HoldingLosesNoTier
<1>4. HoldingLosesNoTier
  BY <1>3 DEF HoldingLosesNoTier
<1> QED BY <1>2, <1>4 DEF HoldingSound, HoldingInv

\* Whatever prices, panels and bootstrap do between two reviews, the holding of
\* a record gives up no tier beyond the band, a second review of the same
\* evidence repeats it, and doing better never costs a candidate its selection
\* (evaluate_pension_decision, freeze_pension_decision).
THEOREM HoldingIsSound == HoldingSpec => []HoldingSound
<1>1. HoldingInit => HoldingInv
  BY HoldingInitial
<1>2. HoldingInv /\ [HoldingNext]_holdingVars => HoldingInv'
  BY HoldingStep
<1>3. HoldingInv => HoldingSound
  BY HoldingImplied
<1> QED BY <1>1, <1>2, <1>3, PTL DEF HoldingSpec

\* A review sells a holding that is still among the equivalents for nothing but
\* the benchmark (evaluate_pension_decision, freeze_pension_decision).
THEOREM HoldingIsStable == HoldingSpec => HoldingStable
<1>1. HoldingInit => HoldingInv
  BY HoldingInitial
<1>2. HoldingInv /\ [HoldingNext]_holdingVars => HoldingInv'
  BY HoldingStep
<1>3. ASSUME HoldingInv, [HoldingNext]_holdingVars
      PROVE  [(incumbent \in Equivalent(terminal) /\ incumbent' # incumbent) => (incumbent' = Benchmark)]_holdingVars
  <2>1. CASE FreezePensionDecision
    BY <1>3, <2>1, FreezeStep
  <2>2. CASE incumbent' = incumbent
    BY <2>2
  <2> QED BY <1>3, <2>1, <2>2 DEF HoldingNext, PricesMove, PanelGrows, BootstrapMoves, EvaluatePensionDecision, holdingVars
<1> QED BY <1>1, <1>2, <1>3, PTL DEF HoldingSpec, HoldingStable

-----------------------------------------------------------------------------
(* The operating policy of the ISA *)

ArmNets == [ArmSet -> Nat]

LEMMA ArmsAreListed ==
  /\ BaselineArmId \in ArmSet
  /\ Len(IsaArms) \in Nat /\ DOMAIN IsaArms = 1 .. Len(IsaArms) /\ 1 \in DOMAIN IsaArms
<1>1. Len(IsaArms) \in Nat /\ DOMAIN IsaArms = 1 .. Len(IsaArms) /\ Len(IsaArms) # 0
  BY IsaAssumption
<1> QED BY <1>1, IsaAssumption DEF ArmSet

\* The best of the arms is selected up to the band, the baseline first.
LEMMA BestArm ==
  ASSUME NEW robust \in ArmNets
  PROVE  \E a \in ArmSet :
           /\ \A b \in ArmSet : robust[b] =< robust[a]
           /\ SelectBest(robust) \in ArmSet /\ robust[SelectBest(robust)] >= robust[a] - IsaBand
           /\ SelectBest(robust) # BaselineArmId => robust[BaselineArmId] < robust[a] - IsaBand
<1> DEFINE scores == {robust[b] : b \in ArmSet}
           best == Max(scores)
           close == {i \in DOMAIN IsaArms : robust[IsaArms[i]] >= best - IsaBand}
<1>1. DOMAIN IsaArms # {} /\ IsFiniteSet(DOMAIN IsaArms) /\ DOMAIN IsaArms \subseteq Nat
  <2>1. IsFiniteSet(1 .. Len(IsaArms))
    BY ArmsAreListed, FS_Interval
  <2> QED BY <2>1, ArmsAreListed
<1>2. \A i \in DOMAIN IsaArms : IsaArms[i] \in ArmSet
  BY DEF ArmSet
<1> DEFINE f == [i \in DOMAIN IsaArms |-> robust[IsaArms[i]]]
<1>3. \A i \in DOMAIN IsaArms : f[i] = robust[IsaArms[i]] /\ f[i] \in Int
  BY <1>2 DEF ArmNets
<1>4. scores = {f[i] : i \in DOMAIN IsaArms}
  BY <1>3 DEF ArmSet
<1> HIDE DEF f, scores
<1>5. best \in Int /\ (\E i \in DOMAIN IsaArms : best = f[i]) /\ \A i \in DOMAIN IsaArms : f[i] =< best
  <2> DEFINE D == DOMAIN IsaArms
  <2>1. D # {} /\ IsFiniteSet(D) /\ \A i \in D : f[i] \in Int
    BY <1>1, <1>3
  <2> HIDE DEF D
  <2>2. LET m == Max({f[i] : i \in D})
        IN  m \in Int /\ (\E i \in D : m = f[i]) /\ \A i \in D : f[i] =< m
    BY <2>1, MaxOfValues
  <2>3. best = Max({f[i] : i \in D})
    BY <1>4 DEF D
  <2> QED BY <2>2, <2>3 DEF D
<1>6. PICK i \in DOMAIN IsaArms : best = robust[IsaArms[i]]
  BY <1>3, <1>5
<1>7. \A b \in ArmSet : robust[b] =< best
  BY <1>3, <1>5 DEF ArmSet
<1>8. i \in close
  BY <1>5, <1>6, IsaAssumption
<1> DEFINE first == Min(close)
<1>9. first \in close /\ \A j \in close : first =< j
  <2>1. close \subseteq Nat /\ close # {}
    BY <1>1, <1>8
  <2> HIDE DEF close
  <2> QED BY <2>1, MinOfNats
<1>10. SelectBest(robust) = IsaArms[first]
  BY DEF SelectBest, scores
<1>11. SelectBest(robust) \in ArmSet /\ robust[SelectBest(robust)] >= best - IsaBand
  BY <1>2, <1>9, <1>10
<1>12. ASSUME SelectBest(robust) # BaselineArmId PROVE robust[BaselineArmId] < best - IsaBand
  <2>1. 1 \notin close
    <3> SUFFICES ASSUME 1 \in close PROVE first = 1
      BY <1>10, <1>12, IsaAssumption
    <3> HIDE DEF close
    <3>1. first =< 1 /\ first \in DOMAIN IsaArms
      BY <1>9 DEF close
    <3> QED BY <3>1, ArmsAreListed
  <2>2. robust[BaselineArmId] \in Int /\ best - IsaBand \in Int
    BY <1>5, ArmsAreListed, IsaAssumption DEF ArmNets
  <2> QED BY <2>1, <2>2, ArmsAreListed, IsaAssumption
<1> QED BY <1>2, <1>6, <1>7, <1>11, <1>12

\* The worst life of an arm.
LEMMA WorstLife ==
  ASSUME NEW net \in [ArmSet -> [lives -> IsaLevels]], NEW L, L # {}, L \subseteq lives
  PROVE  /\ WorstOver(net, L) \in ArmNets
         /\ \A a \in ArmSet : /\ \A l \in L : WorstOver(net, L)[a] =< net[a][l]
                              /\ \E l \in L : WorstOver(net, L)[a] = net[a][l]
<1>1. ASSUME NEW a \in ArmSet
      PROVE  LET T == {net[a][l] : l \in L}
             IN  Min(T) \in Nat /\ (\A l \in L : Min(T) =< net[a][l]) /\ \E l \in L : Min(T) = net[a][l]
  <2> DEFINE T == {net[a][l] : l \in L}
  <2>1. T \subseteq Nat /\ T # {}
    <3>1. \A l \in L : net[a][l] \in IsaLevels
      OBVIOUS
    <3> QED BY <3>1, IsaAssumption
  <2>2. Min(T) \in T /\ \A y \in T : Min(T) =< y
    <3> HIDE DEF T
    <3> QED BY <2>1, MinOfNats
  <2> QED BY <2>1, <2>2
<1> QED BY <1>1 DEF WorstOver, ArmNets

\* What is behind a verdict that may be frozen.
Justified(d) ==
  d.status \in FreezableStatuses /\ d.selected # BaselineArmId =>
    /\ d.scores[d.selected] > 100
    /\ \E a \in ArmSet : d.scores[a] > 100 + IsaBand
    /\ \A a \in ArmSet : d.scores[a] =< d.scores[d.selected] + IsaBand
    /\ \A y \in DrawingYears : d.drawn[y] = d.selected
    /\ d.won = DOMAIN d.best
    /\ \A p \in DOMAIN d.best : d.best[p] # BaselineArmId

\* A lock-up that is worth more than the band over all lives together is
\* worth more than the band to every profile.
LEMMA BudgetJustified ==
  ASSUME lives # {}, NEW net \in [ArmSet -> [lives -> IsaLevels]], \A l \in lives : net[BaselineArmId][l] = 100,
         NEW won, NEW drawn, NEW d,
         LET selected == SelectBest(WorstOver(net, lives))
         IN  d = [status |-> Status(selected, won, drawn), selected |-> selected, won |-> won,
                  scores |-> WorstOver(net, lives), best |-> ProfileBest(net), drawn |-> drawn]
  PROVE  Justified(d)
<1> DEFINE robust == WorstOver(net, lives)
           selected == SelectBest(robust)
<1> SUFFICES ASSUME d.status \in FreezableStatuses, selected # BaselineArmId
             PROVE  /\ robust[selected] > 100
                    /\ \E a \in ArmSet : robust[a] > 100 + IsaBand
                    /\ \A a \in ArmSet : robust[a] =< robust[selected] + IsaBand
                    /\ \A y \in DrawingYears : drawn[y] = selected
                    /\ won = DOMAIN ProfileBest(net)
                    /\ \A p \in DOMAIN ProfileBest(net) : ProfileBest(net)[p] # BaselineArmId
  BY DEF Justified
<1>1. d.status = Status(selected, won, drawn) /\ d.status \in {"ADOPT_ARM", "KEEP_BASELINE"}
  BY DEF FreezableStatuses
<1> HIDE DEF selected
<1>2. won = {Profile[l] : l \in lives} /\ \A y \in DrawingYears : drawn[y] = selected
  BY <1>1 DEF Status
<1>3. robust \in ArmNets /\ robust[BaselineArmId] = 100 /\ \A a \in ArmSet, l \in lives : robust[a] =< net[a][l]
  <2>1. /\ WorstOver(net, lives) \in ArmNets
        /\ \A a \in ArmSet : /\ \A l \in lives : WorstOver(net, lives)[a] =< net[a][l]
                             /\ \E l \in lives : WorstOver(net, lives)[a] = net[a][l]
    BY WorstLife
  <2> QED BY <2>1, ArmsAreListed
<1> HIDE DEF robust
<1>4. PICK a \in ArmSet : /\ \A b \in ArmSet : robust[b] =< robust[a]
                          /\ selected \in ArmSet /\ robust[selected] >= robust[a] - IsaBand
                          /\ robust[BaselineArmId] < robust[a] - IsaBand
  BY <1>3, BestArm DEF selected
<1>5. IsaBand \in Nat /\ \A b \in ArmSet : robust[b] \in Nat
  BY <1>3, IsaAssumption DEF ArmNets
<1>6. robust[selected] > 100 /\ robust[a] > 100 + IsaBand /\ \A b \in ArmSet : robust[b] =< robust[selected] + IsaBand
  BY <1>3, <1>4, <1>5
<1>7. ASSUME NEW p \in {Profile[l] : l \in lives}
      PROVE  SelectBest(WorstOver(net, {l \in lives : Profile[l] = p})) # BaselineArmId
  <2> DEFINE own == {l \in lives : Profile[l] = p}
             worst == WorstOver(net, own)
  <2>1. own # {} /\ own \subseteq lives
    OBVIOUS
  <2> HIDE DEF own
  <2>2. /\ worst \in ArmNets
        /\ \A b \in ArmSet : \E l \in own : worst[b] = net[b][l]
    <3>1. /\ WorstOver(net, own) \in ArmNets
          /\ \A b \in ArmSet : /\ \A l \in own : WorstOver(net, own)[b] =< net[b][l]
                               /\ \E l \in own : WorstOver(net, own)[b] = net[b][l]
      BY <2>1, WorstLife
    <3> QED BY <3>1
  <2>3. worst[BaselineArmId] = 100
    BY <2>1, <2>2, ArmsAreListed
  <2>4. worst[a] >= robust[a]
    BY <1>3, <2>1, <2>2, <1>4
  <2> HIDE DEF worst
  <2>5. PICK b \in ArmSet : /\ \A c \in ArmSet : worst[c] =< worst[b]
                            /\ SelectBest(worst) \in ArmSet /\ worst[SelectBest(worst)] >= worst[b] - IsaBand
    BY <2>2, BestArm
  <2>6. worst[a] \in Nat /\ worst[b] \in Nat /\ worst[SelectBest(worst)] \in Nat
    BY <2>2, <2>5 DEF ArmNets
  <2>7. worst[SelectBest(worst)] > 100
    BY <1>4, <1>5, <1>6, <2>4, <2>5, <2>6
  <2>8. SelectBest(worst) # BaselineArmId
    BY <2>3, <2>7
  <2> QED BY <2>8 DEF worst, own
<1>8. /\ DOMAIN ProfileBest(net) = {Profile[l] : l \in lives}
      /\ \A p \in DOMAIN ProfileBest(net) : ProfileBest(net)[p] # BaselineArmId
  BY <1>7 DEF ProfileBest
<1> QED BY <1>2, <1>4, <1>6, <1>8

\* Appending keeps what is there and adds one.
LEMMA Appended ==
  ASSUME NEW s, s \in Seq({s[i] : i \in DOMAIN s}), NEW e, NEW r, r = Append(s, e)
  PROVE  /\ r \in Seq({r[i] : i \in DOMAIN r})
         /\ \A i \in DOMAIN r : r[i] = e \/ (i \in DOMAIN s /\ r[i] = s[i])
<1> DEFINE S == {s[i] : i \in DOMAIN s} \cup {e}
<1>1. s \in Seq(S) /\ e \in S
  OBVIOUS
<1> HIDE DEF S
<1>2. r \in Seq(S) /\ Len(r) = Len(s) + 1 /\ \A i \in 1 .. Len(r) : r[i] = IF i = Len(r) THEN e ELSE s[i]
  BY <1>1
<1>3. DOMAIN r = 1 .. Len(r) /\ DOMAIN s = 1 .. Len(s) /\ Len(s) \in Nat /\ Len(r) \in Nat
  BY <1>1, <1>2
<1>4. r \in Seq({r[i] : i \in DOMAIN r})
  BY <1>2, <1>3
<1> QED BY <1>2, <1>3, <1>4

IsaInv ==
  /\ lives # {}
  /\ decisions \in Seq({decisions[i] : i \in DOMAIN decisions})
  /\ \A i \in DOMAIN decisions : Justified(decisions[i])
  /\ frozen => Len(decisions) = Budgets /\ \A i \in DOMAIN decisions : decisions[i].status \in FreezableStatuses

LEMMA IsaStep == IsaInv /\ [IsaNext]_isaVars => IsaInv'
<1> SUFFICES ASSUME IsaInv, [IsaNext]_isaVars PROVE IsaInv'
  OBVIOUS
<1>1. CASE DecideBudget
  <2>1. Len(decisions) < Budgets /\ UNCHANGED <<lives, frozen>>
    BY <1>1 DEF DecideBudget
  <2>2. PICK d : decisions' = Append(decisions, d) /\ Justified(d)
    <3>1. PICK net \in [ArmSet -> [lives -> IsaLevels]], won \in SUBSET {Profile[l] : l \in lives},
               shift \in [DrawingYears -> Revaluations] :
            LET selected == SelectBest(WorstOver(net, lives))
                revalued(y) == [a \in ArmSet |-> [l \in lives |-> net[a][l] + shift[y][a]]]
                drawn == [y \in DrawingYears |-> SelectBest(WorstOver(revalued(y), lives))]
            IN  /\ \A l \in lives : net[BaselineArmId][l] = 100
                /\ decisions' = Append(decisions,
                     [status |-> Status(selected, won, drawn), selected |-> selected, won |-> won,
                      scores |-> WorstOver(net, lives), best |-> ProfileBest(net), drawn |-> drawn])
      BY <1>1 DEF DecideBudget
    <3> DEFINE selected == SelectBest(WorstOver(net, lives))
               revalued(y) == [a \in ArmSet |-> [l \in lives |-> net[a][l] + shift[y][a]]]
               drawn == [y \in DrawingYears |-> SelectBest(WorstOver(revalued(y), lives))]
               d == [status |-> Status(selected, won, drawn), selected |-> selected, won |-> won,
                     scores |-> WorstOver(net, lives), best |-> ProfileBest(net), drawn |-> drawn]
    <3>2. Justified(d)
      <4>1. lives # {} /\ \A l \in lives : net[BaselineArmId][l] = 100
        BY <3>1 DEF IsaInv
      <4> HIDE DEF drawn
      <4>2. LET chosen == SelectBest(WorstOver(net, lives))
            IN  d = [status |-> Status(chosen, won, drawn), selected |-> chosen, won |-> won,
                     scores |-> WorstOver(net, lives), best |-> ProfileBest(net), drawn |-> drawn]
        OBVIOUS
      <4> HIDE DEF d
      <4> QED BY <4>1, <4>2, BudgetJustified
    <3>3. decisions' = Append(decisions, d)
      BY <3>1
    <3> HIDE DEF d
    <3> QED BY <3>2, <3>3
  <2>3. /\ decisions' \in Seq({decisions'[i] : i \in DOMAIN decisions'})
        /\ \A i \in DOMAIN decisions' : decisions'[i] = d \/ (i \in DOMAIN decisions /\ decisions'[i] = decisions[i])
    BY <2>2, Appended DEF IsaInv
  <2>4. \A i \in DOMAIN decisions' : Justified(decisions'[i])
    BY <2>2, <2>3 DEF IsaInv
  <2>5. ~frozen
    BY <2>1 DEF IsaInv
  <2> QED BY <2>1, <2>3, <2>4, <2>5 DEF IsaInv, Justified
<1>2. CASE FreezeIsaDecision
  BY <1>2 DEF FreezeIsaDecision, IsaInv, Justified
<1>3. CASE UNCHANGED isaVars
  BY <1>3 DEF isaVars, IsaInv, Justified
<1> QED BY <1>1, <1>2, <1>3 DEF IsaNext

\* For any arms, lives and band: an arm of a frozen policy is richer than the
\* baseline in every life, and the lock-up is paid for in every profile, under
\* every drawing horizon (evaluate_isa_household, freeze_isa_household_decision).
THEOREM PolicyPays == IsaSpec => []PolicyPaysInEveryLife
<1>1. IsaInit => IsaInv
  BY DEF IsaInit, IsaInv
<1>2. IsaInv /\ [IsaNext]_isaVars => IsaInv'
  BY IsaStep
<1>3. IsaInv => PolicyPaysInEveryLife
  BY DEF IsaInv, PolicyPaysInEveryLife, Justified
<1> QED BY <1>1, <1>2, <1>3, PTL DEF IsaSpec

-----------------------------------------------------------------------------
(* The plans *)

LEMMA SeqSetFinite == ASSUME NEW s \in Seq(Int) PROVE IsFiniteSet(SeqSet(s)) /\ SeqSet(s) \subseteq Int
<1>1. DOMAIN s = 1 .. Len(s) /\ Len(s) \in Nat /\ \A i \in DOMAIN s : s[i] \in Int
  OBVIOUS
<1>2. IsFiniteSet(DOMAIN s)
  BY <1>1, FS_Interval
<1>3. IsFiniteSet({s[i] : i \in DOMAIN s})
  BY <1>2, ImageFinite
<1> QED BY <1>1, <1>3 DEF SeqSet

LEMMA Concatenated ==
  ASSUME NEW S, NEW s \in Seq(S), NEW r \in Seq(S)
  PROVE  s \o r \in Seq(S) /\ SeqSet(s \o r) = SeqSet(s) \cup SeqSet(r)
<1>1. s \o r \in Seq(S) /\ Len(s \o r) = Len(s) + Len(r)
  OBVIOUS
<1>2. \A i \in 1 .. Len(s) + Len(r) : (s \o r)[i] = IF i =< Len(s) THEN s[i] ELSE r[i - Len(s)]
  OBVIOUS
<1>3. /\ DOMAIN s = 1 .. Len(s) /\ DOMAIN r = 1 .. Len(r) /\ Len(s) \in Nat /\ Len(r) \in Nat
      /\ DOMAIN (s \o r) = 1 .. Len(s) + Len(r)
  BY <1>1
<1>4. ASSUME NEW x \in SeqSet(s \o r) PROVE x \in SeqSet(s) \cup SeqSet(r)
  BY <1>2, <1>3 DEF SeqSet
<1>5. ASSUME NEW x \in SeqSet(s) PROVE x \in SeqSet(s \o r)
  BY <1>2, <1>3 DEF SeqSet
<1>6. ASSUME NEW x \in SeqSet(r) PROVE x \in SeqSet(s \o r)
  <2>1. PICK i \in 1 .. Len(r) : x = r[i]
    BY <1>3 DEF SeqSet
  <2>2. i + Len(s) \in 1 .. Len(s) + Len(r) /\ ~(i + Len(s) =< Len(s)) /\ i + Len(s) - Len(s) = i
    BY <1>3, <2>1
  <2>3. (s \o r)[i + Len(s)] = x
    BY <1>2, <2>1, <2>2
  <2> QED BY <1>3, <2>2, <2>3 DEF SeqSet
<1> QED BY <1>1, <1>4, <1>5, <1>6

\* A plan that loaded, and its entries.
Loaded(f) ==
  \/ f.kind = "holding" /\ PensionEntries(f) /\ LoadPensionDecisionSpec(f)
  \/ f.kind = "isa" /\ HouseholdEntries(f) /\ LoadIsaHouseholdSpec(f)

\* Its cells: every horizon on both panels, every realized one on its own.
LEMMA CellFacts ==
  ASSUME NEW f, Loaded(f)
  PROVE  /\ Len(CellsOf(f)) \in Nat /\ DOMAIN CellsOf(f) = 1 .. Len(CellsOf(f))
         /\ \A h \in SeqSet(f.horizons) : <<"century", h>> \in SeqSet(CellsOf(f))
         /\ \A c \in SeqSet(CellsOf(f)) :
              \/ c[1] \in {"modern", "century"} /\ c[2] \in SeqSet(f.horizons)
              \/ f.kind = "holding" /\ c[1] = "realized" /\ c[2] \in SeqSet(f.realized)
<1> DEFINE tier(name, horizons) == [i \in DOMAIN horizons |-> <<name, horizons[i]>>]
           both == tier("modern", f.horizons) \o tier("century", f.horizons)
           own == IF f.kind = "holding" THEN tier("realized", f.realized) ELSE <<>>
           Names == {"modern", "century", "realized"}
           S == Names \X Int
<1>1. ASSUME NEW name \in Names, NEW h \in Seq(Int)
      PROVE  tier(name, h) \in Seq(S) /\ SeqSet(tier(name, h)) = {<<name, x>> : x \in SeqSet(h)}
  <2>1. DOMAIN h = 1 .. Len(h) /\ Len(h) \in Nat /\ \A i \in DOMAIN h : h[i] \in Int
    OBVIOUS
  <2>2. tier(name, h) \in Seq(S)
    <3>1. tier(name, h) \in [1 .. Len(h) -> S]
      BY <2>1
    <3> HIDE DEF tier, S
    <3> QED BY <2>1, <3>1, SeqDef
  <2>3. DOMAIN tier(name, h) = DOMAIN h /\ \A i \in DOMAIN h : tier(name, h)[i] = <<name, h[i]>>
    OBVIOUS
  <2> HIDE DEF tier
  <2> QED BY <2>2, <2>3 DEF SeqSet
<1>2. f.horizons \in Seq(Int) /\ f.kind \in {"holding", "isa"} /\ (f.kind = "holding" => f.realized \in Seq(Int))
  BY DEF Loaded, PensionEntries, HouseholdEntries
<1>3. /\ tier("modern", f.horizons) \in Seq(S) /\ tier("century", f.horizons) \in Seq(S)
      /\ SeqSet(tier("modern", f.horizons)) = {<<"modern", x>> : x \in SeqSet(f.horizons)}
      /\ SeqSet(tier("century", f.horizons)) = {<<"century", x>> : x \in SeqSet(f.horizons)}
  <2>1. "modern" \in Names /\ "century" \in Names
    OBVIOUS
  <2> HIDE DEF tier, S
  <2> QED BY <1>1, <1>2, <2>1
<1>4. own \in Seq(S) /\ SeqSet(own) = IF f.kind = "holding" THEN {<<"realized", x>> : x \in SeqSet(f.realized)} ELSE {}
  <2>1. CASE f.kind = "holding"
    <3>1. "realized" \in Names /\ f.realized \in Seq(Int) /\ own = tier("realized", f.realized)
      BY <1>2, <2>1
    <3> HIDE DEF tier, own, S
    <3> QED BY <1>1, <2>1, <3>1
  <2>2. CASE f.kind # "holding"
    <3>1. own = <<>>
      BY <2>2
    <3> HIDE DEF own
    <3> QED BY <2>2, <3>1 DEF SeqSet
  <2> QED BY <2>1, <2>2
<1>5. CellsOf(f) = both \o own
  BY DEF CellsOf
<1> HIDE DEF tier, own, S, Names
<1>6. both \in Seq(S) /\ SeqSet(both) = {<<n, x>> : n \in {"modern", "century"}, x \in SeqSet(f.horizons)}
  <2>1. both \in Seq(S) /\ SeqSet(both) = SeqSet(tier("modern", f.horizons)) \cup SeqSet(tier("century", f.horizons))
    BY <1>3, Concatenated
  <2> QED BY <1>3, <2>1
<1> HIDE DEF both
<1>7. CellsOf(f) \in Seq(S) /\ SeqSet(CellsOf(f)) = SeqSet(both) \cup SeqSet(own)
  BY <1>4, <1>5, <1>6, Concatenated
<1>8. Len(CellsOf(f)) \in Nat /\ DOMAIN CellsOf(f) = 1 .. Len(CellsOf(f))
  BY <1>7
<1>9. \A h \in SeqSet(f.horizons) : <<"century", h>> \in SeqSet(CellsOf(f))
  BY <1>6, <1>7
<1>10. ASSUME NEW c \in SeqSet(CellsOf(f))
       PROVE  \/ c[1] \in {"modern", "century"} /\ c[2] \in SeqSet(f.horizons)
              \/ f.kind = "holding" /\ c[1] = "realized" /\ c[2] \in SeqSet(f.realized)
  <2>1. CASE c \in SeqSet(both)
    BY <1>6, <2>1
  <2>2. CASE c \in SeqSet(own)
    BY <1>4, <2>2
  <2> QED BY <1>7, <2>1, <2>2
<1> QED BY <1>8, <1>9, <1>10

\* The realized panel starts where every fund of the candidates has prices.
LEMMA RealizedFacts ==
  ASSUME NEW f, f.kind = "holding", PensionEntries(f)
  PROVE  /\ RealizedStart(f) \in Int
         /\ \A s \in DOMAIN f.splices \cap SleevesOf(Schedules(f)) : f.splices[s] \in Int /\ f.splices[s] =< RealizedStart(f)
         /\ CalendarMonths(RealizedWindow(f)) = f.modern.last - RealizedStart(f) + 1
         /\ f.modern.whole => PanelLength(RealizedWindow(f)) = f.modern.last - RealizedStart(f) + 1
<1> DEFINE A == DOMAIN f.splices \cap SleevesOf(Schedules(f))
           T == {f.splices[s] : s \in A} \cup {f.modern.first}
<1>1. f.modern \in PlanWindows /\ f.splices \in [DOMAIN f.splices -> Int] /\ IsFiniteSet(DOMAIN f.splices)
  BY DEF PensionEntries
<1>2. IsFiniteSet(A)
  BY <1>1, FS_Subset
<1>3. IsFiniteSet({f.splices[s] : s \in A})
  <2> HIDE DEF A
  <2> QED BY <1>2, ImageFinite
<1>4. IsFiniteSet(T)
  <2> DEFINE B == {f.splices[s] : s \in A}
  <2> HIDE DEF B
  <2>1. IsFiniteSet(B \cup {f.modern.first})
    BY <1>3, FS_AddElement DEF B
  <2> QED BY <2>1 DEF B
<1>5. T # {} /\ T \subseteq Int
  BY <1>1 DEF PlanWindows
<1>6. RealizedStart(f) = Max(T)
  <2>1. T = {f.modern.first} \cup {f.splices[s] : s \in A}
    OBVIOUS
  <2> HIDE DEF T
  <2> QED BY <2>1 DEF RealizedStart
<1>7. RealizedStart(f) \in T /\ \A y \in T : y =< RealizedStart(f)
  <2> HIDE DEF T
  <2> QED BY <1>4, <1>5, <1>6, ExtremesOf
<1>8. RealizedStart(f) \in Int
  BY <1>5, <1>7
<1> HIDE DEF RealizedStart
<1>9. RealizedWindow(f) = [f.modern EXCEPT !.first = RealizedStart(f)]
  BY DEF RealizedWindow
<1>10. /\ RealizedWindow(f).first = RealizedStart(f)
       /\ RealizedWindow(f).last = f.modern.last /\ RealizedWindow(f).whole = f.modern.whole
  BY <1>1, <1>9 DEF PlanWindows
<1>11. f.modern.last \in Int
  BY <1>1 DEF PlanWindows
<1> QED BY <1>1, <1>7, <1>8, <1>10, <1>11 DEF CalendarMonths, PanelLength

LEMMA LongestHorizon ==
  ASSUME NEW f, Loaded(f)
  PROVE  /\ SeqSet(f.horizons) # {} /\ SeqSet(f.horizons) \subseteq Int
         /\ Max(SeqSet(f.horizons)) \in SeqSet(f.horizons)
         /\ \A h \in SeqSet(f.horizons) : h =< Max(SeqSet(f.horizons)) /\ Min(SeqSet(f.horizons)) =< h
         /\ Min(SeqSet(f.horizons)) \in Int
<1>1. f.horizons \in Seq(Int) /\ f.horizons # <<>>
  BY DEF Loaded, PensionEntries, HouseholdEntries, LoadPensionDecisionSpec, HorizonsHold, LoadIsaHouseholdSpec
<1>2. 1 \in DOMAIN f.horizons
  BY <1>1
<1>3. SeqSet(f.horizons) # {}
  BY <1>2 DEF SeqSet
<1>4. IsFiniteSet(SeqSet(f.horizons)) /\ SeqSet(f.horizons) \subseteq Int
  BY <1>1, SeqSetFinite
<1> QED BY <1>3, <1>4, ExtremesOf

\* No cell of a careful plan fails.
LEMMA CarefulCells ==
  ASSUME NEW f, Loaded(f), Careful(f), NEW c \in SeqSet(CellsOf(f))
  PROVE  ~CellFails(f, c)
<1>1. CASE c[1] \in {"modern", "century"} /\ c[2] \in SeqSet(f.horizons)
  <2>1. c[2] \in Int /\ c[2] \in Horizons(f) /\ Min(SeqSet(f.horizons)) =< c[2] /\ Min(SeqSet(f.horizons)) \in Int
    BY <1>1, LongestHorizon DEF Horizons
  <2>2. \A s \in Active(f, c[1]) : s.glide \in Glides(f) /\ s.glide \in Int
    BY <1>1 DEF Active, Glides, Loaded, PensionEntries, HouseholdEntries
  <2>3. \A s \in Active(f, c[1]) : s.glide =< c[2]
    BY <2>1, <2>2 DEF Careful
  <2>4. f.kind = "holding" => f.pre \in Int /\ f.pre =< 12 * Min(SeqSet(f.horizons))
    BY DEF Loaded, PensionEntries, LoadPensionDecisionSpec, HorizonsHold
  <2>5. f.kind = "holding" => ~(f.pre > 12 * c[2])
    BY <2>1, <2>4
  <2> QED BY <1>1, <2>1, <2>2, <2>3, <2>5 DEF CellFails
<1>2. CASE f.kind = "holding" /\ c[1] = "realized" /\ c[2] \in SeqSet(f.realized)
  <2>1. PensionEntries(f) /\ LoadPensionDecisionSpec(f)
    BY <1>2 DEF Loaded
  <2>2. PICK i \in DOMAIN f.realized : c[2] = f.realized[i]
    BY <1>2 DEF SeqSet
  <2>3. c[2] \in Int /\ c[2] \in Horizons(f)
    BY <1>2, <2>1, <2>2 DEF PensionEntries, Horizons
  <2>4. \A s \in Active(f, c[1]) : s.glide \in Glides(f) /\ s.glide \in Int
    BY <1>2, <2>1 DEF Active, Glides, PensionEntries
  <2>5. \A s \in Active(f, c[1]) : s.glide =< c[2]
    BY <2>3, <2>4 DEF Careful
  <2>6. f.pre \in Int /\ f.pre =< 12 * c[2]
    BY <1>2, <2>1, <2>2 DEF PensionEntries, Careful
  <2>7. 12 * c[2] =< PanelLength(RealizedWindow(f))
    <3>1. 12 * c[2] =< CalendarMonths(RealizedWindow(f)) /\ f.modern.whole
      BY <1>2, <2>1, <2>2 DEF LoadPensionDecisionSpec, RealizedHolds, Careful
    <3> QED BY <1>2, <2>1, <3>1, RealizedFacts
  <2>8. CellFits(f, c)
    BY <1>2, <2>7 DEF CellFits, PanelOf
  <2> QED BY <2>3, <2>4, <2>5, <2>6, <2>8 DEF CellFails
<1> QED BY <1>1, <1>2, CellFacts

\* Nor does what is looked at before the first cell, or after the last.
LEMMA CarefulEnters ==
  ASSUME NEW f, Loaded(f), Careful(f)
  PROVE  \/ f.kind = "holding" /\ DragsKnown(f) /\ PanelLength(f.modern) > 0 /\ CenturyPublic(f)
         \/ f.kind = "isa" /\ HoldingKnown(f) /\ CenturyPublic(f)
<1>1. CASE f.kind = "holding"
  <2>1. /\ f.modern \in PlanWindows /\ f.modern.first =< f.modern.last /\ f.modern.whole
        /\ DragsKnown(f) /\ CenturyPublic(f)
    BY <1>1 DEF Loaded, PensionEntries, LoadPensionDecisionSpec, WindowsHold, Careful
  <2>2. PanelLength(f.modern) > 0
    BY <2>1 DEF PanelLength, PlanWindows
  <2> QED BY <1>1, <2>1, <2>2
<1>2. CASE f.kind = "isa"
  BY <1>2 DEF Careful
<1> QED BY <1>1, <1>2 DEF Loaded

LEMMA CarefulCentury ==
  ASSUME NEW f, Loaded(f), Careful(f)
  PROVE  /\ \A h \in SeqSet(f.horizons) : CellFits(f, <<"century", h>>)
         /\ ~(12 * Max(SeqSet(f.horizons)) > PanelOf(f, "century"))
         /\ ~(f.blocks > PanelOf(f, "century"))
<1>1. PanelOf(f, "century") = PanelLength(f.century)
  BY DEF PanelOf
<1>2. PanelLength(f.century) \in Int /\ f.blocks \in Int
  BY DEF Loaded, PensionEntries, HouseholdEntries, PanelLength, PlanWindows
<1>3. /\ \A h \in SeqSet(f.horizons) : 12 * h =< PanelLength(f.century)
      /\ f.blocks =< PanelLength(f.century)
  BY DEF Careful
<1>4. Max(SeqSet(f.horizons)) \in SeqSet(f.horizons) /\ Max(SeqSet(f.horizons)) \in Int
  BY LongestHorizon
<1>5. \A h \in SeqSet(f.horizons) : CellFits(f, <<"century", h>>)
  BY <1>1, <1>3 DEF CellFits
<1> QED BY <1>1, <1>2, <1>3, <1>4, <1>5

\* What was scored before cell n.
Fitting(f, n) ==
  {CellsOf(f)[i] : i \in {j \in DOMAIN CellsOf(f) : j < n /\ CellFits(f, CellsOf(f)[j])}}

LEMMA FittingGrows ==
  ASSUME NEW f, Loaded(f), NEW n \in DOMAIN CellsOf(f)
  PROVE  Fitting(f, n + 1) =
           IF CellFits(f, CellsOf(f)[n]) THEN Fitting(f, n) \cup {CellsOf(f)[n]} ELSE Fitting(f, n)
<1>1. DOMAIN CellsOf(f) = 1 .. Len(CellsOf(f)) /\ Len(CellsOf(f)) \in Nat
  BY CellFacts
<1>2. \A j \in DOMAIN CellsOf(f) : j < n + 1 <=> j < n \/ j = n
  BY <1>1
<1> QED BY <1>2 DEF Fitting

LEMMA AllFitting ==
  ASSUME NEW f, Loaded(f)
  PROVE  /\ Fitting(f, 1) = {}
         /\ Fitting(f, Len(CellsOf(f)) + 1) = {c \in SeqSet(CellsOf(f)) : CellFits(f, c)}
<1>1. DOMAIN CellsOf(f) = 1 .. Len(CellsOf(f)) /\ Len(CellsOf(f)) \in Nat
  BY CellFacts
<1>2. \A j \in DOMAIN CellsOf(f) : ~(j < 1) /\ j < Len(CellsOf(f)) + 1
  BY <1>1
<1> QED BY <1>2 DEF Fitting, SeqSet

PlansInv ==
  /\ file \in PensionFiles \cup HouseholdFiles
  /\ stage # "crashed"
  /\ stage \in {"filed", "loaded"} => scored = {}
  /\ stage \in {"loaded", "scoring", "drawn", "decided"} => Loaded(file)
  /\ stage = "scoring" => cursor \in 1 .. Len(CellsOf(file)) + 1 /\ scored = Fitting(file, cursor)
  /\ stage \in {"drawn", "decided"} =>
       /\ scored = {c \in SeqSet(CellsOf(file)) : CellFits(file, c)}
       /\ CellFits(file, <<"century", Max(SeqSet(file.horizons))>>)
  /\ stage = "stopped" => ~Careful(file)

LEMMA PlansStep == PlansInv /\ [PlansNext]_planVars => PlansInv'
<1> SUFFICES ASSUME PlansInv, [PlansNext]_planVars PROVE PlansInv'
  OBVIOUS
<1> USE DEF PlansInv
<1>1. CASE Load
  <2>1. \/ file.kind = "holding" /\ LoadPensionDecisionSpec(file)
        \/ file.kind = "isa" /\ LoadIsaHouseholdSpec(file)
        => Loaded(file)
    BY FilesAssumption DEF Loaded, LoadPensionDecisionSpec, LoadIsaHouseholdSpec
  <2> QED BY <1>1, <2>1 DEF Load
<1>2. CASE Enter
  <2>1. Loaded(file) /\ scored = {} /\ cursor' = 1 /\ stage' \in {"scoring", "stopped"} /\ UNCHANGED <<file, scored>>
    BY <1>2 DEF Enter
  <2>2. stage' = "stopped" => ~Careful(file)
    BY <1>2, <2>1, CarefulEnters DEF Enter
  <2>3. 1 \in 1 .. Len(CellsOf(file)) + 1 /\ Fitting(file, 1) = {}
    BY <2>1, CellFacts, AllFitting
  <2> QED BY <2>1, <2>2, <2>3
<1>3. CASE ScoreCell
  <2> DEFINE cell == CellsOf(file)[cursor]
  <2>1. /\ Loaded(file) /\ cursor \in DOMAIN CellsOf(file) /\ scored = Fitting(file, cursor)
        /\ cursor' = cursor + 1 /\ UNCHANGED file
        /\ stage' = IF CellFails(file, cell) THEN "stopped" ELSE "scoring"
        /\ scored' = IF CellFits(file, cell) THEN scored \cup {cell} ELSE scored
    BY <1>3 DEF ScoreCell
  <2>2. cell \in SeqSet(CellsOf(file))
    BY <2>1 DEF SeqSet
  <2>3. CellFails(file, cell) => ~Careful(file)
    BY <2>1, <2>2, CarefulCells
  <2>4. cursor + 1 \in 1 .. Len(CellsOf(file)) + 1
    BY <2>1, CellFacts
  <2>5. scored' = Fitting(file, cursor + 1)
    BY <2>1, FittingGrows
  <2> HIDE DEF cell
  <2> QED BY <2>1, <2>3, <2>4, <2>5
<1>4. CASE Bootstrap
  <2> DEFINE longest == Max(SeqSet(file.horizons))
  <2>1. /\ Loaded(file) /\ scored = Fitting(file, Len(CellsOf(file)) + 1)
        /\ UNCHANGED <<file, cursor, scored>>
        /\ stage' = IF \/ scored = {}
                       \/ 12 * longest > PanelOf(file, "century")
                       \/ file.blocks > PanelOf(file, "century")
                       \/ file.kind = "isa" /\ ArmFails(file)
                    THEN "stopped" ELSE "drawn"
    BY <1>4 DEF Bootstrap
  <2>2. scored = {c \in SeqSet(CellsOf(file)) : CellFits(file, c)}
    BY <2>1, AllFitting
  <2>3. longest \in SeqSet(file.horizons) /\ longest \in Int /\ PanelOf(file, "century") \in Int
    <3>1. PanelOf(file, "century") \in Int
      BY <2>1 DEF PanelOf, PanelLength, PlanWindows, Loaded, PensionEntries, HouseholdEntries
    <3> QED BY <2>1, <3>1, LongestHorizon
  <2>4. <<"century", longest>> \in SeqSet(CellsOf(file))
    BY <2>1, <2>3, CellFacts
  <2>5. ~(12 * longest > PanelOf(file, "century")) => CellFits(file, <<"century", longest>>)
    BY <2>3 DEF CellFits
  <2>6. stage' = "stopped" => ~Careful(file)
    <3> SUFFICES ASSUME Careful(file) PROVE stage' # "stopped"
      OBVIOUS
    <3>1. CellFits(file, <<"century", longest>>) /\ ~(12 * longest > PanelOf(file, "century"))
          /\ ~(file.blocks > PanelOf(file, "century"))
      BY <2>1, <2>3, CarefulCentury
    <3>2. scored # {}
      BY <2>2, <2>4, <3>1
    <3>3. ~(file.kind = "isa" /\ ArmFails(file))
      BY DEF Careful
    <3> HIDE DEF longest
    <3> QED BY <2>1, <3>1, <3>2, <3>3
  <2> HIDE DEF longest
  <2>7. stage' = "drawn" => CellFits(file, <<"century", longest>>)
    BY <2>1, <2>5
  <2>8. stage' \in {"stopped", "drawn"}
    BY <2>1
  <2> QED BY <2>1, <2>2, <2>6, <2>7, <2>8 DEF longest
<1>5. CASE Decide
  <2>1. Loaded(file) /\ stage = "drawn" /\ UNCHANGED <<file, cursor, scored>>
    BY <1>5 DEF Decide
  <2>2. ASSUME file.kind = "holding", NEW selected \in DOMAIN file.candidates
        PROVE  LooksUp(file, selected) \subseteq DOMAIN file.candidates
    BY <2>1, <2>2 DEF LooksUp, Loaded, LoadPensionDecisionSpec, ReferencesHold, NeighborsHold
  <2>3. stage' = "decided"
    BY <1>5, <2>2 DEF Decide
  <2> QED BY <2>1, <2>3
<1>6. CASE UNCHANGED planVars
  BY <1>6 DEF planVars
<1> QED BY <1>1, <1>2, <1>3, <1>4, <1>5, <1>6 DEF PlansNext

LEMMA PlansImplied == PlansInv => AdmittedPlansDecide
<1> SUFFICES ASSUME PlansInv, stage = "decided"
             PROVE  /\ scored = {c \in SeqSet(CellsOf(file)) : 12 * c[2] =< PanelOf(file, c[1])}
                    /\ \E c \in scored : c[1] = "century" /\ c[2] = Max(SeqSet(file.horizons))
                    /\ file.kind = "holding" =>
                         \A i \in DOMAIN file.realized :
                           \A s \in Schedules(file), x \in DOMAIN file.splices :
                             x \in DOMAIN s.start => 12 * file.realized[i] =< file.modern.last - file.splices[x] + 1
  BY DEF PlansInv, AdmittedPlansDecide
<1>1. Loaded(file) /\ scored = {c \in SeqSet(CellsOf(file)) : CellFits(file, c)}
  BY DEF PlansInv
<1>2. scored = {c \in SeqSet(CellsOf(file)) : 12 * c[2] =< PanelOf(file, c[1])}
  BY <1>1 DEF CellFits
<1>3. <<"century", Max(SeqSet(file.horizons))>> \in scored
  BY <1>1, LongestHorizon, CellFacts DEF PlansInv
<1>4. ASSUME file.kind = "holding", NEW i \in DOMAIN file.realized, NEW s \in Schedules(file),
             NEW x \in DOMAIN file.splices, x \in DOMAIN s.start
      PROVE  12 * file.realized[i] =< file.modern.last - file.splices[x] + 1
  <2>1. PensionEntries(file) /\ LoadPensionDecisionSpec(file)
    BY <1>1, <1>4 DEF Loaded
  <2>2. x \in DOMAIN file.splices \cap SleevesOf(Schedules(file))
    BY <1>4 DEF SleevesOf
  <2>3. 12 * file.realized[i] =< CalendarMonths(RealizedWindow(file))
    BY <1>4, <2>1 DEF LoadPensionDecisionSpec, RealizedHolds
  <2>4. file.realized[i] \in Int /\ file.modern.last \in Int
    BY <1>4, <2>1 DEF PensionEntries, PlanWindows
  <2>5. /\ RealizedStart(file) \in Int /\ file.splices[x] \in Int /\ file.splices[x] =< RealizedStart(file)
        /\ CalendarMonths(RealizedWindow(file)) = file.modern.last - RealizedStart(file) + 1
    BY <1>4, <2>1, <2>2, RealizedFacts
  <2> QED BY <2>3, <2>4, <2>5
<1> QED BY <1>2, <1>3, <1>4

\* For any plan files: a plan its loader admitted is decided from every cell that
\* fits unless it has a fault the loader leaves to its author, and the verdict
\* never looks up a candidate that is not there (load_pension_decision_spec,
\* load_isa_household_spec against evaluate_pension_decision).
THEOREM AdmittedPlansAreDecided == PlansSpec => []AdmittedPlansDecide
<1>1. PlansInit => PlansInv
  BY DEF PlansInit, PlansInv
<1> QED BY <1>1, PlansStep, PlansImplied, PTL DEF PlansSpec

-----------------------------------------------------------------------------
(* The calendars of the walk-forward *)

\* A date's month may be any number, its day is one of 1..31.
Dates == [m : Int, d : 1..31]

\* A month has 28 to 31 days (the calendar arithmetic of the gates).
LEMMA MonthLengths == ASSUME NEW m \in Int PROVE MonthLength(m) \in 28..31
<1>1. (m % 12) + 1 \in 1..12
  OBVIOUS
<1> DEFINE k == (m % 12) + 1
<1> HIDE DEF k
<1>2. k \in 1..12
  BY <1>1 DEF k
<1>3. \A i \in 1..12 : <<31, 28, 31, 30, 31, 30, 31, 31, 30, 31, 30, 31>>[i] \in 28..31
  OBVIOUS
<1> QED BY <1>2, <1>3 DEF MonthLength, k

\* Adding months moves the month and cuts the day to its length.
LEMMA MonthsAdded ==
  ASSUME NEW x \in Dates, NEW n \in Int
  PROVE  /\ AddCalendarMonths(x, n) \in Dates
         /\ AddCalendarMonths(x, n).m = x.m + n
         /\ AddCalendarMonths(x, n).d =< x.d
         /\ x.d =< 28 => AddCalendarMonths(x, n).d = x.d
         /\ x.d # 1 => AddCalendarMonths(x, n).d # 1
<1>1. x.m + n \in Int
  BY DEF Dates
<1>2. PICK l \in 28..31 : l = MonthLength(x.m + n)
  BY <1>1, MonthLengths
<1> QED BY <1>1, <1>2 DEF AddCalendarMonths, Dates

\* The last day of a span of n months, n at least one.
LEMMA SpanEnds ==
  ASSUME NEW x \in Dates, NEW n \in Nat \ {0}
  PROVE  /\ InclusiveEnd(x, n) \in Dates
         /\ InclusiveEnd(x, n).m = IF x.d = 1 THEN x.m + n - 1 ELSE x.m + n
         /\ x.d \in 2..28 => InclusiveEnd(x, n).d = x.d - 1
         /\ x.d = 1 => InclusiveEnd(x, n).d >= 28
         /\ x.d > 1 => InclusiveEnd(x, n).d < x.d
<1>1. PICK b \in Dates : /\ b = AddCalendarMonths(x, n)
                         /\ b.m = x.m + n /\ b.d =< x.d /\ (x.d =< 28 => b.d = x.d) /\ (x.d # 1 => b.d # 1)
  BY MonthsAdded
<1>2. InclusiveEnd(x, n) = IF b.d > 1 THEN [b EXCEPT !.d = b.d - 1] ELSE [m |-> b.m - 1, d |-> MonthLength(b.m - 1)]
  BY <1>1 DEF InclusiveEnd
<1>3. b.m - 1 \in Int /\ MonthLength(b.m - 1) \in 28..31
  BY MonthLengths DEF Dates
<1> QED BY <1>1, <1>2, <1>3 DEF Dates

\* How the months of a fold follow from its number.
LEMMA FoldDates ==
  ASSUME NEW p, Experiment(p), NEW n \in Nat
  PROVE  LET f == FoldAt(p, n)
             lag == IF p.start.d = 1 THEN 1 ELSE 0
         IN  /\ f.trainEnd \in Dates /\ f.testStart \in Dates /\ f.testEnd \in Dates
             /\ f.trainEnd.m = p.start.m + n * p.test + p.train - lag
             /\ f.testStart.m = f.trainEnd.m + p.embargo + 1
             /\ p.start.d \in 2..28 => f.testStart.d = p.start.d - 1
             /\ f.testEnd.m = IF f.testStart.d = 1 THEN f.testStart.m + p.test - 1 ELSE f.testStart.m + p.test
             /\ f.testStart.d > 1 => f.testEnd.d < f.testStart.d
             /\ f.testStart.d = 1 => f.testEnd.d >= 28
<1>1. p.start \in Dates /\ p.train \in Nat \ {0} /\ p.test \in Nat \ {0} /\ p.embargo \in Nat
  BY DEF Experiment, Dates
<1>2. PICK k \in Nat : k = n * p.test
  BY <1>1
<1>3. PICK a \in Dates : /\ a = AddCalendarMonths(p.start, k)
                         /\ a.m = p.start.m + k
                         /\ p.start.d =< 28 => a.d = p.start.d
                         /\ p.start.d # 1 => a.d # 1
  <2>1. PICK x \in Dates : x = p.start
    BY <1>1
  <2>2. k \in Int
    OBVIOUS
  <2>3. /\ AddCalendarMonths(x, k) \in Dates
        /\ AddCalendarMonths(x, k).m = x.m + k
        /\ x.d =< 28 => AddCalendarMonths(x, k).d = x.d
        /\ x.d # 1 => AddCalendarMonths(x, k).d # 1
    BY <2>2, MonthsAdded
  <2> QED BY <2>1, <2>3, Zenon
<1>4. PICK b \in Dates : /\ b = InclusiveEnd(a, p.train)
                         /\ b.m = IF a.d = 1 THEN a.m + p.train - 1 ELSE a.m + p.train
                         /\ a.d \in 2..28 => b.d = a.d - 1
  BY <1>1, SpanEnds
<1>5. PICK g \in Int : g = p.embargo + 1
  BY <1>1
<1>6. PICK c \in Dates : /\ c = AddCalendarMonths(b, g)
                         /\ c.m = b.m + g /\ (b.d =< 28 => c.d = b.d)
  BY <1>5, MonthsAdded
<1>7. PICK e \in Dates : /\ e = InclusiveEnd(c, p.test)
                         /\ e.m = IF c.d = 1 THEN c.m + p.test - 1 ELSE c.m + p.test
                         /\ c.d = 1 => e.d >= 28
                         /\ c.d > 1 => e.d < c.d
  BY <1>1, SpanEnds
<1>8. FoldAt(p, n) = [trainStart |-> a, trainEnd |-> b, testStart |-> c, testEnd |-> e]
  BY <1>2, <1>3, <1>4, <1>5, <1>6, <1>7 DEF FoldAt
<1> QED BY <1>1, <1>2, <1>3, <1>4, <1>5, <1>6, <1>7, <1>8 DEF Dates

\* The windows are the folds that fit, cut where the experiment ends.
LEMMA WindowsFit ==
  ASSUME NEW p, Experiment(p)
  PROVE  \E last \in Nat :
           /\ WalkForwardWindows(p) =
                [i \in 1..last |-> [FoldAt(p, i - 1) EXCEPT !.testEnd = Earlier(FoldAt(p, i - 1).testEnd, p.end)]]
           /\ \A k \in 0..(last - 1) : Fits(p, FoldAt(p, k))
<1> DEFINE span == p.end.m - p.start.m + 1
           Missed == {n \in Nat : ~Fits(p, FoldAt(p, n))}
<1>1. p.start \in Dates /\ p.end \in Dates /\ ~Before(p.end, p.start)
  BY DEF Experiment, Dates
<1>2. span \in Nat
  BY <1>1 DEF Before, Dates
<1>3. span \in Missed
  <2>1. PICK k \in Nat : k = span * p.test /\ k >= span
    <3>1. \A n \in Nat, t \in Nat \ {0} : n * t \in Nat /\ n * t >= n
      OBVIOUS
    <3> QED BY <1>2, <3>1 DEF Experiment
  <2> HIDE DEF span
  <2>2. PICK f : f = FoldAt(p, span)
    OBVIOUS
  <2>3. /\ f.testStart \in Dates
        /\ f.testStart.m = p.start.m + k + p.train - (IF p.start.d = 1 THEN 1 ELSE 0) + p.embargo + 1
    BY <1>2, <2>1, <2>2, FoldDates
  <2>4. Before(p.end, f.testStart)
    BY <1>1, <1>2, <2>1, <2>3 DEF Before, Dates, Experiment, span
  <2> QED BY <1>2, <2>2, <2>4 DEF Fits
<1>4. PICK n \in Missed : \A k \in Missed : n =< k
  <2> HIDE DEF span
  <2>1. Missed \subseteq Nat /\ Missed # {}
    BY <1>3
  <2> QED BY <2>1, LeastNatural
<1> DEFINE First(j) == (\A k \in 0..(j - 1) : Fits(p, FoldAt(p, k))) /\ ~Fits(p, FoldAt(p, j))
<1>5. n \in 0..span /\ First(n)
  <2> HIDE DEF span
  <2> QED BY <1>2, <1>3, <1>4
<1>6. PICK last : /\ last = CHOOSE j \in 0..span : First(j)
                  /\ last \in 0..span /\ First(last)
  <2> HIDE DEF span, First
  <2> QED BY <1>5
<1>7. WalkForwardWindows(p) =
        [i \in 1..last |-> [FoldAt(p, i - 1) EXCEPT !.testEnd = Earlier(FoldAt(p, i - 1).testEnd, p.end)]]
  BY <1>6, Zenon DEF WalkForwardWindows
<1>8. last \in Nat
  <2> HIDE DEF span, First
  <2> QED BY <1>2, <1>6
<1>9. \A k \in 0..(last - 1) : Fits(p, FoldAt(p, k))
  <2> HIDE DEF span
  <2> QED BY <1>6
<1> QED BY <1>7, <1>8, <1>9

\* Any plan whose dates are well formed is walked forward only.
LEMMA EveryPlanAhead == ASSUME NEW p, Experiment(p) PROVE WindowsAhead(p)
<1>1. PICK last \in Nat :
        /\ WalkForwardWindows(p) =
             [i \in 1..last |-> [FoldAt(p, i - 1) EXCEPT !.testEnd = Earlier(FoldAt(p, i - 1).testEnd, p.end)]]
        /\ \A k \in 0..(last - 1) : Fits(p, FoldAt(p, k))
  BY WindowsFit
<1> DEFINE w == WalkForwardWindows(p)
<1>2. p.start \in Dates /\ p.end \in Dates /\ p.train \in Nat \ {0} /\ p.test \in Nat \ {0} /\ p.embargo \in Nat
  BY DEF Experiment, Dates
<1>3. ASSUME NEW i \in 1..last
      PROVE  \E f : /\ f = FoldAt(p, i - 1)
                    /\ w[i] = [f EXCEPT !.testEnd = Earlier(f.testEnd, p.end)]
                    /\ w[i].trainEnd = f.trainEnd /\ w[i].testStart = f.testStart
                    /\ w[i].testEnd = Earlier(f.testEnd, p.end)
                    /\ ~Before(p.end, f.testStart)
  <2>1. FoldAt(p, i - 1) = [trainStart |-> FoldAt(p, i - 1).trainStart, trainEnd |-> FoldAt(p, i - 1).trainEnd,
                            testStart |-> FoldAt(p, i - 1).testStart, testEnd |-> FoldAt(p, i - 1).testEnd]
    BY DEF FoldAt
  <2>2. Fits(p, FoldAt(p, i - 1))
    BY <1>1
  <2>3. PICK f : f = FoldAt(p, i - 1)
    OBVIOUS
  <2>4. w[i] = [f EXCEPT !.testEnd = Earlier(f.testEnd, p.end)]
    BY <1>1, <2>3
  <2> HIDE DEF w
  <2> QED BY <2>1, <2>2, <2>3, <2>4 DEF Fits
<1>4. DOMAIN w = 1..last
  BY <1>1
<1> HIDE DEF w
<1>5. ASSUME NEW i \in 1..last
      PROVE  /\ w[i].trainEnd.m < w[i].testStart.m
             /\ ~Before(w[i].testEnd, w[i].testStart)
             /\ ~Before(p.end, w[i].testEnd)
  <2>1. PICK f : /\ f = FoldAt(p, i - 1)
                 /\ w[i].trainEnd = f.trainEnd /\ w[i].testStart = f.testStart
                 /\ w[i].testEnd = Earlier(f.testEnd, p.end) /\ ~Before(p.end, f.testStart)
    BY <1>3
  <2>2. /\ f.trainEnd \in Dates /\ f.testStart \in Dates /\ f.testEnd \in Dates
        /\ f.testStart.m = f.trainEnd.m + p.embargo + 1
        /\ f.testEnd.m = IF f.testStart.d = 1 THEN f.testStart.m + p.test - 1 ELSE f.testStart.m + p.test
        /\ f.testStart.d = 1 => f.testEnd.d >= 28
    BY <2>1, FoldDates
  <2> QED BY <1>2, <2>1, <2>2 DEF Before, Earlier, Dates
<1>6. ASSUME NEW i \in 1..last, i > 1
      PROVE  /\ Before(w[i - 1].testStart, w[i].testStart)
             /\ p.start.d \in 2..28 => Before(w[i - 1].testEnd, w[i].testStart)
  <2>1. i - 1 \in 1..last /\ i - 1 \in Nat /\ i - 1 - 1 \in Nat
    BY <1>6
  <2>2. PICK f : f = FoldAt(p, i - 1) /\ w[i].testStart = f.testStart
    BY <1>3
  <2>3. PICK e : e = FoldAt(p, i - 1 - 1) /\ w[i - 1].testStart = e.testStart /\ w[i - 1].testEnd = Earlier(e.testEnd, p.end)
    BY <1>3, <2>1
  <2>4. PICK k \in Nat : k = (i - 1 - 1) * p.test /\ (i - 1) * p.test = k + p.test
    BY <1>2, <2>1
  <2>5. PICK lag \in {0, 1} : lag = IF p.start.d = 1 THEN 1 ELSE 0
    OBVIOUS
  <2>6. /\ f.testStart \in Dates
        /\ f.testStart.m = p.start.m + k + p.test + p.train - lag + p.embargo + 1
        /\ p.start.d \in 2..28 => f.testStart.d = p.start.d - 1
    BY <1>2, <2>1, <2>2, <2>4, <2>5, FoldDates DEF Dates
  <2>7. /\ e.testStart \in Dates /\ e.testEnd \in Dates
        /\ e.testStart.m = p.start.m + k + p.train - lag + p.embargo + 1
        /\ p.start.d \in 2..28 => e.testStart.d = p.start.d - 1
        /\ e.testEnd.m = IF e.testStart.d = 1 THEN e.testStart.m + p.test - 1 ELSE e.testStart.m + p.test
        /\ e.testStart.d > 1 => e.testEnd.d < e.testStart.d
    BY <1>2, <2>1, <2>3, <2>4, <2>5, FoldDates DEF Dates
  <2> QED BY <1>2, <2>2, <2>3, <2>5, <2>6, <2>7 DEF Before, Earlier, Dates
<1> QED BY <1>4, <1>5, <1>6 DEF WindowsAhead, w

\* No calendar lets a fold look ahead.
LEMMA CalendarsAreAhead == CalendarsAhead
  BY EveryPlanAhead, PlansAssumption DEF CalendarsAhead

-----------------------------------------------------------------------------
(* The harmonic mean of the wealths *)

\* The running sum of reciprocals exists and adds one wealth at a time.
LEMMA RunningReciprocals ==
  ASSUME NEW s \in Seq(Results)
  PROVE  \E g \in [0..Len(s) -> Nat \X (Nat \ {0})] :
           /\ g[0] = <<0, 1>>
           /\ \A n \in 1..Len(s) : g[n] = AddReciprocal(g[n - 1], s[n].tw)
           /\ Reciprocals(s) = g[Len(s)]
<1> DEFINE D == 0..Len(s)
           R == Nat \X (Nat \ {0})
           Step(g, n) == IF n = 0 THEN <<0, 1>> ELSE AddReciprocal(g[n - 1], s[n].tw)
           m == [n \in D |-> n]
           V == [n \in D |-> [g \in [D -> R] |-> Step(g, n)]]
<1>1. Len(s) \in Nat /\ \A n \in 1..Len(s) : s[n].tw \in Nat \ {0}
  <2>1. \A n \in 1..Len(s) : s[n] \in Results
    OBVIOUS
  <2>2. \A r \in Results : r.tw \in Nat \ {0}
    BY DEF Results
  <2> QED BY <2>1, <2>2
<1>2. \A x \in R, t \in Nat \ {0} : AddReciprocal(x, t) \in R
  <2>1. \A a \in Nat, b \in Nat \ {0}, t \in Nat \ {0} : a * t + b \in Nat /\ b * t \in Nat \ {0}
    <3>1. \A b \in Nat, t \in Nat : b * t \in Nat
      OBVIOUS
    <3>2. \A b \in Nat \ {0}, t \in Nat \ {0} : b * t # 0
      OBVIOUS
    <3> QED BY <3>1, <3>2
  <2> QED BY <2>1 DEF AddReciprocal
<1>3. ASSUME NEW n \in D, NEW g \in [D -> R] PROVE Step(g, n) \in R
  <2>1. CASE n = 0
    BY <2>1
  <2>2. CASE n # 0
    <3>1. n - 1 \in D /\ n \in 1..Len(s)
      BY <1>1, <2>2
    <3>2. g[n - 1] \in R
      BY <3>1
    <3> QED BY <1>1, <1>2, <2>2, <3>1, <3>2
  <2> QED BY <2>1, <2>2
<1>4. V \in [D -> [[D -> R] -> R]]
  <2> HIDE DEF D, R, Step
  <2> QED BY <1>3
<1>5. ASSUME NEW n \in D, NEW g \in [D -> R], NEW h \in [D -> R], \A e \in D : m[e] < m[n] => g[e] = h[e]
      PROVE  V[n][g] = V[n][h]
  <2>1. Step(g, n) = Step(h, n)
    <3>1. CASE n = 0
      BY <3>1
    <3>2. CASE n # 0
      <4>1. n - 1 \in D /\ m[n - 1] < m[n]
        BY <1>1, <3>2
      <4>2. g[n - 1] = h[n - 1]
        BY <1>5, <4>1
      <4> QED BY <4>2
    <3> QED BY <3>1, <3>2
  <2> HIDE DEF D, R, Step
  <2> QED BY <2>1
<1>6. \E g \in [D -> R] : \A n \in D : g[n] = V[n][g]
  <2>0. <<0, 1>> \in R
    OBVIOUS
  <2>1. R # {} /\ Len(s) \in Nat /\ m \in [D -> 0..Len(s)]
    <3> HIDE DEF R
    <3> QED BY <1>1, <2>0
  <2> HIDE DEF D, R, m, V
  <2>2. RecursOn(D, R, m, V)
    BY <1>4, <1>5 DEF RecursOn
  <2> QED BY <2>1, <2>2, RecursionOnMeasure
<1>7. PICK g \in [D -> R] : \A n \in D : g[n] = V[n][g]
  BY <1>6
<1>8. g = [n \in D |-> Step(g, n)]
  <2>1. \A n \in D : g[n] = Step(g, n)
    BY <1>7
  <2> HIDE DEF D, R, Step
  <2> QED BY <2>1
<1> DEFINE f == CHOOSE f : f = [n \in D |-> Step(f, n)]
<1>9. f = [n \in D |-> Step(f, n)]
  BY <1>8, Zenon
<1>10. Reciprocals(s) = f[Len(s)]
  BY Zenon DEF Reciprocals
<1> HIDE DEF f
<1>11. f[0] = <<0, 1>> /\ \A n \in 1..Len(s) : f[n] = AddReciprocal(f[n - 1], s[n].tw)
  <2>1. \A n \in D : f[n] = Step(f, n)
    <3> HIDE DEF D, Step
    <3> QED BY <1>9
  <2>2. 0 \in D /\ \A n \in 1..Len(s) : n \in D /\ n # 0
    BY <1>1
  <2> HIDE DEF D
  <2> QED BY <2>1, <2>2
<1>12. f \in [D -> R]
  <2> DEFINE Q == {n \in Nat : n \in D => f[n] \in R}
  <2>1. 0 \in Q
    BY <1>11
  <2>2. ASSUME NEW n \in Nat, n \in Q PROVE n + 1 \in Q
    <3>1. CASE n + 1 \in D
      <4>1. n \in D /\ n + 1 \in 1..Len(s) /\ n + 1 - 1 = n
        BY <1>1, <3>1
      <4>2. f[n] \in R /\ f[n + 1] = AddReciprocal(f[n], s[n + 1].tw)
        BY <1>11, <2>2, <4>1
      <4>3. f[n + 1] \in R
        BY <1>1, <1>2, <4>1, <4>2
      <4> QED BY <4>3
    <3> QED BY <3>1
  <2>3. \A n \in Nat : n \in Q
    <3> HIDE DEF Q
    <3> QED BY <2>1, <2>2, CountsUp
  <2>4. \A n \in D : f[n] \in R
    BY <2>3
  <2> HIDE DEF D, R, Step
  <2> QED BY <1>9, <2>4
<1> QED BY <1>10, <1>11, <1>12

\* Where no wealth is larger the sum of the reciprocals is not smaller.
LEMMA PoorerIsWorse ==
  ASSUME NEW c \in Seq(Results), NEW b \in Seq(Results), Len(c) = Len(b),
         \A i \in 1..Len(c) : c[i].tw =< b[i].tw
  PROVE  \E u, x \in Nat, v, y \in Nat \ {0} :
           Reciprocals(c) = <<u, v>> /\ Reciprocals(b) = <<x, y>> /\ x * v =< u * y
<1>1. PICK g \in [0..Len(c) -> Nat \X (Nat \ {0})] :
        g[0] = <<0, 1>> /\ (\A n \in 1..Len(c) : g[n] = AddReciprocal(g[n - 1], c[n].tw)) /\ Reciprocals(c) = g[Len(c)]
  BY RunningReciprocals
<1>2. PICK h \in [0..Len(c) -> Nat \X (Nat \ {0})] :
        h[0] = <<0, 1>> /\ (\A n \in 1..Len(c) : h[n] = AddReciprocal(h[n - 1], b[n].tw)) /\ Reciprocals(b) = h[Len(c)]
  BY RunningReciprocals
<1> DEFINE Q == {n \in Nat : n =< Len(c) => h[n][1] * g[n][2] =< g[n][1] * h[n][2]}
<1>3. 0 \in Q
  BY <1>1, <1>2
<1>4. ASSUME NEW n \in Nat, n \in Q PROVE n + 1 \in Q
  <2> SUFFICES ASSUME n + 1 =< Len(c) PROVE h[n + 1][1] * g[n + 1][2] =< g[n + 1][1] * h[n + 1][2]
    OBVIOUS
  <2>1. n \in 0..Len(c) /\ n + 1 \in 1..Len(c) /\ n + 1 - 1 = n /\ n =< Len(c)
    OBVIOUS
  <2>2. PICK u \in Nat, v \in Nat \ {0} : g[n] = <<u, v>>
    BY <1>1, <2>1, SMTT(40)
  <2>3. PICK x \in Nat, y \in Nat \ {0} : h[n] = <<x, y>>
    <3>1. h[n] \in Nat \X (Nat \ {0})
      BY <1>2, <2>1
    <3> QED BY <3>1
  <2>4. PICK s \in Nat \ {0}, t \in Nat \ {0} : s = c[n + 1].tw /\ t = b[n + 1].tw /\ s =< t
    <3>1. c[n + 1] \in Results /\ b[n + 1] \in Results
      BY <2>1
    <3>2. \A r \in Results : r.tw \in Nat \ {0}
      BY DEF Results
    <3> QED BY <2>1, <3>1, <3>2
  <2>5. g[n + 1] = <<u * s + v, v * s>> /\ h[n + 1] = <<x * t + y, y * t>>
    <3>1. g[n + 1] = AddReciprocal(g[n], s) /\ h[n + 1] = AddReciprocal(h[n], t)
      BY <1>1, <1>2, <2>1, <2>4
    <3> QED BY <2>2, <2>3, <3>1 DEF AddReciprocal
  <2>6. x * v =< u * y
    BY <1>4, <2>1, <2>2, <2>3
  <2>7. (x * t + y) * (v * s) =< (u * s + v) * (y * t)
    <3>1. PICK p \in Nat, q \in Nat, r \in Nat, k \in Nat :
            p = x * v /\ q = u * y /\ r = v * y /\ k = s * t
      OBVIOUS
    <3>2. (x * t + y) * (v * s) = p * k + r * s
      BY <3>1
    <3>3. (u * s + v) * (y * t) = q * k + r * t
      BY <3>1
    <3>4. p * k =< q * k /\ r * s =< r * t
      <4>1. \A d, e, f \in Nat : d =< e => d * f =< e * f /\ f * d =< f * e
        OBVIOUS
      <4> QED BY <2>4, <2>6, <3>1, <4>1
    <3>5. PICK d \in Nat, e \in Nat, f \in Nat, z \in Nat : d = p * k /\ e = q * k /\ f = r * s /\ z = r * t
      <4>1. \A i, j \in Nat : i * j \in Nat
        OBVIOUS
      <4>2. s \in Nat /\ t \in Nat
        BY <2>4
      <4> QED BY <3>1, <4>1, <4>2
    <3>6. d + f =< e + z
      <4>1. d =< e /\ f =< z
        BY <3>4, <3>5, Zenon
      <4> QED BY <4>1
    <3> QED BY <3>2, <3>3, <3>5, <3>6
  <2> QED BY <2>5, <2>7
<1>5. Len(c) \in Q
  <2>1. Len(c) \in Nat
    OBVIOUS
  <2> HIDE DEF Q
  <2> QED BY <1>3, <1>4, <2>1, CountsUp
<1>6. PICK u \in Nat, v \in Nat \ {0}, x \in Nat, y \in Nat \ {0} : g[Len(c)] = <<u, v>> /\ h[Len(c)] = <<x, y>>
  <2>1. Len(c) \in 0..Len(c)
    OBVIOUS
  <2>2. g[Len(c)] \in Nat \X (Nat \ {0}) /\ h[Len(c)] \in Nat \X (Nat \ {0})
    BY <1>1, <1>2, <2>1
  <2> QED BY <2>2, SMTT(40)
<1>7. h[Len(c)][1] * g[Len(c)][2] =< g[Len(c)][1] * h[Len(c)][2]
  <2>1. Len(c) =< Len(c)
    OBVIOUS
  <2> QED BY <1>5, <2>1, Zenon DEF Q
<1>8. x * v =< u * y
  BY <1>6, <1>7
<1>9. Reciprocals(c) = <<u, v>> /\ Reciprocals(b) = <<x, y>>
  BY <1>1, <1>2, <1>6, Zenon
<1> QED BY <1>8, <1>9

-----------------------------------------------------------------------------
(* The tournament *)

\* The first of the places where a function of finitely many numbers is greatest.
LEMMA FirstGreatest ==
  ASSUME NEW n \in Nat, NEW S, S \subseteq 1..n, S # {}, NEW f, \A x \in S : f[x] \in Int
  PROVE  \E x \in S : \A y \in S \ {x} : f[y] < f[x] \/ (f[y] = f[x] /\ x < y)
<1>1. IsFiniteSet(S) /\ S \subseteq Nat
  <2>1. IsFiniteSet(1..n)
    BY FS_Interval
  <2>2. S \in SUBSET (1..n)
    OBVIOUS
  <2>3. IsFiniteSet(S)
    BY <2>1, <2>2, FS_Subset
  <2> QED BY <2>3
<1>2. PICK z \in S : \A y \in S : f[y] =< f[z]
  BY <1>1, GreatestPlace
<1> DEFINE Top == {x \in S : f[x] = f[z]}
<1>3. Top \subseteq Nat /\ Top # {}
  BY <1>1
<1>4. PICK x \in Top : \A y \in Top : x =< y
  <2> HIDE DEF Top
  <2> QED BY <1>3, LeastNatural
<1> QED BY <1>2, <1>4

Row == [adopted : BOOLEAN, chosen : Results]
FullyWalked(c) == Len(rows[c]) = Len(Windows)
Justly(row, i) == row.adopted \/ row.chosen = BaseTest[i]
TournamentTyped ==
  /\ plan \in Plans
  /\ objective \in Objectives
  /\ phase \in {"screen", "walk", "done", "failed", "refused"}
  /\ phase # "refused" => Len(Windows) > 0
  /\ kept \in SUBSET ArmIds
  /\ rows \in [ArmIds -> Seq(Row)]
  /\ finished \in Seq(ArmIds)
FoldsJust ==
  /\ \A c \in ArmIds : Len(rows[c]) =< Len(Windows) /\ \A i \in 1..Len(rows[c]) : Justly(rows[c][i], i)
  /\ phase \in {"screen", "refused"} => finished = <<>>
  /\ \A i \in 1..Len(finished) : finished[i] \in kept /\ FullyWalked(finished[i])
TournamentInv == TournamentTyped /\ FoldsJust /\ RecommendationStable

\* A plan has windows, and no more of them than the baseline has runs.
LEMMA WindowsTyped == ASSUME NEW p \in Plans PROVE /\ Len(WindowsOf[p]) \in Nat /\ Len(WindowsOf[p]) =< Len(BaseTest)
                                                   /\ DOMAIN WindowsOf[p] = 1..Len(WindowsOf[p])
                                                   /\ WindowsOf[p] = <<>> <=> Len(WindowsOf[p]) = 0
<1>1. Experiment(p) /\ Len(WalkForwardWindows(p)) =< Len(BaseTest)
  BY PlansAssumption
<1>2. PICK last \in Nat :
         WalkForwardWindows(p) =
           [i \in 1..last |-> [FoldAt(p, i - 1) EXCEPT !.testEnd = Earlier(FoldAt(p, i - 1).testEnd, p.end)]]
  BY <1>1, WindowsFit
<1>3. WindowsOf[p] = WalkForwardWindows(p)
  BY DEF WindowsOf
<1>4. PICK w : w = WindowsOf[p] /\ \E f : w = [i \in 1..last |-> f[i]]
  <2> DEFINE f == [i \in 1..last |-> [FoldAt(p, i - 1) EXCEPT !.testEnd = Earlier(FoldAt(p, i - 1).testEnd, p.end)]]
  <2>1. f = [i \in 1..last |-> f[i]]
    OBVIOUS
  <2> HIDE DEF f
  <2>2. WindowsOf[p] = f
    BY <1>2, <1>3, Zenon DEF f
  <2> QED BY <2>1, <2>2
<1>5. w \in Seq({w[i] : i \in 1..last}) /\ Len(w) = last
  <2>1. PICK f : w = [i \in 1..last |-> f[i]]
    BY <1>4
  <2>2. \A i \in 1..last : w[i] = f[i]
    BY <2>1
  <2> QED BY <2>1, <2>2
<1> QED BY <1>1, <1>3, <1>4, <1>5

\* Whether a candidate passes in sample is a truth value.
LEMMA TrainPassesDecides ==
  ASSUME NEW aim \in Objectives, NEW c, NEW b PROVE TrainPasses(aim, c, b) \in BOOLEAN
<1>1. aim \in {"adaptive_growth", "compound_growth", "growth_first", "ce"}
  BY ArmsAssumption
<1>2. CASE aim = "ce"
  BY <1>2 DEF TrainPasses
<1>3. CASE aim = "growth_first"
  BY <1>3 DEF TrainPasses, GrowthFirstTrain, DrawdownKept
<1>4. CASE aim = "compound_growth"
  BY <1>4 DEF TrainPasses, CompoundGrowthTrain
<1>5. CASE aim = "adaptive_growth"
  BY <1>5 DEF TrainPasses, ContributionGrowthTrain, CompoundGrowthTrain, DrawdownKept
<1> QED BY <1>1, <1>2, <1>3, <1>4, <1>5

\* The tournament starts with nothing walked and nothing recommended.
LEMMA TournamentInitial == TournamentInit => TournamentInv
<1> SUFFICES ASSUME TournamentInit PROVE TournamentInv
  OBVIOUS
<1>1. Len(Windows) \in Nat /\ (Windows = <<>> <=> Len(Windows) = 0)
  BY WindowsTyped DEF TournamentInit, Windows
<1>2. TournamentTyped
  BY <1>1 DEF TournamentInit, TournamentTyped, Windows
<1>3. FoldsJust
  BY <1>1 DEF TournamentInit, FoldsJust
<1>4. phase # "done"
  BY DEF TournamentInit
<1> QED BY <1>2, <1>3, <1>4 DEF TournamentInv, RecommendationStable

\* A walk that may go on is not finished, and the next fold has a window.
LEMMA MayWalkFacts ==
  ASSUME TournamentTyped, FoldsJust, NEW c \in ArmIds, MayWalk(c)
  PROVE  /\ phase = "walk" /\ c \in kept
         /\ rows[c] \in Seq(Row) /\ Len(rows[c]) \in Nat /\ Len(Windows) \in Nat
         /\ Len(rows[c]) < Len(Windows)
<1>1. phase = "walk" /\ c \in kept /\ (c \in Running \/ rows[c] = <<>>)
  BY DEF MayWalk
<1>2. rows[c] \in Seq(Row) /\ Len(Windows) > 0 /\ Len(Windows) \in Nat
  BY <1>1, WindowsTyped DEF TournamentTyped, Windows
<1> QED BY <1>1, <1>2 DEF Running

\* One fold of one candidate: its row is adopted or the baseline of that fold.
LEMMA WalkStep == ASSUME TournamentInv, NEW c \in ArmIds, WalkFold(c) PROVE TournamentInv'
<1>1. TournamentTyped /\ FoldsJust /\ MayWalk(c)
  BY DEF TournamentInv, WalkFold
<1>2. /\ phase = "walk" /\ c \in kept
      /\ rows[c] \in Seq(Row) /\ Len(rows[c]) \in Nat /\ Len(Windows) \in Nat
      /\ Len(rows[c]) < Len(Windows)
  BY <1>1, MayWalkFacts
<1>3. PICK i \in Nat : i = Len(rows[c]) + 1 /\ i \in 1..Len(Windows)
  BY <1>2
<1>4. i \in DOMAIN BaseTest
  <2>1. Len(Windows) =< Len(BaseTest) /\ DOMAIN BaseTest = 1..Len(BaseTest) /\ Len(BaseTest) \in Nat
    BY <1>1, WindowsTyped, ResultsAssumption DEF TournamentTyped, Windows
  <2> QED BY <1>2, <1>3, <2>1
<1>5. PICK train \in TrainResults[i], test \in TestResults[i] :
         rows' = [rows EXCEPT ![c] = Append(@, [adopted |-> TrainPasses(objective, train, BaseTrain[i]),
                    chosen |-> Chosen(TrainPasses(objective, train, BaseTrain[i]), test, BaseTest[i])])]
  BY <1>3 DEF WalkFold
<1>6. PICK a \in BOOLEAN : a = TrainPasses(objective, train, BaseTrain[i])
  BY <1>1, TrainPassesDecides DEF TournamentTyped
<1>7. PICK row \in Row : /\ row = [adopted |-> a, chosen |-> Chosen(a, test, BaseTest[i])]
                         /\ Justly(row, i)
  <2>1. test \in Results /\ BaseTest[i] \in Results
    BY <1>4, ResultsAssumption
  <2>2. Chosen(a, test, BaseTest[i]) \in Results
    BY <2>1 DEF Chosen
  <2>3. [adopted |-> a, chosen |-> Chosen(a, test, BaseTest[i])] \in Row
    BY <2>2 DEF Row
  <2>4. Justly([adopted |-> a, chosen |-> Chosen(a, test, BaseTest[i])], i)
    BY Zenon DEF Justly, Chosen
  <2> QED BY <2>3, <2>4
<1>8. rows' = [rows EXCEPT ![c] = Append(@, row)]
  BY <1>5, <1>6, <1>7, Zenon
<1>9. /\ UNCHANGED <<plan, objective, phase, kept, champion, recommended>>
      /\ finished' = IF i = Len(Windows) THEN Append(finished, c) ELSE finished
  BY <1>3 DEF WalkFold
<1>10. Windows' = Windows
  BY <1>9 DEF Windows
<1>11. rows \in [ArmIds -> Seq(Row)]
  BY <1>1 DEF TournamentTyped
<1>12. /\ rows' \in [ArmIds -> Seq(Row)]
       /\ rows'[c] = Append(rows[c], row)
       /\ \A d \in ArmIds \ {c} : rows'[d] = rows[d]
  BY <1>2, <1>8, <1>11
<1>13. TournamentTyped'
  <2>1. finished' \in Seq(ArmIds)
    BY <1>1, <1>9 DEF TournamentTyped
  <2> QED BY <1>1, <1>9, <1>10, <1>12, <2>1 DEF TournamentTyped
<1>14. Len(rows'[c]) = i /\ \A k \in 1..i : rows'[c][k] = IF k = i THEN row ELSE rows[c][k]
  BY <1>2, <1>3, <1>12
<1>15. FoldsJust'
  <2>1. ASSUME NEW d \in ArmIds
        PROVE  Len(rows'[d]) =< Len(Windows) /\ \A k \in 1..Len(rows'[d]) : Justly(rows'[d][k], k)
    <3>1. CASE d = c
      <4>1. \A k \in 1..Len(rows[c]) : Justly(rows[c][k], k)
        BY <1>1 DEF FoldsJust
      <4>2. ASSUME NEW k \in 1..i PROVE Justly(rows'[c][k], k)
        <5>1. CASE k = i
          BY <1>7, <1>14, <5>1
        <5>2. CASE k # i
          <6>1. k \in 1..Len(rows[c])
            BY <1>2, <1>3, <5>2
          <6> QED BY <1>14, <4>1, <5>2, <6>1
        <5> QED BY <5>1, <5>2
      <4> QED BY <1>3, <1>14, <3>1, <4>2
    <3>2. CASE d # c
      BY <1>1, <1>12, <3>2 DEF FoldsJust
    <3> QED BY <3>1, <3>2
  <2>2. \A r, k : Justly(r, k)' <=> Justly(r, k)
    BY DEF Justly
  <2>3. ASSUME NEW k \in 1..Len(finished') PROVE finished'[k] \in kept' /\ Len(rows'[finished'[k]]) = Len(Windows)'
    <3>0. finished \in Seq(ArmIds) /\ Len(finished) \in Nat
      BY <1>1 DEF TournamentTyped
    <3>1. CASE k \in 1..Len(finished)
      <4>1. finished'[k] = finished[k]
        BY <1>9, <3>0, <3>1
      <4>2. finished[k] \in kept /\ finished[k] \in ArmIds /\ Len(rows[finished[k]]) = Len(Windows)
        BY <1>1, <3>0, <3>1 DEF FoldsJust, FullyWalked
      <4>3. finished[k] # c
        BY <1>2, <4>2
      <4> QED BY <1>9, <1>10, <1>12, <4>1, <4>2, <4>3
    <3>2. CASE k \notin 1..Len(finished)
      <4>1. i = Len(Windows) /\ finished'[k] = c
        BY <1>9, <3>0, <3>2
      <4>2. Len(rows'[c]) = Len(Windows)
        BY <1>14, <4>1
      <4> QED BY <1>2, <1>9, <1>10, <4>1, <4>2
    <3> QED BY <3>1, <3>2
  <2>4. phase' \notin {"screen", "refused"}
    BY <1>2, <1>9
  <2> QED BY <1>10, <2>1, <2>2, <2>3, <2>4 DEF FoldsJust, FullyWalked
<1>16. RecommendationStable'
  BY <1>2, <1>9 DEF RecommendationStable
<1> QED BY <1>13, <1>15, <1>16 DEF TournamentInv

\* The in-sample screen keeps some of the candidates and starts the walks.
LEMMA ScreenStep == ASSUME TournamentInv, Screen PROVE TournamentInv'
<1>1. TournamentTyped /\ FoldsJust /\ phase = "screen" /\ phase' = "walk"
  BY DEF TournamentInv, Screen
<1>2. UNCHANGED <<plan, objective, rows, finished, recommended>>
  BY DEF Screen
<1>3. kept' \in SUBSET ArmIds
  BY DEF Screen, Screened
<1>4. Windows' = Windows
  BY <1>2 DEF Windows
<1>5. TournamentTyped'
  BY <1>1, <1>2, <1>3, <1>4 DEF TournamentTyped
<1>6. finished = <<>>
  BY <1>1 DEF FoldsJust
<1>7. FoldsJust'
  <2>1. \A r, k : Justly(r, k)' <=> Justly(r, k)
    BY DEF Justly
  <2> QED BY <1>1, <1>2, <1>4, <1>6, <2>1 DEF FoldsJust
<1>8. RecommendationStable'
  BY <1>1 DEF RecommendationStable
<1> QED BY <1>5, <1>7, <1>8 DEF TournamentInv

\* What was said of a test of a candidate is said of it after a step that
\* leaves the walks alone.
LEMMA WalksKept ==
  ASSUME UNCHANGED <<plan, objective, kept, rows, finished>>
  PROVE  /\ Windows' = Windows
         /\ \A c : ChosenTest(c)' = ChosenTest(c) /\ (Adopted(c)' <=> Adopted(c))
         /\ TournamentTyped => (phase' \in {"walk", "done", "failed"} /\ phase = "walk" => TournamentTyped')
         /\ FoldsJust => (phase' \notin {"screen", "refused"} => FoldsJust')
<1>1. Windows' = Windows
  BY DEF Windows
<1>2. \A c : ChosenTest(c)' = ChosenTest(c)
  BY DEF ChosenTest
<1>3. BaselineTest' = BaselineTest
  BY <1>1 DEF BaselineTest
<1>4. \A c : Adopted(c)' <=> Adopted(c)
  BY <1>2, <1>3 DEF Adopted
<1>5. TournamentTyped => (phase' \in {"walk", "done", "failed"} /\ phase = "walk" => TournamentTyped')
  BY <1>1 DEF TournamentTyped
<1>6. FoldsJust => (phase' \notin {"screen", "refused"} => FoldsJust')
  <2>1. \A r, k : Justly(r, k)' <=> Justly(r, k)
    BY DEF Justly
  <2>2. \A c : FullyWalked(c)' <=> FullyWalked(c)
    BY <1>1 DEF FullyWalked
  <2> QED BY <1>1, <2>1, <2>2 DEF FoldsJust
<1> QED BY <1>1, <1>2, <1>4, <1>5, <1>6

\* A runner that fails ends the tournament with nothing recommended.
LEMMA FailStep == ASSUME TournamentInv, NEW c \in ArmIds, RunnerFails(c) PROVE TournamentInv'
<1>1. TournamentTyped /\ FoldsJust /\ phase = "walk" /\ phase' = "failed"
  BY DEF TournamentInv, RunnerFails, MayWalk
<1>2. UNCHANGED <<plan, objective, kept, rows, finished>>
  BY DEF RunnerFails
<1>3. TournamentTyped' /\ FoldsJust'
  BY <1>1, <1>2, WalksKept
<1>4. RecommendationStable'
  BY <1>1 DEF RecommendationStable
<1> QED BY <1>3, <1>4 DEF TournamentInv

\* A sequence of results, its wealth and its profit.
LEMMA ResultSums ==
  ASSUME NEW s \in Seq(Results)
  PROVE  /\ Wealth(s) \in Int /\ Profit(s) \in Int
         /\ IsFiniteSet(DOMAIN s) /\ DOMAIN s = 1..Len(s)
         /\ \A i \in DOMAIN s : s[i].tw \in Nat \ {0} /\ s[i].paid \in Nat /\ s[i].xirr \in Int
<1>1. DOMAIN s = 1..Len(s) /\ Len(s) \in Nat
  OBVIOUS
<1>2. IsFiniteSet(DOMAIN s)
  BY <1>1, FS_Interval
<1>3. \A i \in DOMAIN s : s[i].tw \in Nat \ {0} /\ s[i].paid \in Nat /\ s[i].xirr \in Int
  <2>1. \A i \in DOMAIN s : s[i] \in Results
    BY <1>1
  <2>2. \A r \in Results : r.tw \in Nat \ {0} /\ r.paid \in Nat /\ r.xirr \in Int
    BY DEF Results
  <2> QED BY <2>1, <2>2
<1> DEFINE w == [i \in DOMAIN s |-> s[i].tw]
           g == [i \in DOMAIN s |-> Gain(s[i])]
<1>4. \A i \in DOMAIN s : w[i] \in Int /\ g[i] \in Int
  BY <1>3 DEF Gain
<1>5. SumFunctionOnSet(w, DOMAIN s) \in Int /\ SumFunctionOnSet(g, DOMAIN s) \in Int
  <2> HIDE DEF w, g
  <2> QED BY <1>2, <1>4, SumIsInt
<1> QED BY <1>1, <1>2, <1>3, <1>5 DEF Wealth, Profit

\* What the folds of a candidate chose, as results.
LEMMA TestTyped ==
  ASSUME TournamentTyped, NEW c \in ArmIds
  PROVE  /\ ChosenTest(c) \in Seq(Results) /\ Len(ChosenTest(c)) = Len(rows[c])
         /\ DOMAIN ChosenTest(c) = DOMAIN rows[c] /\ DOMAIN rows[c] = 1..Len(rows[c])
         /\ \A i \in DOMAIN rows[c] : ChosenTest(c)[i] = rows[c][i].chosen
<1>1. rows[c] \in Seq(Row)
  BY DEF TournamentTyped
<1>2. \A i \in DOMAIN rows[c] : rows[c][i].chosen \in Results
  <2>1. \A r \in Row : r.chosen \in Results
    BY DEF Row
  <2> QED BY <1>1, <2>1
<1> QED BY <1>1, <1>2 DEF ChosenTest

\* The baseline runs of the folds, as results.
LEMMA BaselineTyped ==
  ASSUME TournamentTyped
  PROVE  /\ BaselineTest \in Seq(Results) /\ Len(BaselineTest) = Len(Windows)
         /\ DOMAIN BaselineTest = 1..Len(Windows)
         /\ \A i \in 1..Len(Windows) : BaselineTest[i] = BaseTest[i]
<1>1. Len(Windows) \in Nat /\ Len(Windows) =< Len(BaseTest) /\ DOMAIN Windows = 1..Len(Windows)
  BY WindowsTyped DEF TournamentTyped, Windows
<1>2. \A i \in 1..Len(Windows) : BaseTest[i] \in Results
  BY <1>1, ResultsAssumption
<1> QED BY <1>1, <1>2 DEF BaselineTest

\* If the wealth over all folds is larger, so is that of some fold.
LEMMA SomeFoldRicher ==
  ASSUME NEW c \in Seq(Results), NEW b \in Seq(Results), Len(c) = Len(b), Wealth(c) > Wealth(b)
  PROVE  \E i \in DOMAIN c : c[i].tw > b[i].tw
<1> SUFFICES ASSUME \A i \in DOMAIN c : ~(c[i].tw > b[i].tw) PROVE FALSE
  OBVIOUS
<1> DEFINE f == [i \in DOMAIN c |-> c[i].tw]
           g == [i \in DOMAIN c |-> b[i].tw]
<1>1. DOMAIN b = DOMAIN c /\ IsFiniteSet(DOMAIN c) /\ Wealth(c) \in Int /\ Wealth(b) \in Int
  BY ResultSums
<1>2. \A i \in DOMAIN c : f[i] \in Int /\ g[i] \in Int /\ f[i] =< g[i]
  BY <1>1, ResultSums
<1>3. SumFunctionOnSet(f, DOMAIN c) =< SumFunctionOnSet(g, DOMAIN c)
  <2> HIDE DEF f, g
  <2> QED BY <1>1, <1>2, SumIsMonotone
<1>4. Wealth(c) = SumFunctionOnSet(f, DOMAIN c)
  BY DEF Wealth
<1>5. Wealth(b) = SumFunctionOnSet(g, DOMAIN c)
  BY <1>1 DEF Wealth
<1> QED BY <1>1, <1>3, <1>4, <1>5

\* So does the certainty equivalent: it is larger only if some fold is richer.
LEMMA SomeFoldSurer ==
  ASSUME NEW c \in Seq(Results), NEW b \in Seq(Results), Len(c) = Len(b), Len(c) > 0,
         AdoptionPasses(CertaintyEquivalent(c), CertaintyEquivalent(b))
  PROVE  \E i \in DOMAIN c : c[i].tw > b[i].tw
<1> SUFFICES ASSUME \A i \in DOMAIN c : ~(c[i].tw > b[i].tw) PROVE FALSE
  OBVIOUS
<1>1. DOMAIN c = 1..Len(c) /\ DOMAIN b = 1..Len(c) /\ Len(c) \in Nat
  OBVIOUS
<1>2. \A i \in 1..Len(c) : c[i].tw =< b[i].tw
  BY <1>1, ResultSums, SMTT(40)
<1>3. PICK u \in Nat, x \in Nat, v \in Nat \ {0}, y \in Nat \ {0} :
         Reciprocals(c) = <<u, v>> /\ Reciprocals(b) = <<x, y>> /\ x * v =< u * y
  BY <1>2, PoorerIsWorse
<1>4. PICK n \in Nat : n = Len(c)
  BY <1>1
<1>5. PICK h \in Nat : h = Hurdle * Modules
  <2>1. \A i, j \in Nat : i * j \in Nat
    OBVIOUS
  <2> QED BY <2>1, ResultsAssumption
<1>6. 100 * (n * v) * x > (100 + h) * (n * y) * u
  BY <1>3, <1>4, <1>5 DEF AdoptionPasses, CertaintyEquivalent
<1>7. PICK p \in Nat, q \in Nat : p = x * v /\ q = u * y /\ p =< q
  <2>1. \A i, j \in Nat : i * j \in Nat
    OBVIOUS
  <2> QED BY <1>3, <2>1
<1>8. 100 * (n * v) * x = n * (100 * p) /\ (100 + h) * (n * y) * u = n * (100 * q) + n * (h * q)
  BY <1>7
<1>9. n * (100 * p) =< n * (100 * q) /\ 0 =< n * (h * q)
  <2>1. \A i, j \in Nat : i * j \in Nat
    OBVIOUS
  <2>2. \A i, j, k \in Nat : i =< j => k * i =< k * j
    OBVIOUS
  <2>3. 100 * p \in Nat /\ 100 * q \in Nat /\ 100 * p =< 100 * q
    BY <1>7
  <2>4. h * q \in Nat
    BY <2>1
  <2>5. n * (h * q) \in Nat
    BY <2>1, <2>4
  <2> QED BY <2>2, <2>3, <2>5
<1>10. PICK i \in Nat, j \in Nat, k \in Nat : i = n * (100 * p) /\ j = n * (100 * q) /\ k = n * (h * q)
  <2>1. \A a, d \in Nat : a * d \in Nat
    OBVIOUS
  <2>2. h * q \in Nat /\ 100 * p \in Nat /\ 100 * q \in Nat
    BY <2>1
  <2> QED BY <2>1, <2>2
<1>11. i > j + k
  BY <1>6, <1>8, <1>10
<1>12. i =< j
  BY <1>9, <1>10, Zenon
<1> QED BY <1>11, <1>12

\* A candidate adopted over all folds was adopted in one of them.
LEMMA AdoptionIsEarned == TournamentTyped /\ FoldsJust => AdoptionEarned
<1> SUFFICES ASSUME TournamentTyped, FoldsJust, NEW c \in ToSet(finished), Adopted(c)
             PROVE  /\ \E i \in DOMAIN rows[c] : rows[c][i].adopted /\ rows[c][i].chosen.tw > BaseTest[i].tw
                    /\ \A i \in DOMAIN rows[c] : rows[c][i].adopted \/ rows[c][i].chosen = BaseTest[i]
                    /\ objective # "ce" =>
                         \A i \in DOMAIN rows[c] : 20 * rows[c][i].chosen.tw >= 19 * BaseTest[i].tw
                    /\ objective \in {"adaptive_growth", "compound_growth"} =>
                         Profit(ChosenTest(c)) > Profit(BaselineTest)
  BY DEF AdoptionEarned
<1>0. PICK k \in 1..Len(finished) : c = finished[k]
  BY DEF TournamentTyped, ToSet
<1>1. c \in ArmIds /\ Len(rows[c]) = Len(Windows) /\ c \in kept
  <2>1. finished \in Seq(ArmIds)
    BY DEF TournamentTyped
  <2> QED BY <1>0, <2>1 DEF FoldsJust, FullyWalked
<1>2. Len(Windows) \in Nat /\ Len(Windows) > 0
  <2>1. Len(Windows) \in Nat
    BY WindowsTyped DEF TournamentTyped, Windows
  <2>2. phase # "refused"
    <3>1. finished # <<>>
      BY <1>0
    <3> QED BY <3>1 DEF FoldsJust
  <2> QED BY <2>1, <2>2 DEF TournamentTyped
<1> DEFINE ch == ChosenTest(c)
           bt == BaselineTest
           D == DOMAIN rows[c]
<1>3. /\ ch \in Seq(Results) /\ bt \in Seq(Results) /\ Len(ch) = Len(bt) /\ Len(ch) > 0
      /\ DOMAIN ch = D /\ DOMAIN bt = D /\ D = 1..Len(rows[c])
      /\ \A i \in D : ch[i] = rows[c][i].chosen /\ bt[i] = BaseTest[i]
  BY <1>1, <1>2, TestTyped, BaselineTyped
<1>4. \A i \in D : rows[c][i].adopted \/ rows[c][i].chosen = BaseTest[i]
  BY <1>1, <1>3 DEF FoldsJust, Justly
<1>5. \A i \in D : ch[i].tw \in Nat \ {0} /\ bt[i].tw \in Nat \ {0}
  BY <1>3, ResultSums
<1>6. ProcessPasses(objective, ch, bt) /\ objective \in {"adaptive_growth", "compound_growth", "growth_first", "ce"}
  BY ArmsAssumption DEF Adopted, TournamentTyped
<1> HIDE DEF ch, bt, D
<1>7. CASE objective = "ce"
  <2>1. PICK i \in D : ch[i].tw > bt[i].tw
    <3>1. AdoptionPasses(CertaintyEquivalent(ch), CertaintyEquivalent(bt))
      BY <1>6, <1>7 DEF ProcessPasses
    <3> QED BY <1>3, <3>1, SomeFoldSurer
  <2> QED BY <1>3, <1>4, <1>5, <1>7, <2>1 DEF D
<1>8. CASE objective # "ce"
  <2>0. \A a, b \in Nat : /\ 100 * a >= 97 * b => 100 * a >= 95 * b
                          /\ 100 * a >= 95 * b => 20 * a >= 19 * b
    OBVIOUS
  <2>1. Wealth(ch) > Wealth(bt) /\ \A i \in D : 100 * ch[i].tw >= 95 * bt[i].tw
    <3>1. CASE objective = "growth_first"
      <4>1. GrowthFirstProcess(ch, bt)
        BY <1>6, <3>1 DEF ProcessPasses
      <4>2. \A i \in D : 100 * ch[i].tw >= 97 * bt[i].tw
        BY <1>3, <4>1 DEF GrowthFirstProcess, NoFoldBelow
      <4> QED BY <1>5, <2>0, <4>1, <4>2 DEF GrowthFirstProcess
    <3>2. CASE objective = "adaptive_growth"
      <4>1. ContributionGrowthProcess(ch, bt)
        BY <1>6, <3>2 DEF ProcessPasses
      <4>2. \A i \in D : 100 * ch[i].tw >= 97 * bt[i].tw
        BY <1>3, <4>1 DEF ContributionGrowthProcess, NoFoldBelow
      <4> QED BY <1>5, <2>0, <4>1, <4>2 DEF ContributionGrowthProcess, PooledGain
    <3>3. CASE objective = "compound_growth"
      <4>1. CompoundGrowthProcess(ch, bt)
        BY <1>6, <3>3 DEF ProcessPasses
      <4> QED BY <1>3, <1>5, <4>1 DEF CompoundGrowthProcess, PooledGain, NoFoldBelow
    <3> QED BY <1>6, <1>8, <3>1, <3>2, <3>3
  <2>2. PICK i \in D : ch[i].tw > bt[i].tw
    BY <1>3, <2>1, SomeFoldRicher
  <2>3. objective \in {"adaptive_growth", "compound_growth"} => Profit(ch) > Profit(bt)
    <3>1. CASE objective = "adaptive_growth"
      BY <1>6, <3>1 DEF ProcessPasses, ContributionGrowthProcess, PooledGain
    <3>2. CASE objective = "compound_growth"
      BY <1>6, <3>2 DEF ProcessPasses, CompoundGrowthProcess, PooledGain
    <3> QED BY <3>1, <3>2
  <2>4. \A j \in D : 20 * rows[c][j].chosen.tw >= 19 * BaseTest[j].tw
    <3>1. \A j \in D : 20 * ch[j].tw >= 19 * bt[j].tw
      BY <1>5, <2>0, <2>1
    <3> QED BY <1>3, <3>1
  <2>5. rows[c][i].adopted /\ rows[c][i].chosen.tw > BaseTest[i].tw
    BY <1>3, <1>4, <1>5, <2>2
  <2> QED BY <1>4, <2>3, <2>4, <2>5 DEF ch, bt, D
<1> QED BY <1>7, <1>8

\* The recommendation does not depend on the order the walks ended in.
LEMMA RecommendStep == ASSUME TournamentInv, Recommend PROVE TournamentInv'
<1>1. TournamentTyped /\ FoldsJust /\ phase = "walk" /\ phase' = "done" /\ ToSet(finished) = kept
  BY DEF TournamentInv, Recommend
<1>2. UNCHANGED <<plan, objective, kept, rows, finished>> /\ recommended' = SelectRecommendedArm(Arms)
  BY DEF Recommend
<1>3. TournamentTyped' /\ FoldsJust'
  BY <1>1, <1>2, WalksKept
<1> DEFINE places == {i \in DOMAIN Arms : Adopted(Arms[i])}
           gain == [i \in places |-> Profit(ChosenTest(Arms[i]))]
           admitted == {c \in kept : Adopted(c)}
           Foremost(i) == \A j \in places \ {i} : gain[j] < gain[i] \/ (gain[j] = gain[i] /\ i < j)
<1>4. DOMAIN Arms = 1..Len(Arms) /\ Len(Arms) \in Nat /\ kept \in SUBSET ArmIds /\ \A i \in DOMAIN Arms : Arms[i] \in ArmIds
  BY <1>1, ArmsAssumption DEF ArmIds, ToSet, TournamentTyped
<1>5. \A c \in admitted : Position(c) \in places /\ Arms[Position(c)] = c
  <2> SUFFICES ASSUME NEW c \in admitted PROVE Position(c) \in places /\ Arms[Position(c)] = c
    OBVIOUS
  <2>1. \E i \in DOMAIN Arms : Arms[i] = c
    BY <1>4 DEF ArmIds, ToSet
  <2>2. Position(c) \in DOMAIN Arms /\ Arms[Position(c)] = c
    BY <2>1 DEF Position
  <2> QED BY <2>2
<1>6. \A i \in places : Arms[i] \in admitted /\ Position(Arms[i]) = i /\ gain[i] = Profit(ChosenTest(Arms[i])) /\ gain[i] \in Int
  <2> SUFFICES ASSUME NEW i \in places
               PROVE  Arms[i] \in admitted /\ Position(Arms[i]) = i /\ gain[i] = Profit(ChosenTest(Arms[i])) /\ gain[i] \in Int
    OBVIOUS
  <2>1. Arms[i] \in admitted
    BY DEF Adopted
  <2>2. Position(Arms[i]) \in DOMAIN Arms /\ Arms[Position(Arms[i])] = Arms[i]
    BY <1>5, <2>1
  <2>3. Position(Arms[i]) = i
    BY <2>2, ArmsAssumption
  <2>4. Profit(ChosenTest(Arms[i])) \in Int
    BY <1>1, <1>4, TestTyped, ResultSums
  <2> QED BY <2>1, <2>3, <2>4
<1>7. \A c : (Adopted(c)' <=> Adopted(c)) /\ ChosenTest(c)' = ChosenTest(c)
  BY <1>2, WalksKept
<1>8. CASE places = {}
  <2>1. admitted = {}
    BY <1>5, <1>8
  <2>2. recommended' = BaselineArm
    BY <1>2, <1>8 DEF SelectRecommendedArm
  <2>3. {c \in kept' : Adopted(c)'} = {}
    BY <1>2, <1>7, <2>1
  <2> QED BY <1>3, <2>2, <2>3 DEF TournamentInv, RecommendationStable
<1>9. CASE places # {}
  <2>1. \E i \in places : Foremost(i)
    <3>1. places \subseteq 1..Len(Arms) /\ \A i \in places : gain[i] \in Int
      BY <1>4, <1>6
    <3> HIDE DEF places, gain
    <3> QED BY <1>4, <1>9, <3>1, FirstGreatest
  <2>2. recommended' = Arms[CHOOSE i \in places : Foremost(i)]
    BY <1>2, <1>9, Zenon DEF SelectRecommendedArm
  <2>3. PICK i \in places : recommended' = Arms[i] /\ Foremost(i)
    <3> HIDE DEF places, Foremost
    <3> QED BY <2>1, <2>2
  <2>4. recommended' \in admitted /\ Position(recommended') = i
    BY <1>6, <2>3
  <2>5. ASSUME NEW c \in admitted, c # recommended'
        PROVE  LET own == Profit(ChosenTest(c))
                   best == Profit(ChosenTest(recommended'))
               IN  own < best \/ (own = best /\ Position(recommended') < Position(c))
    <3>1. PICK j \in places : j = Position(c) /\ Arms[j] = c
      BY <1>5
    <3>2. j # i
      BY <2>3, <2>5, <3>1
    <3>3. gain[j] < gain[i] \/ (gain[j] = gain[i] /\ i < j)
      BY <2>3, <3>2
    <3>4. gain[j] = Profit(ChosenTest(c)) /\ gain[i] = Profit(ChosenTest(recommended'))
      BY <2>3, <3>1
    <3> HIDE DEF gain
    <3> QED BY <2>4, <3>1, <3>3, <3>4
  <2>6. {c \in kept' : Adopted(c)'} = admitted
    BY <1>2, <1>7
  <2> HIDE DEF admitted
  <2> QED BY <1>3, <1>7, <2>4, <2>5, <2>6 DEF TournamentInv, RecommendationStable
<1> QED BY <1>8, <1>9

\* Every step of the tournament keeps its invariant.
LEMMA TournamentStep == TournamentInv /\ [TournamentNext]_tournamentVars => TournamentInv'
<1> SUFFICES ASSUME TournamentInv, [TournamentNext]_tournamentVars PROVE TournamentInv'
  OBVIOUS
<1>1. CASE UNCHANGED tournamentVars
  <2>1. TournamentTyped /\ FoldsJust /\ RecommendationStable
    BY DEF TournamentInv
  <2>2. UNCHANGED <<plan, objective, kept, rows, finished, phase, recommended>>
    BY <1>1 DEF tournamentVars
  <2>3. Windows' = Windows /\ \A c : ChosenTest(c)' = ChosenTest(c) /\ (Adopted(c)' <=> Adopted(c))
    BY <2>2, WalksKept
  <2>4. TournamentTyped'
    BY <2>1, <2>2, <2>3 DEF TournamentTyped
  <2>5. FoldsJust'
    BY <2>1, <2>2, <2>3 DEF FoldsJust, FullyWalked, Justly
  <2>6. RecommendationStable'
    BY <2>1, <2>2, <2>3 DEF RecommendationStable
  <2> QED BY <2>4, <2>5, <2>6 DEF TournamentInv
<1>2. CASE Screen
  BY <1>2, ScreenStep
<1>3. CASE Recommend
  BY <1>3, RecommendStep
<1>4. ASSUME NEW c \in ArmIds, WalkFold(c) \/ RunnerFails(c) PROVE TournamentInv'
  BY <1>4, WalkStep, FailStep
<1> QED BY <1>1, <1>2, <1>3, <1>4 DEF TournamentNext

\* A candidate adopted over all folds was adopted in one of them, the recommendation
\* is the same whatever order the walks end in, and no calendar looks ahead
\* (run_walk_forward, run_tournament).
THEOREM TournamentIsHonest == TournamentSpec => []TournamentHonest
<1>1. TournamentInv => TournamentHonest
  BY AdoptionIsEarned, CalendarsAreAhead DEF TournamentInv, TournamentHonest
<1> QED BY <1>1, TournamentInitial, TournamentStep, PTL DEF TournamentSpec

-----------------------------------------------------------------------------
(* The screen of the contribution parameters *)

\* A relation is a strict total order on a set.
Orders(R, S) ==
  /\ \A x \in S : <<x, x>> \notin R
  /\ \A x, y, z \in S : <<x, y>> \in R /\ <<y, z>> \in R => <<x, z>> \in R
  /\ \A x, y \in S : x = y \/ <<x, y>> \in R \/ <<y, x>> \in R

\* How many elements come before one.
Preceding(R, S, x) == {y \in S : <<y, x>> \in R}
PlaceIn(R, S, x) == Cardinality(Preceding(R, S, x))

\* In a finite set with a strict total order every place is taken, by one element.
LEMMA EveryPlaceTaken ==
  ASSUME NEW S, IsFiniteSet(S), NEW R, Orders(R, S)
  PROVE  /\ \A i \in 0 .. Cardinality(S) - 1 : \E x \in S : PlaceIn(R, S, x) = i
         /\ \A x, y \in S : PlaceIn(R, S, x) = PlaceIn(R, S, y) => x = y
<1> DEFINE n == Cardinality(S)
           place == [x \in S |-> PlaceIn(R, S, x)]
<1>1. n \in Nat
  BY FS_CardinalityType
<1>2. \A x \in S : Preceding(R, S, x) \in SUBSET S /\ Preceding(R, S, x) # S
  BY DEF Orders, Preceding
<1>3. \A x \in S : IsFiniteSet(Preceding(R, S, x)) /\ PlaceIn(R, S, x) \in 0 .. n - 1
  <2> SUFFICES ASSUME NEW x \in S PROVE IsFiniteSet(Preceding(R, S, x)) /\ PlaceIn(R, S, x) \in 0 .. n - 1
    OBVIOUS
  <2>1. PICK B : B = Preceding(R, S, x)
    OBVIOUS
  <2>2. IsFiniteSet(B) /\ Cardinality(B) =< n /\ Cardinality(B) # n
    BY <1>2, <2>1, FS_Subset
  <2>3. Cardinality(B) \in Nat
    BY <2>2, FS_CardinalityType
  <2> HIDE DEF n
  <2> QED BY <1>1, <2>1, <2>2, <2>3 DEF PlaceIn
<1>4. ASSUME NEW x \in S, NEW y \in S, <<x, y>> \in R PROVE PlaceIn(R, S, x) < PlaceIn(R, S, y)
  <2>1. PICK B : B = Preceding(R, S, x)
    OBVIOUS
  <2>2. PICK C : C = Preceding(R, S, y)
    OBVIOUS
  <2>3. B \in SUBSET C /\ x \in C /\ x \notin B
    BY <1>4, <2>1, <2>2 DEF Orders, Preceding
  <2>4. IsFiniteSet(C)
    BY <1>3, <2>2
  <2>5. Cardinality(B) =< Cardinality(C) /\ Cardinality(B) # Cardinality(C)
    BY <2>3, <2>4, FS_Subset
  <2>6. PlaceIn(R, S, x) = Cardinality(B) /\ PlaceIn(R, S, y) = Cardinality(C)
    BY <2>1, <2>2 DEF PlaceIn
  <2>7. PlaceIn(R, S, x) \in 0 .. n - 1 /\ PlaceIn(R, S, y) \in 0 .. n - 1
    BY <1>3
  <2> HIDE DEF n
  <2> QED BY <1>1, <2>5, <2>6, <2>7
<1> HIDE DEF n
<1>5. ASSUME NEW x \in S, NEW y \in S, x # y PROVE PlaceIn(R, S, x) # PlaceIn(R, S, y)
  <2>1. <<x, y>> \in R \/ <<y, x>> \in R
    BY <1>5 DEF Orders
  <2>2. PlaceIn(R, S, x) < PlaceIn(R, S, y) \/ PlaceIn(R, S, y) < PlaceIn(R, S, x)
    BY <2>1, <1>4
  <2> QED BY <2>2, <1>1, <1>3
<1>6. place \in Injection(S, 0 .. n - 1)
  BY <1>3, <1>5 DEF Injection, IsInjective
<1>7. IsFiniteSet(0 .. n - 1) /\ Cardinality(0 .. n - 1) = n
  BY <1>1, FS_Interval
<1>8. place \in Surjection(S, 0 .. n - 1)
  <2> HIDE DEF place
  <2>1. Cardinality(S) = Cardinality(0 .. n - 1) => place \in Surjection(S, 0 .. n - 1)
    BY <1>6, <1>7, FS_Injection
  <2> QED BY <2>1, <1>7 DEF n
<1>9. \A i \in 0 .. n - 1 : \E x \in S : PlaceIn(R, S, x) = i
  BY <1>8 DEF Surjection
<1> QED BY <1>5, <1>9 DEF n

\* So a finite nonempty set has an element before every other.
LEMMA FirstOfOrder ==
  ASSUME NEW S, IsFiniteSet(S), S # {}, NEW R, Orders(R, S)
  PROVE  \E x \in S : \A y \in S \ {x} : <<x, y>> \in R
<1>1. Cardinality(S) \in Nat /\ Cardinality(S) # 0
  BY FS_CardinalityType, FS_EmptySet
<1>2. 0 \in 0 .. Cardinality(S) - 1
  BY <1>1
<1>3. PICK x \in S : PlaceIn(R, S, x) = 0
  BY <1>2, EveryPlaceTaken
<1>4. PICK B : B = Preceding(R, S, x)
  OBVIOUS
<1>5. IsFiniteSet(B)
  <2>1. B \in SUBSET S
    BY <1>4 DEF Preceding
  <2> QED BY <2>1, FS_Subset
<1>6. B = {}
  BY <1>3, <1>4, <1>5, FS_EmptySet DEF PlaceIn
<1> QED BY <1>4, <1>6 DEF Orders, Preceding

\* There are finitely many functions into a finite set.
LEMMA FunctionsFinite ==
  ASSUME NEW V, IsFiniteSet(V), NEW n \in Nat
  PROVE  IsFiniteSet([1 .. n -> V])
<1> DEFINE Q == {k \in Nat : IsFiniteSet([1 .. k -> V])}
<1>1. 0 \in Q
  <2>1. \A f \in [1 .. 0 -> V] : f = [i \in 1 .. 0 |-> i]
    OBVIOUS
  <2>2. PICK e : e = [i \in 1 .. 0 |-> i]
    OBVIOUS
  <2>3. [1 .. 0 -> V] \in SUBSET {e}
    BY <2>1, <2>2
  <2>4. IsFiniteSet({e})
    BY FS_Singleton
  <2>5. IsFiniteSet([1 .. 0 -> V])
    BY <2>3, <2>4, FS_Subset
  <2> QED BY <2>5
<1>2. ASSUME NEW k \in Nat, k \in Q PROVE k + 1 \in Q
  <2> DEFINE A == [1 .. k + 1 -> V]
             B == [1 .. k -> V]
             split == [f \in A |-> <<[i \in 1 .. k |-> f[i]], f[k + 1]>>]
  <2>1. IsFiniteSet(B \X V)
    BY <1>2, FS_Product
  <2>2. split \in [A -> B \X V]
    BY k + 1 \in 1 .. k + 1, \A i \in 1 .. k : i \in 1 .. k + 1
  <2>3. ASSUME NEW f \in A, NEW g \in A, split[f] = split[g] PROVE f = g
    <3>1. [i \in 1 .. k |-> f[i]] = [i \in 1 .. k |-> g[i]] /\ f[k + 1] = g[k + 1]
      BY <2>3
    <3>2. \A i \in 1 .. k : f[i] = g[i]
      BY <3>1
    <3>3. \A i \in 1 .. k + 1 : i \in 1 .. k \/ i = k + 1
      OBVIOUS
    <3> QED BY <3>1, <3>2, <3>3
  <2>4. split \in Injection(A, B \X V)
    <3> HIDE DEF A, B, split
    <3> QED BY <2>2, <2>3 DEF Injection, IsInjective
  <2>5. IsFiniteSet(A)
    <3> HIDE DEF A, B, split
    <3> QED BY <2>1, <2>4, FS_Injection
  <2> QED BY <2>5
<1>3. n \in Q
  <2> HIDE DEF Q
  <2> QED BY <1>1, <1>2, CountsUp
<1> QED BY <1>3

LEMMA AxesFacts ==
  /\ AxisCount \in Nat \ {0} /\ 1 \in Axes /\ Axes \subseteq Nat
  /\ \A a \in Axes : /\ Low[a] \in Int /\ High[a] \in Int /\ Low[a] =< High[a]
                     /\ Delta[a] \in Int /\ Operational[a] \in Int
  /\ \A p \in Points : /\ DOMAIN p = Axes
                       /\ \A a \in Axes : p[a] \in Low[a] .. High[a] /\ p[a] \in Int
  /\ \A p \in Points, q \in Points : (\A a \in Axes : p[a] = q[a]) => p = q
  /\ NoPoint \notin Points
<1>1. AxisCount \in Nat \ {0} /\ 1 \in Axes /\ Axes \subseteq Nat
  BY AxesAssumption DEF Axes
<1>2. \A a \in Axes : Low[a] \in Int /\ High[a] \in Int /\ Delta[a] \in Int
  BY AxesAssumption
<1>3. \A p \in Points : DOMAIN p = Axes /\ \A a \in Axes : p[a] \in Low[a] .. High[a]
  BY DEF Points
<1>4. \A p \in Points : \A a \in Axes : p[a] \in Int /\ Low[a] =< High[a]
  BY <1>2, <1>3
<1>5. Operational \in Points
  BY AxesAssumption
<1>6. \A p \in Points, q \in Points : (\A a \in Axes : p[a] = q[a]) => p = q
  BY DEF Points
<1>7. DOMAIN NoPoint = {}
  BY DEF NoPoint
<1> QED BY <1>1, <1>2, <1>3, <1>4, <1>5, <1>6, <1>7

\* The smaller point is one of two: the axes are compared one after another.
LEMMA SmallerOrders ==
  /\ \A p \in Points : ~Smaller(p, p)
  /\ \A p \in Points, q \in Points, r \in Points : Smaller(p, q) /\ Smaller(q, r) => Smaller(p, r)
  /\ \A p \in Points, q \in Points : p = q \/ Smaller(p, q) \/ Smaller(q, p)
<1>1. \A p \in Points : ~Smaller(p, p)
  BY AxesFacts DEF Smaller
<1>2. ASSUME NEW p \in Points, NEW q \in Points, NEW r \in Points, Smaller(p, q), Smaller(q, r)
      PROVE  Smaller(p, r)
  <2>1. PICK a \in Axes : p[a] < q[a] /\ \A b \in 1 .. a - 1 : p[b] = q[b]
    BY <1>2 DEF Smaller
  <2>2. PICK c \in Axes : q[c] < r[c] /\ \A b \in 1 .. c - 1 : q[b] = r[b]
    BY <1>2 DEF Smaller
  <2>3. a \in Nat /\ c \in Nat /\ a \in 1 .. AxisCount /\ c \in 1 .. AxisCount
    BY AxesFacts DEF Axes
  <2>4. p[a] \in Int /\ q[a] \in Int /\ r[a] \in Int /\ p[c] \in Int /\ q[c] \in Int /\ r[c] \in Int
    BY AxesFacts
  <2>5. CASE a = c
    <3>1. p[a] < r[a] /\ \A b \in 1 .. a - 1 : p[b] = r[b]
      BY <2>1, <2>2, <2>4, <2>5
    <3> QED BY <3>1 DEF Smaller
  <2>6. CASE a < c
    <3>1. a \in 1 .. c - 1 /\ \A b \in 1 .. a - 1 : b \in 1 .. c - 1
      BY <2>3, <2>6
    <3>2. p[a] < r[a] /\ \A b \in 1 .. a - 1 : p[b] = r[b]
      BY <2>1, <2>2, <2>4, <3>1
    <3> QED BY <3>2 DEF Smaller
  <2>7. CASE c < a
    <3>1. c \in 1 .. a - 1 /\ \A b \in 1 .. c - 1 : b \in 1 .. a - 1
      BY <2>3, <2>7
    <3>2. p[c] < r[c] /\ \A b \in 1 .. c - 1 : p[b] = r[b]
      BY <2>1, <2>2, <2>4, <3>1
    <3> QED BY <3>2 DEF Smaller
  <2> QED BY <2>3, <2>5, <2>6, <2>7
<1>3. ASSUME NEW p \in Points, NEW q \in Points, p # q PROVE Smaller(p, q) \/ Smaller(q, p)
  <2> DEFINE Differing == {a \in Axes : p[a] # q[a]}
  <2>1. Differing \subseteq Nat /\ Differing # {}
    BY <1>3, AxesFacts
  <2>2. PICK a \in Differing : \A b \in Differing : a =< b
    <3> HIDE DEF Differing
    <3> QED BY <2>1, LeastNatural
  <2>3. a \in Axes /\ a \in 1 .. AxisCount /\ p[a] \in Int /\ q[a] \in Int /\ p[a] # q[a]
    BY <2>2, AxesFacts DEF Axes
  <2>4. ASSUME NEW b \in 1 .. a - 1 PROVE p[b] = q[b]
    <3>1. b \in Axes /\ ~(a =< b)
      BY <2>3, AxesFacts DEF Axes
    <3> QED BY <2>2, <3>1
  <2>5. p[a] < q[a] \/ q[a] < p[a]
    BY <2>3
  <2> QED BY <2>3, <2>4, <2>5 DEF Smaller
<1> QED BY <1>1, <1>2, <1>3

\* The grid lists points, each of them once.
LEMMA GridFacts ==
  /\ Grid \in Seq(Points) /\ Len(Grid) \in Nat
  /\ \A i, j \in 1 .. Len(Grid) : Grid[i] = Grid[j] => i = j
<1> DEFINE R == {t \in GridPoints \X GridPoints : GridBefore(t[1], t[2])}
           V == UNION {Low[a] .. High[a] : a \in Axes}
           n == Cardinality(GridPoints)
<1>1. IsFiniteSet(V)
  <2> DEFINE span == [a \in Axes |-> Low[a] .. High[a]]
             Spans == {span[a] : a \in Axes}
  <2>1. IsFiniteSet(Axes)
    BY AxesFacts, FS_Interval DEF Axes
  <2>2. span \in Surjection(Axes, Spans)
    BY DEF Surjection
  <2>3. IsFiniteSet(Spans)
    <3> HIDE DEF span, Spans
    <3> QED BY <2>1, <2>2, FS_Surjection
  <2>4. \A T \in Spans : IsFiniteSet(T)
    BY AxesFacts, FS_Interval
  <2>5. IsFiniteSet(UNION Spans)
    <3> HIDE DEF span, Spans
    <3> QED BY <2>3, <2>4, FS_UNION
  <2>6. V = UNION Spans
    OBVIOUS
  <2> QED BY <2>5, <2>6
<1>2. IsFiniteSet(GridPoints)
  <2>1. GridPoints \in SUBSET [1 .. AxisCount -> V]
    BY DEF GridPoints, Points, Axes
  <2>2. IsFiniteSet([1 .. AxisCount -> V])
    <3> HIDE DEF V
    <3> QED BY <1>1, AxesFacts, FunctionsFinite
  <2> HIDE DEF V
  <2> QED BY <2>1, <2>2, FS_Subset
<1>3. GridPoints \subseteq Points
  BY DEF GridPoints
<1>4. \A p, q \in GridPoints : <<p, q>> \in R <=> GridBefore(p, q)
  OBVIOUS
<1>5. Orders(R, GridPoints)
  <2> HIDE DEF R
  <2>1. \A p \in GridPoints : <<p, p>> \notin R
    BY <1>3, <1>4, SmallerOrders DEF GridBefore
  <2>2. \A p, q, r \in GridPoints : <<p, q>> \in R /\ <<q, r>> \in R => <<p, r>> \in R
    BY <1>3, <1>4, SmallerOrders DEF GridBefore
  <2>3. \A p, q \in GridPoints : p = q \/ <<p, q>> \in R \/ <<q, p>> \in R
    BY <1>3, <1>4, SmallerOrders DEF GridBefore
  <2> QED BY <2>1, <2>2, <2>3 DEF Orders
<1>6. n \in Nat
  BY <1>2, FS_CardinalityType
<1>7. \A p \in GridPoints : PlaceIn(R, GridPoints, p) = Cardinality({q \in GridPoints : GridBefore(q, p)})
  <2> SUFFICES ASSUME NEW p \in GridPoints
               PROVE  Preceding(R, GridPoints, p) = {q \in GridPoints : GridBefore(q, p)}
    BY DEF PlaceIn
  <2> QED BY DEF Preceding
<1>8. Grid = [i \in 1 .. n |-> CHOOSE p \in GridPoints : Cardinality({q \in GridPoints : GridBefore(q, p)}) = i - 1]
  BY DEF Grid
<1> HIDE DEF R, n
<1>9. ASSUME NEW i \in 1 .. n PROVE Grid[i] \in GridPoints /\ PlaceIn(R, GridPoints, Grid[i]) = i - 1
  <2>1. i - 1 \in 0 .. n - 1
    BY <1>6
  <2>2. \E p \in GridPoints : PlaceIn(R, GridPoints, p) = i - 1
    BY <2>1, <1>2, <1>5, EveryPlaceTaken DEF n
  <2>3. \E p \in GridPoints : Cardinality({q \in GridPoints : GridBefore(q, p)}) = i - 1
    BY <2>2, <1>7
  <2>4. Grid[i] = CHOOSE p \in GridPoints : Cardinality({q \in GridPoints : GridBefore(q, p)}) = i - 1
    BY <1>8
  <2>5. Grid[i] \in GridPoints /\ Cardinality({q \in GridPoints : GridBefore(q, Grid[i])}) = i - 1
    BY <2>3, <2>4
  <2> QED BY <2>5, <1>7
<1>10. Grid \in [1 .. n -> Points]
  BY <1>3, <1>8, <1>9
<1>11. Grid \in Seq(Points) /\ Len(Grid) = n
  BY <1>6, <1>10
<1>12. ASSUME NEW i \in 1 .. n, NEW j \in 1 .. n, Grid[i] = Grid[j] PROVE i = j
  BY <1>6, <1>9, <1>12
<1> QED BY <1>6, <1>11, <1>12

\* A batch is the beginning of the grid, within the budget.
LEMMA BatchFacts ==
  ASSUME wanted.evaluations \in Int, wanted.evaluations >= 1
  PROVE  /\ Batch \in Seq(Points) /\ Len(Batch) =< wanted.evaluations /\ Len(Batch) =< Len(Grid)
         /\ \A i \in 1 .. Len(Batch) : Batch[i] = Grid[i]
         /\ \A i, j \in 1 .. Len(Batch) : Batch[i] = Batch[j] => i = j
<1>1. PICK n : n = IF Len(Grid) < wanted.evaluations THEN Len(Grid) ELSE wanted.evaluations
  OBVIOUS
<1>2. n \in Nat /\ n =< wanted.evaluations /\ n =< Len(Grid)
  BY <1>1, GridFacts
<1>3. Batch = SubSeq(Grid, 1, n)
  BY <1>1 DEF Batch
<1>4. \A i \in 1 .. n : Grid[i] \in Points /\ i \in 1 .. Len(Grid)
  <2>1. \A i \in 1 .. Len(Grid) : Grid[i] \in Points
    BY GridFacts
  <2> QED BY <1>2, <2>1, GridFacts
<1>5. /\ Batch \in Seq(Points)
      /\ Len(Batch) = IF 1 =< n THEN n - 1 + 1 ELSE 0
      /\ \A i \in 1 .. n - 1 + 1 : Batch[i] = Grid[1 + i - 1]
  BY <1>2, <1>3, <1>4, SubSeqProperties, 1 \in Int, n \in Int
<1>6. Len(Batch) = n /\ \A i \in 1 .. n : Batch[i] = Grid[i]
  BY <1>2, <1>5
<1> QED BY <1>2, <1>4, <1>5, <1>6, GridFacts

\* The rows a gate adopts are finitely many points, and one of them is best.
LEMMA AnswersTyped ==
  ASSUME market \in DOMAIN Landscapes, NEW p \in Points
  PROVE  Answer(p).ratio \in Int /\ Answer(p).adopted \in BOOLEAN /\ Answer(p).finite \in BOOLEAN
<1>1. Answer(p) \in Outcomes
  BY LandscapesAssumption DEF Answer
<1> QED BY <1>1 DEF Outcomes

LEMMA BestRowFacts ==
  ASSUME market \in DOMAIN Landscapes, NEW s \in Seq(Points), EligibleOf(s) # {}
  PROVE  /\ BestOf(EligibleOf(s)) \in EligibleOf(s)
         /\ \A q \in EligibleOf(s) \ {BestOf(EligibleOf(s))} : Better(BestOf(EligibleOf(s)), q)
<1>1. PICK E : E = EligibleOf(s)
  OBVIOUS
<1>2. E \subseteq ToSet(s) /\ ToSet(s) \subseteq Points
  BY <1>1 DEF EligibleOf, ToSet
<1>3. IsFiniteSet(ToSet(s))
  <2>1. Len(s) \in Nat /\ DOMAIN s = 1 .. Len(s)
    OBVIOUS
  <2>2. s \in Surjection(1 .. Len(s), ToSet(s))
    BY <2>1 DEF Surjection, ToSet
  <2>3. IsFiniteSet(1 .. Len(s))
    BY <2>1, FS_Interval
  <2> QED BY <2>2, <2>3, FS_Surjection
<1>4. IsFiniteSet(E) /\ E # {}
  BY <1>1, <1>2, <1>3, FS_Subset
<1> DEFINE R == {t \in E \X E : Better(t[1], t[2])}
<1>5. \A p, q \in E : <<p, q>> \in R <=> Better(p, q)
  OBVIOUS
<1>6. Orders(R, E)
  <2> HIDE DEF R
  <2>1. \A p \in E : p \in Points /\ Answer(p).ratio \in Int
    BY <1>2, AnswersTyped
  <2>2. \A p \in E : <<p, p>> \notin R
    BY <2>1, <1>5, SmallerOrders DEF Better
  <2>3. \A p, q, r \in E : <<p, q>> \in R /\ <<q, r>> \in R => <<p, r>> \in R
    BY <2>1, <1>5, SmallerOrders DEF Better
  <2>4. ASSUME NEW p \in E, NEW q \in E, p # q PROVE <<p, q>> \in R \/ <<q, p>> \in R
    <3>1. Smaller(p, q) \/ Smaller(q, p)
      BY <2>1, <2>4, SmallerOrders
    <3>2. Answer(p).ratio \in Int /\ Answer(q).ratio \in Int
      BY <2>1
    <3>3. Better(p, q) \/ Better(q, p)
      BY <3>1, <3>2 DEF Better
    <3> QED BY <3>3, <1>5
  <2> QED BY <2>2, <2>3, <2>4 DEF Orders
<1>7. \E p \in E : \A q \in E \ {p} : <<p, q>> \in R
  <2> HIDE DEF R
  <2> QED BY <1>4, <1>6, FirstOfOrder
<1>8. \E p \in E : \A q \in E \ {p} : Better(p, q)
  BY <1>5, <1>7
<1> HIDE DEF R
<1>9. BestOf(E) \in E /\ \A q \in E \ {BestOf(E)} : Better(BestOf(E), q)
  BY <1>8, Zenon DEF BestOf
<1> QED BY <1>1, <1>9

\* The elements of a sequence that grew by one, or lost its first.
LEMMA GrownSet ==
  ASSUME NEW S, NEW s \in Seq(S), NEW x \in S
  PROVE  ToSet(Append(s, x)) = ToSet(s) \cup {x}
<1>1. /\ Append(s, x) \in Seq(S) /\ Len(Append(s, x)) = Len(s) + 1 /\ Len(s) \in Nat
      /\ \A i \in 1 .. Len(s) : Append(s, x)[i] = s[i]
      /\ Append(s, x)[Len(s) + 1] = x
  BY AppendProperties
<1>2. DOMAIN s = 1 .. Len(s) /\ DOMAIN Append(s, x) = 1 .. Len(s) + 1
  BY <1>1
<1>3. \A i \in 1 .. Len(s) + 1 : i \in 1 .. Len(s) \/ i = Len(s) + 1
  BY <1>1
<1>4. \A i \in 1 .. Len(s) : i \in 1 .. Len(s) + 1
  BY <1>1
<1>5. Len(s) + 1 \in 1 .. Len(s) + 1
  BY <1>1
<1>6. PICK t : t = Append(s, x)
  OBVIOUS
<1>7. ToSet(t) \subseteq ToSet(s) \cup {x}
  BY <1>1, <1>2, <1>3, <1>6 DEF ToSet
<1>8. ToSet(s) \subseteq ToSet(t) /\ x \in ToSet(t)
  BY <1>1, <1>2, <1>4, <1>5, <1>6 DEF ToSet
<1> QED BY <1>6, <1>7, <1>8

LEMMA HeadAndTail ==
  ASSUME NEW S, NEW s \in Seq(S), s # <<>>, \A i, j \in 1 .. Len(s) : s[i] = s[j] => i = j
  PROVE  /\ Head(s) \in S /\ Tail(s) \in Seq(S)
         /\ ToSet(s) = ToSet(Tail(s)) \cup {Head(s)} /\ Head(s) \notin ToSet(Tail(s))
         /\ \A i, j \in 1 .. Len(Tail(s)) : Tail(s)[i] = Tail(s)[j] => i = j
<1>1. /\ Head(s) \in S /\ Tail(s) \in Seq(S) /\ Len(Tail(s)) = Len(s) - 1
      /\ \A i \in 1 .. Len(Tail(s)) : Tail(s)[i] = s[i + 1]
  BY HeadTailProperties
<1>2. Len(s) \in Nat /\ Len(s) # 0 /\ DOMAIN s = 1 .. Len(s) /\ Head(s) = s[1]
  OBVIOUS
<1>3. PICK t : t = Tail(s)
  OBVIOUS
<1>4. DOMAIN t = 1 .. Len(s) - 1 /\ \A i \in 1 .. Len(s) - 1 : t[i] = s[i + 1]
  BY <1>1, <1>3
<1>5. /\ \A i \in 1 .. Len(s) - 1 : i + 1 \in 1 .. Len(s) /\ i + 1 # 1
      /\ \A i \in 1 .. Len(s) : i = 1 \/ (i - 1 \in 1 .. Len(s) - 1 /\ (i - 1) + 1 = i)
      /\ 1 \in 1 .. Len(s)
  BY <1>2
<1>6. ToSet(s) \subseteq ToSet(t) \cup {Head(s)}
  <2> SUFFICES ASSUME NEW i \in 1 .. Len(s) PROVE s[i] \in ToSet(t) \cup {Head(s)}
    BY <1>2 DEF ToSet
  <2>1. CASE i = 1
    BY <1>2, <2>1
  <2>2. CASE i # 1
    <3>1. PICK k \in 1 .. Len(s) - 1 : k + 1 = i
      BY <1>5, <2>2
    <3>2. s[i] = t[k] /\ k \in DOMAIN t
      BY <1>4, <3>1
    <3> QED BY <3>2 DEF ToSet
  <2> QED BY <2>1, <2>2
<1>7. ToSet(t) \cup {Head(s)} \subseteq ToSet(s)
  BY <1>2, <1>4, <1>5 DEF ToSet
<1>8. Head(s) \notin ToSet(t)
  BY <1>2, <1>4, <1>5 DEF ToSet
<1>9. ASSUME NEW i \in 1 .. Len(t), NEW j \in 1 .. Len(t), t[i] = t[j] PROVE i = j
  <2>1. i \in 1 .. Len(s) - 1 /\ j \in 1 .. Len(s) - 1
    BY <1>1, <1>3
  <2>2. s[i + 1] = s[j + 1]
    BY <1>4, <1>9, <2>1
  <2>3. i + 1 = j + 1
    BY <1>5, <2>1, <2>2
  <2> QED BY <1>2, <2>1, <2>3
<1> QED BY <1>1, <1>3, <1>6, <1>7, <1>8, <1>9

\* A move along an axis stays among the points; the two coincide only where
\* neither leaves the spot.
LEMMA MovedFacts ==
  ASSUME spot \in Points, halvings \in 0 .. 2, NEW a \in Axes
  PROVE  /\ \A d \in {-1, 1} : Moved(a, d) \in Points
         /\ Moved(a, 1) = Moved(a, -1) => Moved(a, 1) = spot
<1>1. PICK part \in Nat \ {0} : part = (IF halvings = 0 THEN 1 ELSE 2 * halvings)
  OBVIOUS
<1>2. StepOf(a) \in Int
  BY <1>1, AxesFacts DEF StepOf
<1>3. \A d \in {-1, 1} : spot[a] + d * StepOf(a) \in Int
  BY <1>2, AxesFacts
<1>4. \A v \in Int : Clip(a, v) \in Low[a] .. High[a]
  BY AxesFacts DEF Clip
<1>5. \A d \in {-1, 1} : Moved(a, d) \in Points
  <2> SUFFICES ASSUME NEW d \in {-1, 1} PROVE Moved(a, d) \in Points
    OBVIOUS
  <2>1. PICK v : v = Clip(a, spot[a] + d * StepOf(a))
    OBVIOUS
  <2>2. v \in Low[a] .. High[a]
    BY <1>3, <1>4, <2>1
  <2>3. Moved(a, d) = [spot EXCEPT ![a] = v]
    BY <2>1 DEF Moved
  <2> QED BY <2>2, <2>3, AxesFacts DEF Points
<1>6. ASSUME Moved(a, 1) = Moved(a, -1) PROVE Moved(a, 1) = spot
  <2>1. DOMAIN spot = Axes /\ spot[a] \in Low[a] .. High[a] /\ spot[a] \in Int
    BY AxesFacts
  <2>2. PICK s \in Int : s = StepOf(a)
    BY <1>2
  <2>3. Moved(a, 1)[a] = Clip(a, spot[a] + s) /\ Moved(a, -1)[a] = Clip(a, spot[a] - s)
    <3>1. spot[a] + 1 * s = spot[a] + s /\ spot[a] + (-1) * s = spot[a] - s
      BY <2>1, <2>2
    <3> QED BY <2>1, <2>2, <3>1 DEF Moved
  <2>4. Clip(a, spot[a] + s) = Clip(a, spot[a] - s)
    BY <1>6, <2>3
  <2>5. Clip(a, spot[a] + s) = spot[a]
    BY <2>1, <2>2, <2>4, AxesFacts DEF Clip
  <2>6. \A b \in Axes : Moved(a, 1)[b] = spot[b]
    BY <2>1, <2>3, <2>5 DEF Moved
  <2> QED BY <1>5, <2>6, AxesFacts
<1> QED BY <1>5, <1>6

\* The neighbours still to evaluate are new, and with the spot and the tried
\* points they are all there are.
Around(a) == \A d \in {-1, 1} : Moved(a, d) = spot \/ Moved(a, d) \in ToSet(tried)
Different(s) == \A i, j \in 1 .. Len(s) : s[i] = s[j] => i = j

LEMMA NeighboursFacts ==
  ASSUME spot \in Points, halvings \in 0 .. 2, NEW a \in Axes
  PROVE  /\ Neighbours(a) \in Seq(Points) /\ Different(Neighbours(a))
         /\ ToSet(Neighbours(a)) \cap ToSet(tried) = {}
         /\ \A d \in {-1, 1} : Moved(a, d) = spot \/ Moved(a, d) \in ToSet(tried) \cup ToSet(Neighbours(a))
<1>1. PICK up \in Points : up = Moved(a, 1)
  BY MovedFacts
<1>2. PICK down \in Points : down = Moved(a, -1)
  BY MovedFacts
<1>3. up = down => up = spot
  BY <1>1, <1>2, MovedFacts
<1>4. Neighbours(a) = Fresh(up) \o Fresh(down)
  BY <1>1, <1>2 DEF Neighbours
<1>5. \A d \in {-1, 1} : Moved(a, d) \in {up, down}
  BY <1>1, <1>2
<1> DEFINE New(p) == p # spot /\ p \notin ToSet(tried)
<1>6. CASE New(up) /\ New(down)
  <2>1. Neighbours(a) = <<up>> \o <<down>>
    BY <1>4, <1>6 DEF Fresh
  <2>2. <<up>> \in Seq(Points) /\ <<down>> \in Seq(Points)
    OBVIOUS
  <2>3. PICK n : n = <<up>> \o <<down>>
    OBVIOUS
  <2>4. n \in Seq(Points) /\ Len(n) = 2 /\ n[1] = up /\ n[2] = down
    BY <2>2, <2>3, ConcatProperties
  <2>5. ToSet(n) = {up, down} /\ Different(n)
    <3>1. DOMAIN n = 1 .. 2
      BY <2>4
    <3> QED BY <1>3, <1>6, <2>4, <3>1 DEF ToSet, Different
  <2> QED BY <1>5, <1>6, <2>1, <2>3, <2>4, <2>5
<1>7. CASE New(up) /\ ~New(down)
  <2>1. Neighbours(a) = <<up>> \o <<>>
    BY <1>4, <1>7 DEF Fresh
  <2>2. Neighbours(a) = <<up>>
    BY <2>1
  <2>3. ToSet(<<up>>) = {up} /\ <<up>> \in Seq(Points) /\ Different(<<up>>)
    BY DEF ToSet, Different
  <2> QED BY <1>5, <1>7, <2>2, <2>3
<1>8. CASE ~New(up) /\ New(down)
  <2>1. Neighbours(a) = <<>> \o <<down>>
    BY <1>4, <1>8 DEF Fresh
  <2>2. Neighbours(a) = <<down>>
    BY <2>1
  <2>3. ToSet(<<down>>) = {down} /\ <<down>> \in Seq(Points) /\ Different(<<down>>)
    BY DEF ToSet, Different
  <2> QED BY <1>5, <1>8, <2>2, <2>3
<1>9. CASE ~New(up) /\ ~New(down)
  <2>1. Neighbours(a) = <<>> \o <<>>
    BY <1>4, <1>9 DEF Fresh
  <2>2. Neighbours(a) = <<>>
    BY <2>1
  <2>3. ToSet(<<>>) = {} /\ <<>> \in Seq(Points) /\ Different(<<>>)
    BY DEF ToSet, Different
  <2> QED BY <1>5, <1>9, <2>2, <2>3
<1> QED BY <1>6, <1>7, <1>8, <1>9

HpTyped ==
  /\ wanted.evaluations \in Int /\ market \in DOMAIN Landscapes
  /\ screening \in {"asked", "grid", "climb", "done", "refused", "failed"}
  /\ tried \in Seq(Points) /\ spot \in Points /\ lead \in Points
  /\ halvings \in 0 .. 2 /\ axis \in 1 .. AxisCount + 1
  /\ opened \in BOOLEAN /\ improved \in BOOLEAN
  /\ untried \in Seq(Points)
  /\ winner \in Points \cup {NoPoint}

\* Until the grid has been read there is no row and no axis is open.
Waiting ==
  /\ screening \in {"grid", "climb", "done"} => wanted.evaluations >= 1
  /\ screening \in {"asked", "grid"} => tried = <<>> /\ ~opened /\ axis = 1 /\ untried = <<>>
  /\ screening # "done" => winner = NoPoint

\* The lead is as high as any adopted row, and the spot is the lead between axes.
Highest ==
  /\ spot \in EligibleOf(tried) /\ lead \in EligibleOf(tried)
  /\ \A p \in EligibleOf(tried) : Answer(p).ratio =< Answer(lead).ratio
  /\ ~opened => lead = spot

\* What is still to evaluate is new; the neighbours of the axes left behind
\* have been tried unless the round has moved or the budget is spent.
Surveyed ==
  /\ Different(untried) /\ ToSet(untried) \cap ToSet(tried) = {}
  /\ opened => /\ axis \in Axes
               /\ \A d \in {-1, 1} : Moved(axis, d) = spot \/ Moved(axis, d) \in ToSet(tried) \cup ToSet(untried)
  /\ ~improved /\ BudgetLeft => \A a \in Axes : a < axis => Around(a)

Climbing == screening = "climb" => Highest /\ Surveyed
Ended == screening = "done" =>
  /\ winner = NoPoint <=> EligibleOf(tried) = {}
  /\ winner # NoPoint =>
       /\ winner \in EligibleOf(tried)
       /\ \A p \in EligibleOf(tried) \ {winner} : Better(winner, p)
       /\ Highest /\ ~opened
       /\ ~improved /\ BudgetLeft => \A a \in Axes : Around(a)

HpInv == HpTyped /\ Waiting /\ RowsRegistered /\ Climbing /\ Ended

LEMMA NothingTried == EligibleOf(<<>>) = {} /\ ToSet(<<>>) = {}
  BY DEF EligibleOf, ToSet

LEMMA HpInitial == HpInit => HpInv
<1> SUFFICES ASSUME HpInit PROVE HpInv
  OBVIOUS
<1>1. Operational \in Points
  BY AxesAssumption
<1>2. HpTyped
  <2>1. wanted.evaluations \in Int
    BY RequestsAssumption DEF HpInit
  <2>2. 1 \in 1 .. AxisCount + 1
    BY AxesFacts
  <2>3. <<>> \in Seq(Points) /\ 0 \in 0 .. 2
    OBVIOUS
  <2>4. tried = <<>> /\ untried = <<>> /\ halvings = 0 /\ axis = 1 /\ screening = "asked" /\ winner = NoPoint
    BY DEF HpInit
  <2>5. market \in DOMAIN Landscapes /\ spot = Operational /\ lead = Operational
    BY DEF HpInit
  <2>6. opened = FALSE /\ improved = FALSE
    BY DEF HpInit
  <2> QED BY <1>1, <2>1, <2>2, <2>3, <2>4, <2>5, <2>6 DEF HpTyped
<1>3. Waiting
  BY DEF HpInit, Waiting
<1>4. RowsRegistered
  BY <1>2 DEF HpInit, RowsRegistered, HpTyped
<1> QED BY <1>2, <1>3, <1>4 DEF HpInit, HpInv, Climbing, Ended

LEMMA BuildStep == ASSUME HpInv, BuildRunner PROVE HpInv'
<1> USE DEF HpInv, BuildRunner
<1>1. screening = "asked" /\ tried = <<>> /\ ~opened /\ axis = 1 /\ winner = NoPoint
  BY DEF Waiting
<1>2. UNCHANGED <<wanted, market, tried, climbVars, winner>> /\ screening' \in {"refused", "failed", "grid"}
  OBVIOUS
<1>3. HpTyped'
  BY <1>2 DEF HpTyped, climbVars
<1>4. Waiting'
  <2>1. screening' = "grid" => wanted.evaluations >= 1
    BY <1>2 DEF Allowed
  <2> QED BY <1>1, <1>2, <2>1 DEF Waiting, climbVars
<1>5. RowsRegistered'
  BY <1>1, <1>2 DEF RowsRegistered
<1> QED BY <1>2, <1>3, <1>4, <1>5 DEF Climbing, Ended

LEMMA EvaluationStep == ASSUME HpInv, NEW i \in 1 .. Len(Grid), EvaluationEnds(i) PROVE HpInv'
<1> USE DEF HpInv, EvaluationEnds
<1>1. screening = "grid" /\ tried = <<>> /\ ~opened /\ axis = 1 /\ winner = NoPoint /\ wanted.evaluations >= 1
  BY DEF Waiting
<1>2. UNCHANGED <<wanted, market, tried, climbVars, winner>> /\ screening' \in {"failed", "grid"}
  BY <1>1
<1>3. HpTyped'
  BY <1>2 DEF HpTyped, climbVars
<1>4. Waiting'
  BY <1>1, <1>2 DEF Waiting, climbVars
<1>5. RowsRegistered'
  BY <1>1, <1>2 DEF RowsRegistered
<1> QED BY <1>2, <1>3, <1>4, <1>5 DEF Climbing, Ended

LEMMA EndGridStep == ASSUME HpInv, EndGrid PROVE HpInv'
<1> USE DEF HpInv
<1>1. /\ screening = "grid" /\ tried = <<>> /\ ~opened /\ axis = 1 /\ winner = NoPoint
      /\ wanted.evaluations >= 1
  BY DEF Waiting, EndGrid
<1>2. UNCHANGED <<wanted, market, halvings, axis, opened, untried, improved, winner>> /\ tried' = Batch
  BY DEF EndGrid, RowsOf
<1>3. wanted.evaluations \in Int /\ market \in DOMAIN Landscapes
  BY DEF HpTyped
<1>4. PICK batch \in Seq(Points) : batch = Batch
  BY <1>1, <1>3, BatchFacts
<1>5. /\ Len(batch) \in Nat /\ Len(batch) =< wanted.evaluations
      /\ \A i \in 1 .. Len(batch) : batch[i] = Grid[i] /\ batch[i] \in Points
      /\ \A i, j \in 1 .. Len(batch) : batch[i] = batch[j] => i = j
  BY <1>1, <1>3, <1>4, BatchFacts
<1>6. EligibleOf(tried') = EligibleOf(batch) /\ EligibleOf(tried)' = EligibleOf(batch)
  BY <1>2, <1>4 DEF EligibleOf, Eligible, Answer
<1>7. RowsRegistered'
  <2>1. Batch' = batch
    BY <1>2, <1>4 DEF Batch
  <2> QED BY <1>1, <1>2, <1>3, <1>4, <1>5, <2>1 DEF RowsRegistered
<1>8. CASE EligibleOf(batch) = {}
  <2>1. screening' = "done" /\ UNCHANGED <<spot, lead>>
    BY <1>6, <1>8 DEF EndGrid
  <2>2. HpTyped'
    BY <1>2, <1>4, <2>1 DEF HpTyped
  <2>3. Waiting'
    BY <1>1, <1>2, <2>1 DEF Waiting
  <2>4. Ended'
    BY <1>1, <1>2, <1>6, <1>8 DEF Ended
  <2> QED BY <1>7, <2>1, <2>2, <2>3, <2>4 DEF Climbing
<1>9. CASE EligibleOf(batch) # {}
  <2>1. PICK best : best = BestOf(EligibleOf(batch))
    OBVIOUS
  <2>2. best \in EligibleOf(batch) /\ \A q \in EligibleOf(batch) \ {best} : Better(best, q)
    BY <1>3, <1>9, <2>1, BestRowFacts
  <2>3. screening' = "climb" /\ spot' = best /\ lead' = best
    BY <1>6, <1>9, <2>1 DEF EndGrid
  <2>4. EligibleOf(batch) \subseteq Points
    BY DEF EligibleOf, ToSet
  <2>5. HpTyped'
    BY <1>2, <1>4, <2>2, <2>3, <2>4 DEF HpTyped
  <2>6. Waiting'
    BY <1>1, <1>2, <2>3 DEF Waiting
  <2>7. Highest'
    <3>1. \A p \in EligibleOf(batch) : Answer(p).ratio \in Int /\ Answer(p).ratio =< Answer(best).ratio
      <4>1. \A p \in EligibleOf(batch) : Answer(p).ratio \in Int
        BY <1>3, <2>4, AnswersTyped
      <4> QED BY <2>2, <4>1 DEF Better
    <3>2. \A p : Answer(p)' = Answer(p)
      BY <1>2 DEF Answer
    <3> QED BY <1>6, <2>2, <2>3, <3>1, <3>2 DEF Highest
  <2>8. Surveyed'
    <3>1. ~opened' /\ axis' = 1 /\ untried' = <<>>
      BY <1>1, <1>2 DEF Waiting
    <3>2. Different(<<>>) /\ ToSet(<<>>) = {}
      BY NothingTried DEF Different
    <3>3. \A a \in Axes : ~(a < 1)
      BY DEF Axes
    <3> QED BY <3>1, <3>2, <3>3 DEF Surveyed
  <2> QED BY <1>7, <2>3, <2>5, <2>6, <2>7, <2>8 DEF Climbing, Ended
<1> QED BY <1>8, <1>9

\* A step of the climb leaves the answers and the budget alone.
ClimbStep ==
  /\ screening = "climb" /\ HpTyped /\ Waiting /\ RowsRegistered /\ Highest /\ Surveyed
  /\ UNCHANGED <<wanted, market>>

LEMMA ClimbFacts ==
  ASSUME HpInv, screening = "climb", UNCHANGED <<wanted, market>>
  PROVE  /\ ClimbStep /\ wanted.evaluations \in Int /\ wanted.evaluations >= 1 /\ winner = NoPoint
         /\ \A p : Answer(p)' = Answer(p) /\ (Eligible(p)' <=> Eligible(p))
         /\ BudgetLeft <=> Len(tried) < wanted.evaluations
         /\ Batch' = Batch
<1>1. ClimbStep
  BY DEF HpInv, ClimbStep, Climbing
<1>2. wanted.evaluations \in Int /\ wanted.evaluations >= 1 /\ winner = NoPoint
  BY DEF HpInv, HpTyped, Waiting
<1>3. \A p : Answer(p)' = Answer(p) /\ (Eligible(p)' <=> Eligible(p))
  BY DEF Answer, Eligible
<1>4. Batch' = Batch
  BY DEF Batch
<1> QED BY <1>1, <1>2, <1>3, <1>4 DEF BudgetLeft

LEMMA OpenStep == ASSUME HpInv, OpenAxis PROVE HpInv'
<1>1. /\ screening = "climb" /\ screening' = screening /\ ~opened /\ axis \in Axes
      /\ UNCHANGED <<wanted, market, tried, spot, halvings, axis, improved, winner>>
      /\ opened' = TRUE /\ untried' = Neighbours(axis) /\ lead' = spot
  BY DEF OpenAxis
<1>2. ClimbStep /\ winner = NoPoint /\ wanted.evaluations >= 1 /\ \A p : Answer(p)' = Answer(p)
  BY <1>1, ClimbFacts
<1>3. Neighbours(axis) \in Seq(Points) /\ spot \in Points /\ halvings \in 0 .. 2
  BY <1>1, <1>2, NeighboursFacts DEF ClimbStep, HpTyped
<1>4. HpTyped'
  BY <1>1, <1>2, <1>3 DEF ClimbStep, HpTyped
<1>5. Waiting'
  BY <1>1, <1>2 DEF Waiting
<1>6. RowsRegistered'
  BY <1>1, <1>2 DEF ClimbStep, RowsRegistered, Batch
<1>7. Highest'
  <2>1. EligibleOf(tried)' = EligibleOf(tried)
    BY <1>1 DEF EligibleOf, Eligible, Answer
  <2> QED BY <1>1, <1>2, <2>1 DEF ClimbStep, Highest
<1>8. Surveyed'
  <2>1. \A a, d : Moved(a, d)' = Moved(a, d)
    BY <1>1 DEF Moved, StepOf
  <2>2. PICK n : n = Neighbours(axis)
    OBVIOUS
  <2>3. /\ Different(n) /\ ToSet(n) \cap ToSet(tried) = {}
        /\ \A d \in {-1, 1} : Moved(axis, d) = spot \/ Moved(axis, d) \in ToSet(tried) \cup ToSet(n)
    BY <1>1, <1>3, <2>2, NeighboursFacts
  <2>4. untried' = n /\ tried' = tried /\ spot' = spot /\ axis' = axis /\ improved' = improved
    BY <1>1, <2>2
  <2>5. BudgetLeft' <=> BudgetLeft
    BY <1>1 DEF BudgetLeft
  <2>6. \A a : Around(a)' <=> Around(a)
    BY <2>1, <2>4 DEF Around
  <2>7. Different(untried)' /\ ToSet(untried)' \cap ToSet(tried)' = {}
    BY <2>3, <2>4 DEF Different, ToSet
  <2>8. \A d \in {-1, 1} : Moved(axis, d)' = spot' \/ Moved(axis, d)' \in ToSet(tried)' \cup ToSet(untried)'
    BY <1>1, <2>3, <2>4 DEF Moved, StepOf, ToSet
  <2>9. ~improved' /\ BudgetLeft' => \A a \in Axes : a < axis' => Around(a)'
    BY <1>2, <2>4, <2>5, <2>6 DEF ClimbStep, Surveyed
  <2> QED BY <1>1, <2>7, <2>8, <2>9 DEF Surveyed
<1> QED BY <1>1, <1>4, <1>5, <1>6, <1>7, <1>8 DEF HpInv, Climbing, Ended

LEMMA TryStep == ASSUME HpInv, TryNeighbour PROVE HpInv'
<1>1. /\ screening = "climb" /\ opened /\ untried # <<>> /\ BudgetLeft
      /\ UNCHANGED <<wanted, market, arrived, spot, halvings, axis, opened, improved, winner>>
  BY DEF TryNeighbour
<1>2. /\ ClimbStep /\ winner = NoPoint /\ wanted.evaluations \in Int /\ wanted.evaluations >= 1
      /\ \A p : Answer(p)' = Answer(p) /\ (Eligible(p)' <=> Eligible(p))
      /\ Len(tried) < wanted.evaluations /\ Batch' = Batch
  BY <1>1, ClimbFacts
<1>3. tried \in Seq(Points) /\ untried \in Seq(Points) /\ market \in DOMAIN Landscapes /\ Len(tried) \in Nat
  BY <1>2 DEF ClimbStep, HpTyped
<1>4. \A i, j \in 1 .. Len(untried) : untried[i] = untried[j] => i = j
  BY <1>2 DEF ClimbStep, Surveyed, Different
<1>5. PICK p : p = Head(untried)
  OBVIOUS
<1>6. PICK rest : rest = Tail(untried)
  OBVIOUS
<1>7. /\ p \in Points /\ rest \in Seq(Points) /\ ToSet(untried) = ToSet(rest) \cup {p}
      /\ p \notin ToSet(rest) /\ \A i, j \in 1 .. Len(rest) : rest[i] = rest[j] => i = j
  BY <1>1, <1>3, <1>4, <1>5, <1>6, HeadAndTail
<1>8. p \notin ToSet(tried) /\ ToSet(rest) \cap ToSet(tried) = {}
  BY <1>2, <1>7 DEF ClimbStep, Surveyed
<1>9. CASE screening' = "failed" /\ UNCHANGED <<tried, untried, lead>>
  <2>1. HpTyped'
    BY <1>1, <1>2, <1>9 DEF ClimbStep, HpTyped
  <2>2. Waiting'
    BY <1>1, <1>2, <1>9 DEF Waiting
  <2>3. RowsRegistered'
    BY <1>1, <1>2, <1>9 DEF ClimbStep, RowsRegistered
  <2> QED BY <1>9, <2>1, <2>2, <2>3 DEF HpInv, Climbing, Ended
<1>10. CASE /\ tried' = Append(tried, p) /\ untried' = rest /\ UNCHANGED screening
            /\ lead' = IF Eligible(p) /\ Answer(p).ratio > Answer(lead).ratio THEN p ELSE lead
  <2>1. PICK grown : grown = Append(tried, p)
    OBVIOUS
  <2>2. /\ grown \in Seq(Points) /\ Len(grown) = Len(tried) + 1
        /\ \A i \in 1 .. Len(tried) : grown[i] = tried[i]
        /\ grown[Len(tried) + 1] = p
    BY <1>3, <1>7, <2>1, AppendProperties
  <2>3. ToSet(grown) = ToSet(tried) \cup {p}
    BY <1>3, <1>7, <2>1, GrownSet
  <2>4. tried' = grown /\ untried' = rest
    BY <1>10, <2>1
  <2>5. lead \in EligibleOf(tried) /\ lead \in Points /\ EligibleOf(tried) \subseteq Points
    BY <1>2 DEF ClimbStep, Highest, HpTyped, EligibleOf, ToSet
  <2>6. EligibleOf(tried)' = EligibleOf(tried) \cup (IF Eligible(p) THEN {p} ELSE {})
    <3>1. EligibleOf(tried)' = {x \in ToSet(grown) : Eligible(x)}
      BY <1>2, <2>4 DEF EligibleOf, ToSet
    <3> QED BY <2>3, <3>1 DEF EligibleOf
  <2>7. \A q \in Points : Answer(q).ratio \in Int
    BY <1>3, AnswersTyped
  <2>8. HpTyped'
    BY <1>1, <1>2, <1>7, <1>10, <2>2, <2>4, <2>5 DEF ClimbStep, HpTyped
  <2>9. Waiting'
    BY <1>1, <1>2, <1>10 DEF Waiting
  <2>10. RowsRegistered'
    <3>1. /\ \A i, j \in 1 .. Len(tried) : tried[i] = tried[j] => i = j
          /\ \A i \in 1 .. Len(tried) : tried[i] \in Points /\ tried[i] # p
          /\ \A i \in 1 .. Len(Batch) : i =< Len(tried) /\ tried[i] = Grid[i]
      BY <1>1, <1>2, <1>3, <1>8 DEF ClimbStep, RowsRegistered, ToSet
    <3>2. \A i \in 1 .. Len(tried) + 1 : i \in 1 .. Len(tried) \/ i = Len(tried) + 1
      BY <1>3
    <3>3. \A i, j \in 1 .. Len(grown) : grown[i] = grown[j] => i = j
      BY <2>2, <3>1, <3>2
    <3>4. \A i \in 1 .. Len(grown) : grown[i] \in Points
      BY <2>2
    <3>5. Len(grown) =< wanted.evaluations
      BY <1>2, <1>3, <2>2
    <3>6. \A i \in 1 .. Len(Batch) : i =< Len(grown) /\ grown[i] = Grid[i]
      <4> SUFFICES ASSUME NEW i \in 1 .. Len(Batch) PROVE i =< Len(grown) /\ grown[i] = Grid[i]
        OBVIOUS
      <4>1. i =< Len(tried) /\ tried[i] = Grid[i] /\ i \in Nat /\ i >= 1
        BY <3>1
      <4>2. i \in 1 .. Len(tried)
        BY <1>3, <4>1
      <4> QED BY <1>3, <2>2, <4>1, <4>2
    <3> QED BY <1>1, <1>2, <2>4, <3>3, <3>4, <3>5, <3>6 DEF RowsRegistered
  <2>11. Highest'
    <3>1. /\ spot \in EligibleOf(tried) /\ \A q \in EligibleOf(tried) : Answer(q).ratio =< Answer(lead).ratio
      BY <1>2 DEF ClimbStep, Highest
    <3>2. CASE Eligible(p) /\ Answer(p).ratio > Answer(lead).ratio
      <4>1. lead' = p
        BY <1>10, <3>2
      <4>2. \A q \in EligibleOf(tried)' : Answer(q).ratio =< Answer(p).ratio
        BY <1>7, <2>5, <2>6, <2>7, <3>1, <3>2
      <4> QED BY <1>1, <1>2, <2>6, <3>1, <3>2, <4>1, <4>2 DEF Highest
    <3>3. CASE ~(Eligible(p) /\ Answer(p).ratio > Answer(lead).ratio)
      <4>1. lead' = lead
        BY <1>10, <3>3
      <4>2. \A q \in EligibleOf(tried)' : Answer(q).ratio =< Answer(lead).ratio
        BY <1>7, <2>5, <2>6, <2>7, <3>1, <3>3
      <4> QED BY <1>1, <1>2, <2>5, <2>6, <3>1, <4>1, <4>2 DEF Highest
    <3> QED BY <3>2, <3>3
  <2>12. Surveyed'
    <3>1. \A a, d : Moved(a, d)' = Moved(a, d)
      BY <1>1 DEF Moved, StepOf
    <3>2. ToSet(tried)' = ToSet(tried) \cup {p} /\ ToSet(untried)' = ToSet(rest)
      BY <2>3, <2>4 DEF ToSet
    <3>3. Different(untried)'
      BY <1>7, <2>4 DEF Different
    <3>4. ToSet(untried)' \cap ToSet(tried)' = {}
      BY <1>7, <1>8, <3>2
    <3>5. /\ axis \in Axes
          /\ \A d \in {-1, 1} : Moved(axis, d) = spot \/ Moved(axis, d) \in ToSet(tried) \cup ToSet(untried)
      BY <1>1, <1>2 DEF ClimbStep, Surveyed
    <3>6. \A d \in {-1, 1} : Moved(axis, d)' = spot \/ Moved(axis, d)' \in ToSet(tried)' \cup ToSet(untried)'
      BY <1>1, <1>7, <3>2, <3>5 DEF Moved, StepOf
    <3>7. \A a \in Axes : Around(a) => Around(a)'
      BY <1>1, <3>1, <3>2 DEF Around
    <3>8. BudgetLeft' => BudgetLeft
      BY <1>1, <1>2 DEF BudgetLeft
    <3>9. ~improved' /\ BudgetLeft' => \A a \in Axes : a < axis' => Around(a)'
      BY <1>1, <1>2, <3>7, <3>8 DEF ClimbStep, Surveyed
    <3> QED BY <1>1, <3>3, <3>4, <3>5, <3>6, <3>9 DEF Surveyed
  <2> QED BY <1>1, <1>10, <2>8, <2>9, <2>10, <2>11, <2>12 DEF HpInv, Climbing, Ended
<1> QED BY <1>5, <1>6, <1>9, <1>10 DEF TryNeighbour

LEMMA CloseStep == ASSUME HpInv, CloseAxis PROVE HpInv'
<1>1. /\ screening = "climb" /\ opened /\ (untried = <<>> \/ ~BudgetLeft)
      /\ spot' = lead /\ improved' = (improved \/ lead # spot) /\ opened' = FALSE
      /\ untried' = <<>> /\ axis' = axis + 1
      /\ UNCHANGED <<wanted, market, screening, arrived, tried, halvings, lead, winner>>
  BY DEF CloseAxis
<1>2. ClimbStep /\ winner = NoPoint /\ wanted.evaluations >= 1 /\ \A p : Answer(p)' = Answer(p)
  BY <1>1, ClimbFacts
<1>3. lead \in Points /\ axis \in Axes /\ improved \in BOOLEAN
  BY <1>1, <1>2 DEF ClimbStep, HpTyped, Surveyed
<1>4. HpTyped'
  <2>1. axis + 1 \in 1 .. AxisCount + 1
    BY <1>3, AxesFacts DEF Axes
  <2>2. <<>> \in Seq(Points) /\ improved' \in BOOLEAN
    BY <1>1, <1>3
  <2> QED BY <1>1, <1>2, <1>3, <2>1, <2>2 DEF ClimbStep, HpTyped
<1>5. Waiting'
  BY <1>1, <1>2 DEF Waiting
<1>6. RowsRegistered'
  BY <1>1, <1>2 DEF ClimbStep, RowsRegistered, Batch
<1>7. Highest'
  <2>1. EligibleOf(tried)' = EligibleOf(tried)
    BY <1>1 DEF EligibleOf, Eligible, Answer
  <2> QED BY <1>1, <1>2, <2>1 DEF ClimbStep, Highest
<1>8. Surveyed'
  <2>1. Different(untried)' /\ ToSet(untried)' = {}
    BY <1>1, NothingTried DEF Different, ToSet
  <2>2. ASSUME ~improved', BudgetLeft' PROVE \A a \in Axes : a < axis' => Around(a)'
    <3>1. lead = spot /\ ~improved /\ untried = <<>> /\ BudgetLeft
      BY <1>1, <2>2 DEF BudgetLeft
    <3>2. \A a, d : Moved(a, d)' = Moved(a, d)
      BY <1>1, <3>1 DEF Moved, StepOf
    <3>3. \A a : Around(a)' <=> Around(a)
      BY <1>1, <3>1, <3>2 DEF Around, ToSet
    <3>4. Around(axis)
      BY <1>1, <1>2, <3>1, NothingTried DEF ClimbStep, Surveyed, Around
    <3>5. \A a \in Axes : a < axis => Around(a)
      BY <1>2, <3>1 DEF ClimbStep, Surveyed
    <3>6. \A a \in Axes : a < axis + 1 => a < axis \/ a = axis
      BY <1>3, AxesFacts
    <3> QED BY <1>1, <3>3, <3>4, <3>5, <3>6
  <2> QED BY <1>1, <2>1, <2>2 DEF Surveyed
<1> QED BY <1>1, <1>4, <1>5, <1>6, <1>7, <1>8 DEF HpInv, Climbing, Ended

LEMMA RoundStep == ASSUME HpInv, NextRound PROVE HpInv'
<1>1. /\ screening = "climb" /\ ~opened /\ axis > AxisCount /\ ~Rested
      /\ halvings' = halvings + 1 /\ axis' = 1 /\ improved' = FALSE
      /\ UNCHANGED <<wanted, market, screening, arrived, tried, spot, opened, untried, lead, winner>>
  BY DEF NextRound
<1>2. ClimbStep /\ winner = NoPoint /\ wanted.evaluations >= 1 /\ \A p : Answer(p)' = Answer(p)
  BY <1>1, ClimbFacts
<1>3. halvings \in 0 .. 2 /\ halvings # 2
  BY <1>1, <1>2 DEF ClimbStep, HpTyped, Rested
<1>4. HpTyped'
  <2>1. 1 \in 1 .. AxisCount + 1 /\ halvings + 1 \in 0 .. 2
    BY <1>3, AxesFacts
  <2> QED BY <1>1, <1>2, <2>1 DEF ClimbStep, HpTyped
<1>5. Waiting'
  BY <1>1, <1>2 DEF Waiting
<1>6. RowsRegistered'
  BY <1>1, <1>2 DEF ClimbStep, RowsRegistered, Batch
<1>7. Highest'
  <2>1. EligibleOf(tried)' = EligibleOf(tried)
    BY <1>1 DEF EligibleOf, Eligible, Answer
  <2> QED BY <1>1, <1>2, <2>1 DEF ClimbStep, Highest
<1>8. Surveyed'
  <2>1. Different(untried)' /\ ToSet(untried)' \cap ToSet(tried)' = {}
    BY <1>1, <1>2 DEF ClimbStep, Surveyed, Different, ToSet
  <2>2. \A a \in Axes : ~(a < 1)
    BY DEF Axes
  <2> QED BY <1>1, <2>1, <2>2 DEF Surveyed
<1> QED BY <1>1, <1>4, <1>5, <1>6, <1>7, <1>8 DEF HpInv, Climbing, Ended

LEMMA EndClimbStep == ASSUME HpInv, EndClimb PROVE HpInv'
<1>1. /\ screening = "climb" /\ ~opened /\ (~BudgetLeft \/ Rested)
      /\ screening' = "done" /\ winner' = Champion(tried)
      /\ UNCHANGED <<wanted, market, arrived, tried, climbVars>>
  BY DEF EndClimb
<1>2. /\ ClimbStep /\ winner = NoPoint /\ wanted.evaluations >= 1
      /\ \A p : Answer(p)' = Answer(p) /\ (Eligible(p)' <=> Eligible(p))
  BY <1>1, ClimbFacts
<1>3. EligibleOf(tried) # {} /\ tried \in Seq(Points) /\ market \in DOMAIN Landscapes
  BY <1>2 DEF ClimbStep, Highest, HpTyped
<1>4. PICK best : best = BestOf(EligibleOf(tried))
  OBVIOUS
<1>5. best \in EligibleOf(tried) /\ \A q \in EligibleOf(tried) \ {best} : Better(best, q)
  BY <1>3, <1>4, BestRowFacts
<1>6. winner' = best
  BY <1>1, <1>3, <1>4 DEF Champion
<1>7. best \in Points /\ best # NoPoint
  BY <1>3, <1>5, AxesFacts DEF EligibleOf, ToSet
<1>8. HpTyped'
  BY <1>1, <1>2, <1>6, <1>7 DEF ClimbStep, HpTyped, climbVars
<1>9. Waiting'
  BY <1>1, <1>2 DEF Waiting
<1>10. RowsRegistered'
  BY <1>1, <1>2 DEF ClimbStep, RowsRegistered, Batch
<1>11. EligibleOf(tried)' = EligibleOf(tried)
  BY <1>1 DEF EligibleOf, Eligible, Answer
<1>12. Highest'
  BY <1>1, <1>2, <1>11 DEF ClimbStep, Highest, climbVars
<1>13. \A p, q : Better(p, q)' <=> Better(p, q)
  BY <1>2 DEF Better
<1>14. ~improved' /\ BudgetLeft' => \A a \in Axes : Around(a)'
  <2>1. \A a, d : Moved(a, d)' = Moved(a, d)
    BY <1>1 DEF Moved, StepOf, climbVars
  <2>2. \A a : Around(a)' <=> Around(a)
    BY <1>1, <2>1 DEF Around, ToSet, climbVars
  <2>3. (BudgetLeft' <=> BudgetLeft) /\ improved' = improved
    BY <1>1 DEF BudgetLeft, climbVars
  <2>4. BudgetLeft => axis > AxisCount
    BY <1>1 DEF Rested
  <2>5. axis > AxisCount => \A a \in Axes : a < axis
    BY <1>2, AxesFacts DEF ClimbStep, HpTyped, Axes
  <2> QED BY <1>2, <2>2, <2>3, <2>4, <2>5 DEF ClimbStep, Surveyed
<1>15. Ended'
  <2>1. ~opened'
    BY <1>1 DEF climbVars
  <2> QED BY <1>5, <1>6, <1>7, <1>11, <1>12, <1>13, <1>14, <2>1 DEF Ended
<1> QED BY <1>1, <1>8, <1>9, <1>10, <1>15 DEF HpInv, Climbing

LEMMA HpStep == HpInv /\ [HpNext]_hpVars => HpInv'
<1> SUFFICES ASSUME HpInv, [HpNext]_hpVars PROVE HpInv'
  OBVIOUS
<1>1. CASE UNCHANGED hpVars
  <2>1. /\ \A p, q : Better(p, q)' <=> Better(p, q)
        /\ \A p : Answer(p)' = Answer(p)
        /\ EligibleOf(tried)' = EligibleOf(tried) /\ ToSet(tried)' = ToSet(tried) /\ ToSet(untried)' = ToSet(untried)
        /\ \A a, d : Moved(a, d)' = Moved(a, d)
        /\ (BudgetLeft' <=> BudgetLeft) /\ Batch' = Batch
    BY <1>1 DEF hpVars, Better, EligibleOf, Eligible, Answer, Moved, StepOf, BudgetLeft, Batch, ToSet
  <2>2. /\ \A a : Around(a)' <=> Around(a)
        /\ Highest' <=> Highest
        /\ \A d \in {-1, 1} : Moved(axis, d)' = Moved(axis, d)
    BY <1>1, <2>1 DEF hpVars, Around, Highest, Moved, StepOf
  <2>3. Surveyed' <=> Surveyed
    BY <1>1, <2>1, <2>2 DEF hpVars, Surveyed, Different
  <2>4. HpTyped' /\ Waiting' /\ RowsRegistered'
    BY <1>1, <2>1 DEF hpVars, HpInv, HpTyped, Waiting, RowsRegistered
  <2>5. Ended'
    BY <1>1, <2>1, <2>2 DEF hpVars, HpInv, Ended
  <2> QED BY <1>1, <2>2, <2>3, <2>4, <2>5 DEF hpVars, HpInv, Climbing
<1>2. CASE HpNext
  BY <1>2, BuildStep, EvaluationStep, EndGridStep, OpenStep, TryStep, CloseStep, RoundStep, EndClimbStep DEF HpNext
<1> QED BY <1>1, <1>2

LEMMA HpImplied == HpInv => ScreenSound
<1> SUFFICES ASSUME HpInv PROVE ScreenSound
  OBVIOUS
<1>1. \A p \in EligibleOf(tried) : p \in Points /\ Answer(p).ratio \in Int
  BY AnswersTyped DEF HpInv, HpTyped, EligibleOf, ToSet
<1>2. ChampionBest
  <2> SUFFICES ASSUME screening = "done" PROVE
        /\ winner = NoPoint <=> EligibleOf(tried) = {}
        /\ winner # NoPoint =>
             /\ winner \in EligibleOf(tried)
             /\ \A p \in EligibleOf(tried) \ {winner} : Better(winner, p)
             /\ Answer(spot).ratio = Answer(winner).ratio
    BY DEF ChampionBest
  <2>1. winner = NoPoint <=> EligibleOf(tried) = {}
    BY DEF HpInv, Ended
  <2>2. ASSUME winner # NoPoint
        PROVE  /\ winner \in EligibleOf(tried)
               /\ \A p \in EligibleOf(tried) \ {winner} : Better(winner, p)
               /\ spot \in EligibleOf(tried) /\ Answer(winner).ratio =< Answer(spot).ratio
    BY <2>2 DEF HpInv, Ended, Highest
  <2>3. ASSUME winner # NoPoint PROVE Answer(spot).ratio = Answer(winner).ratio
    <3>1. CASE spot = winner
      BY <3>1
    <3>2. CASE spot # winner
      <4>1. Better(winner, spot)
        BY <2>2, <2>3, <3>2
      <4> QED BY <1>1, <2>2, <2>3, <4>1 DEF Better
    <3> QED BY <3>1, <3>2
  <2> QED BY <2>1, <2>2, <2>3
<1>3. HillTop
  <2> SUFFICES ASSUME screening = "done", winner # NoPoint, BudgetLeft, ~improved,
                      NEW a \in Axes, NEW direction \in {-1, 1}, NEW p, p = Moved(a, direction)
               PROVE  p = spot \/ (p \in ToSet(tried) /\ (Eligible(p) => Answer(p).ratio =< Answer(spot).ratio))
    BY Zenon DEF HillTop
  <2>1. Highest /\ ~opened /\ Around(a)
    BY DEF HpInv, Ended
  <2>2. p = spot \/ p \in ToSet(tried)
    BY <2>1 DEF Around
  <2>3. p \in ToSet(tried) /\ Eligible(p) => p \in EligibleOf(tried)
    BY DEF EligibleOf
  <2> QED BY <2>1, <2>2, <2>3 DEF Highest
<1> QED BY <1>2, <1>3 DEF HpInv, ScreenSound

\* Whatever order the threads end in, the report's rows are the registered ones
\* within the budget, its champion is the best adopted row, and a climb that
\* came to rest stands on top (screen_adaptive_contribution_hp).
THEOREM ScreenIsSound == HpSpec => []ScreenSound
<1>1. HpSpec => []HpInv
  BY HpInitial, HpStep, PTL DEF HpSpec
<1> QED BY <1>1, HpImplied, PTL
-----------------------------------------------------------------------------
(* The thesis commands *)

ReportSteps == {"evidence", "terminal", "cohorts", "proxy", "write"}
StudySteps == {"start", "clip", "pin", "arm", "save", "json", "record"}
PastGate == step \in ReportSteps \cup {"wave"} \cup StudySteps \/ (step = "as_of" /\ Pipeline)
DraftFields == {"historical", "slots", "terminal", "horizon", "surface", "long", "span", "eligible", "seen", "clean"}
StudyFields == {"start", "end", "years", "pinned", "arms", "seen", "clean"}
Tried == Len(entries) + Len(failures)
Members == ToSet(Theses)

\* Where a command can be, what it asks about, and how far its wave has come.
StepsInOrder ==
  /\ step \in {"asked", "as_of", "gate", "wave", "ended"} \cup ReportSteps \cup StudySteps
  /\ step \in {"asked", "as_of", "gate"} => entries = <<>> /\ failures = <<>> /\ files = {}
  /\ step \in {"gate", "wave", "save"} \cup StudySteps => request.command # "report"
  /\ step \in {"wave", "save"} => Pipeline
  /\ step \in ReportSteps => request.command # "incremental"
  /\ step = "gate" => request.command # "report"
  /\ ~Pipeline /\ step \in ReportSteps => entries = <<>> /\ failures = <<>>
  /\ ~Pipeline /\ step \in ReportSteps \cup StudySteps => request.thesis \in Members
  /\ step = "as_of" /\ request.command # "incremental" => request.thesis \in Members
  /\ step = "gate" /\ Pipeline => request.thesis \in Members
  /\ step \in ReportSteps \cup {"wave"} \cup StudySteps /\ Pipeline => request.thesis \in Members
  /\ Pipeline /\ step \in ReportSteps => Tried < Len(Theses)
  /\ Pipeline /\ step \in {"wave"} \cup StudySteps => Tried = Len(Theses)
ThesisTyped ==
  /\ request \in ThesisCases
  /\ published \in Nat /\ 1 =< published /\ published =< Len(Worlds[request.world])
  /\ begun \in Nat /\ begun =< published
  /\ asOf \in Nat /\ gate.asOf \in Nat
  /\ entries \in Seq(ToSet(entries)) /\ failures \in Seq(Members)
  /\ DOMAIN draft = DraftFields /\ DOMAIN study = StudyFields
  /\ StepsInOrder

\* What a catalog holds.
LEMMA CatalogTyped ==
  ASSUME request \in ThesisCases, NEW i \in 1 .. Len(Worlds[request.world])
  PROVE  /\ CatalogOf(i).since \in Nat /\ CatalogOf(i).last \in Nat
         /\ CatalogOf(i).panel \in [asOf : Nat, status : PanelStatuses]
         /\ \A t \in Members : CatalogOf(i).first[Vehicle[t]] \in Nat \cup {Missing}
         /\ \A t \in Members : CatalogOf(i).slots[t] \subseteq TrackF
<1>1. request.world \in DOMAIN Worlds
  BY CasesAssumption
<1>2. CatalogOf(i) \in ToSet(Worlds[request.world])
  BY <1>1, WorldsAssumption DEF CatalogOf, ToSet
<1> QED BY <1>1, <1>2, WorldsAssumption DEF Members

\* A look at the catalogs leaves the other fields as they are, and if what was
\* seen is one catalog it is the one that is current.
LEMMA SeenIs ==
  ASSUME published \in Nat, begun \in Nat, begun =< published,
         NEW r, "seen" \in DOMAIN r, "clean" \in DOMAIN r
  PROVE  /\ DOMAIN Seen(r) = DOMAIN r /\ DOMAIN Unclean(r) = DOMAIN r
         /\ \A f \in DOMAIN r \ {"seen"} : Seen(r)[f] = r[f]
         /\ \A f \in DOMAIN r \ {"seen", "clean"} : Unclean(r)[f] = r[f]
         /\ Unclean(r).clean = FALSE
         /\ Unclean(r).seen = Seen(r).seen
         /\ published \in Seen(r).seen /\ r.seen \subseteq Seen(r).seen
         /\ \A i : Seen(r).seen = {i} => published = i /\ (begun # 0 => begun = i)
         /\ r.seen \subseteq 1 .. published /\ published >= 1 => Seen(r).seen \subseteq 1 .. published
<1> DEFINE range == (IF begun = 0 THEN published ELSE begun) .. published
<1>1. published \in range /\ (begun # 0 => begun \in range) /\ (published >= 1 => range \subseteq 1 .. published)
  OBVIOUS
<1>2. Seen(r) = [r EXCEPT !.seen = @ \cup range]
  BY DEF Seen
<1> HIDE DEF range
<1>3. DOMAIN Seen(r) = DOMAIN r /\ Seen(r).seen = r.seen \cup range /\ \A f \in DOMAIN r \ {"seen"} : Seen(r)[f] = r[f]
  BY <1>2
<1>4. /\ DOMAIN Unclean(r) = DOMAIN r /\ Unclean(r).clean = FALSE
      /\ Unclean(r).seen = Seen(r).seen /\ \A f \in DOMAIN r \ {"seen", "clean"} : Unclean(r)[f] = r[f]
  BY <1>3 DEF Unclean
<1> QED BY <1>1, <1>3, <1>4

LEMMA LongestIs ==
  ASSUME NEW S, S \subseteq HorizonSurface
  PROVE  /\ S = {} => Longest(S) = 0
         /\ S # {} => Longest(S) \in S /\ \A h \in S : h =< Longest(S)
<1>1. ASSUME S # {} PROVE \E h \in S : \A k \in S : k =< h
  <2>1. CASE 10 \in S
    BY <2>1 DEF HorizonSurface
  <2>2. CASE 10 \notin S /\ 8 \in S
    BY <2>2 DEF HorizonSurface
  <2>3. CASE 10 \notin S /\ 8 \notin S /\ 7 \in S
    BY <2>3 DEF HorizonSurface
  <2>4. CASE 10 \notin S /\ 8 \notin S /\ 7 \notin S
    <3>1. PICK x \in S : TRUE
      BY <1>1
    <3> QED BY <2>4, <3>1 DEF HorizonSurface
  <2> QED BY <2>1, <2>2, <2>3, <2>4
<1>2. CASE S # {}
  <2>1. PICK m \in S : \A k \in S : k =< m
    BY <1>1, <1>2
  <2>2. Longest(S) = CHOOSE h \in S : \A k \in S : k =< h
    BY <1>2 DEF Longest
  <2>3. Longest(S) \in S /\ \A k \in S : k =< Longest(S)
    BY <2>1, <2>2
  <2> QED BY <1>2, <2>3
<1>3. CASE S = {}
  BY <1>3 DEF Longest
<1> QED BY <1>2, <1>3

LEMMA ThesisBegins == ThesisInit => ThesisTyped
<1> SUFFICES ASSUME ThesisInit PROVE ThesisTyped
  OBVIOUS
<1>1. request.world \in DOMAIN Worlds /\ Len(Worlds[request.world]) \in Nat /\ Len(Worlds[request.world]) >= 1
  <2>1. request.world \in DOMAIN Worlds
    BY CasesAssumption DEF ThesisInit
  <2>2. Worlds[request.world] # <<>> /\ Worlds[request.world] \in Seq(ToSet(Worlds[request.world]))
    BY <2>1, WorldsAssumption
  <2> QED BY <2>1, <2>2, EmptySeq
<1>2. entries = <<>> /\ failures = <<>> /\ DOMAIN draft = DraftFields /\ DOMAIN study = StudyFields /\ gate.asOf = 0
  BY DEF ThesisInit, EmptyDraft, NoStudy, NoPanelYet, DraftFields, StudyFields
<1>3. entries \in Seq(ToSet(entries)) /\ failures \in Seq(Members)
  BY <1>2
<1>4. StepsInOrder
  BY <1>2 DEF ThesisInit, StepsInOrder, ReportSteps, StudySteps
<1> QED BY <1>1, <1>2, <1>3, <1>4 DEF ThesisInit, ThesisTyped

LEMMA PublishTyped == ASSUME ThesisTyped, PublishCatalog PROVE ThesisTyped'
<1>1. Len(Worlds[request.world]) \in Nat
  BY WorldsAssumption, CasesAssumption DEF ThesisTyped
<1> QED BY <1>1 DEF ThesisTyped, StepsInOrder, PublishCatalog, waveVars, Pipeline, Tried, ToSet

LEMMA BeginTyped == ASSUME ThesisTyped, BeginRun PROVE ThesisTyped'
  BY DEF ThesisTyped, StepsInOrder, BeginRun, worldVars, waveVars, Pipeline, Tried, ToSet

LEMMA AskTyped == ASSUME ThesisTyped, AskThesis PROVE ThesisTyped'
<1>1. /\ request' = request /\ published' = published /\ begun' = 0 /\ asOf' = asOf /\ gate' = gate
      /\ entries' = entries /\ failures' = failures /\ draft' = draft /\ study' = study /\ files' = files
      /\ step = "asked"
      /\ \/ step' = "ended"
         \/ step' = "gate" /\ Pipeline /\ request.thesis \in Members
         \/ step' = "as_of" /\ ~Pipeline /\ (request.command # "incremental" => request.thesis \in Members)
  BY DEF AskThesis, worldVars, waveVars, Exit, GoTo, Members, Pipeline
<1>2. ToSet(entries)' = ToSet(entries) /\ Pipeline' = Pipeline /\ Tried' = Tried
  BY <1>1 DEF ToSet, Pipeline, Tried
<1>3. StepsInOrder'
  BY <1>1, <1>2 DEF ThesisTyped, StepsInOrder, ReportSteps, StudySteps, Pipeline
<1> QED BY <1>1, <1>2, <1>3 DEF ThesisTyped

\* A command that leaves the panel, the wave and the files alone and moves on.
MovesOn ==
  /\ request' = request /\ published' = published /\ begun' = 0
  /\ entries' = entries /\ failures' = failures /\ files' = files
LEMMA MovedOn ==
  ASSUME ThesisTyped, MovesOn, asOf' \in Nat, gate'.asOf \in Nat,
         DOMAIN draft' = DraftFields, DOMAIN study' = StudyFields, StepsInOrder'
  PROVE  ThesisTyped'
<1>1. ToSet(entries)' = ToSet(entries)
  BY DEF MovesOn, ToSet
<1> QED BY <1>1 DEF ThesisTyped, MovesOn

LEMMA AsOfTyped == ASSUME ThesisTyped, ChooseAsOf PROVE ThesisTyped'
<1>1. published \in 1 .. Len(Worlds[request.world])
  BY WorldsAssumption, CasesAssumption DEF ThesisTyped
<1>2. Now.panel.asOf \in Nat /\ (request.asOf # Missing => request.asOf \in Nat)
  BY <1>1, CatalogTyped, CasesAssumption DEF ThesisTyped, Now
<1>3. /\ MovesOn /\ gate' = gate /\ draft' = draft /\ study' = study /\ step = "as_of"
      /\ asOf' \in {asOf, request.asOf, gate.asOf, Now.panel.asOf} /\ (asOf' = request.asOf => request.asOf # Missing \/ asOf' \in {asOf, gate.asOf, Now.panel.asOf})
      /\ \/ step' = "ended"
         \/ step' = "gate" /\ request.command = "incremental"
         \/ step' = "evidence" /\ request.command # "incremental"
  <2>1. /\ request' = request /\ published' = published /\ entries' = entries /\ failures' = failures /\ files' = files
        /\ gate' = gate /\ draft' = draft /\ study' = study /\ step = "as_of"
    BY DEF ChooseAsOf, worldVars, waveVars
  <2>2. CASE request.asOf # Missing
    <3>1. /\ begun' = 0
          /\ \/ asOf' = asOf /\ step' = "ended"
             \/ asOf' = request.asOf /\ step' = IF request.command = "incremental" THEN "gate" ELSE "evidence"
      BY <2>2, Zenon DEF ChooseAsOf, Exit, GoTo
    <3> QED BY <2>1, <2>2, <3>1 DEF MovesOn
  <2>3. CASE request.asOf = Missing
    <3>1. /\ begun' = 0
          /\ \/ asOf' = asOf /\ step' = "ended"
             \/ /\ asOf' = IF Pipeline THEN gate.asOf ELSE Now.panel.asOf
                /\ step' = IF request.command = "incremental" THEN "gate" ELSE "evidence"
      BY <2>3 DEF ChooseAsOf, Exit, GoTo
    <3> QED BY <2>1, <2>3, <3>1 DEF MovesOn
  <2> QED BY <2>2, <2>3
<1>4. Pipeline' = Pipeline /\ Tried' = Tried
  BY <1>3 DEF MovesOn, Pipeline, Tried
<1>5. asOf' \in Nat
  BY <1>2, <1>3 DEF ThesisTyped
<1>6. entries = <<>> /\ failures = <<>> => Tried < Len(Theses)
  BY ThesesAssumption, EmptySeq DEF Tried
<1>7. StepsInOrder'
  BY <1>3, <1>4, <1>6 DEF MovesOn, ThesisTyped, StepsInOrder, ReportSteps, StudySteps, Pipeline
<1> QED BY <1>3, <1>5, <1>7, MovedOn DEF ThesisTyped

LEMMA GateTyped == ASSUME ThesisTyped, PassGate PROVE ThesisTyped'
<1>1. published \in 1 .. Len(Worlds[request.world])
  BY WorldsAssumption, CasesAssumption DEF ThesisTyped
<1>2. Now.panel \in [asOf : Nat, status : PanelStatuses]
  BY <1>1, CatalogTyped DEF ThesisTyped, Now
<1>3. /\ MovesOn /\ asOf' = asOf /\ draft' = draft /\ study' = study /\ step = "gate"
      /\ \/ step' = "ended" /\ (gate' = gate \/ gate' = [Now.panel EXCEPT !.status = IF Acknowledged(Now.panel) THEN "HARD_STOP_ACK" ELSE @])
         \/ /\ gate' = [Now.panel EXCEPT !.status = IF Acknowledged(Now.panel) THEN "HARD_STOP_ACK" ELSE @]
            /\ \/ step' = "as_of" /\ Pipeline
               \/ step' = "start" /\ ~Pipeline /\ request.thesis \in Members
  BY DEF PassGate, worldVars, waveVars, Exit, GoTo, MovesOn, Members
<1>4. Pipeline' = Pipeline /\ Tried' = Tried
  BY <1>3 DEF MovesOn, Pipeline, Tried
<1>5. gate'.asOf \in Nat
  BY <1>2, <1>3 DEF ThesisTyped
<1>7. StepsInOrder'
  BY <1>3, <1>4 DEF MovesOn, ThesisTyped, StepsInOrder, ReportSteps, StudySteps, Pipeline
<1> QED BY <1>3, <1>5, <1>7, MovedOn DEF ThesisTyped

LEMMA InHandKnown ==
  ASSUME ThesisTyped, step \in ReportSteps
  PROVE  InHand \in Members /\ (Pipeline => InHand = Theses[Tried + 1] /\ Tried + 1 \in DOMAIN Theses)
<1>1. CASE Pipeline
  <2>1. Tried \in Nat /\ Tried < Len(Theses) /\ Len(Theses) \in Nat /\ DOMAIN Theses = 1 .. Len(Theses)
    BY <1>1, ThesesAssumption DEF ThesisTyped, StepsInOrder, Tried
  <2>2. Tried + 1 \in DOMAIN Theses
    BY <2>1
  <2> QED BY <1>1, <2>2 DEF InHand, Tried, Members, ToSet
<1>2. CASE ~Pipeline
  BY <1>2 DEF InHand, ThesisTyped, StepsInOrder
<1> QED BY <1>1, <1>2

\* What is in the draft changes; the wave goes on with the same thesis.
DraftMoves ==
  /\ request' = request /\ published' = published /\ begun' = 0 /\ asOf' = asOf /\ gate' = gate
  /\ entries' = entries /\ study' = study /\ files' = files
LEMMA EvidenceTyped == ASSUME ThesisTyped, EvidenceEnds PROVE ThesisTyped' /\ step' = "terminal" /\ DraftMoves /\ MovesOn
<1>1. step = "evidence" /\ step' = "terminal" /\ DraftMoves /\ MovesOn
  BY DEF EvidenceEnds, worldVars, waveVars, GoTo, MovesOn, DraftMoves
<1>2. \E d : /\ draft' = Seen(d) \/ draft' = Unclean(d)
             /\ DOMAIN d = DraftFields
  <2>1. \A m, s : DOMAIN [EmptyDraft EXCEPT !.historical = m, !.slots = s] = DraftFields
    BY DEF EmptyDraft, DraftFields
  <2>2. \A s : DOMAIN [EmptyDraft EXCEPT !.slots = s] = DraftFields
    BY DEF EmptyDraft, DraftFields
  <2>3. \/ \E m, s : draft' = Seen([EmptyDraft EXCEPT !.historical = m, !.slots = s])
        \/ \E m, s : draft' = Unclean([EmptyDraft EXCEPT !.historical = m, !.slots = s])
        \/ \E s : draft' = Unclean([EmptyDraft EXCEPT !.slots = s])
    BY Zenon DEF EvidenceEnds
  <2> QED BY <2>1, <2>2, <2>3
<1>3. DOMAIN draft' = DraftFields
  <2>1. PICK d : (draft' = Seen(d) \/ draft' = Unclean(d)) /\ DOMAIN d = DraftFields
    BY <1>2
  <2>2. "seen" \in DOMAIN d /\ "clean" \in DOMAIN d
    BY <2>1 DEF DraftFields
  <2> QED BY <2>1, <2>2, SeenIs DEF ThesisTyped
<1>4. Pipeline' = Pipeline /\ Tried' = Tried
  BY <1>1 DEF MovesOn, Pipeline, Tried
<1>5. StepsInOrder'
  BY <1>1, <1>4 DEF MovesOn, ThesisTyped, StepsInOrder, ReportSteps, StudySteps, Pipeline
<1>6. asOf' \in Nat /\ gate'.asOf \in Nat /\ DOMAIN study' = StudyFields
  BY <1>1 DEF ThesisTyped, DraftMoves
<1> QED BY <1>1, <1>3, <1>5, <1>6, MovedOn

LEMMA CohortsTyped == ASSUME ThesisTyped, CohortsEnd PROVE ThesisTyped' /\ step' = "proxy" /\ DraftMoves /\ MovesOn
<1>1. step = "cohorts" /\ step' = "proxy" /\ DraftMoves /\ MovesOn
  BY DEF CohortsEnd, worldVars, waveVars, GoTo, MovesOn, DraftMoves
<1>2. \E d : (draft' = Seen(d) \/ draft' = Unclean(d)) /\ DOMAIN d = DraftFields
  <2>1. \A h, u : DOMAIN [draft EXCEPT !.horizon = h, !.surface = u] = DraftFields
    BY DEF ThesisTyped
  <2>2. \A h, u, l : DOMAIN [[draft EXCEPT !.horizon = h, !.surface = u] EXCEPT !.long = l] = DraftFields
    BY <2>1
  <2>3. \E h, u : \/ \E l : draft' = Seen([[draft EXCEPT !.horizon = h, !.surface = u] EXCEPT !.long = l])
                 \/ draft' = Unclean([draft EXCEPT !.horizon = h, !.surface = u])
    BY Zenon DEF CohortsEnd
  <2> QED BY <2>1, <2>2, <2>3
<1>3. DOMAIN draft' = DraftFields
  <2>1. PICK d : (draft' = Seen(d) \/ draft' = Unclean(d)) /\ DOMAIN d = DraftFields
    BY <1>2
  <2>2. "seen" \in DOMAIN d /\ "clean" \in DOMAIN d
    BY <2>1 DEF DraftFields
  <2> QED BY <2>1, <2>2, SeenIs DEF ThesisTyped
<1>4. Pipeline' = Pipeline /\ Tried' = Tried
  BY <1>1 DEF MovesOn, Pipeline, Tried
<1>5. StepsInOrder'
  BY <1>1, <1>4 DEF MovesOn, ThesisTyped, StepsInOrder, ReportSteps, StudySteps, Pipeline
<1>6. asOf' \in Nat /\ gate'.asOf \in Nat /\ DOMAIN study' = StudyFields
  BY <1>1 DEF ThesisTyped, DraftMoves
<1> QED BY <1>1, <1>3, <1>5, <1>6, MovedOn

LEMMA ProxyTyped == ASSUME ThesisTyped, ReadProxy PROVE ThesisTyped' /\ step' = "write" /\ DraftMoves /\ MovesOn
<1>1. step = "proxy" /\ step' = "write" /\ DraftMoves /\ MovesOn
  BY DEF ReadProxy, worldVars, waveVars, GoTo, MovesOn, DraftMoves
<1>2. \E d : (draft' = Seen(d) \/ draft' = Unclean(d)) /\ DOMAIN d = DraftFields
  <2>1. DOMAIN draft = DraftFields /\ \A h, u : DOMAIN [draft EXCEPT !.span = h, !.eligible = u] = DraftFields
    BY DEF ThesisTyped
  <2>2. (\E h, u : draft' = Seen([draft EXCEPT !.span = h, !.eligible = u])) \/ draft' = Seen(draft) \/ draft' = Unclean(draft)
    BY Zenon DEF ReadProxy
  <2> QED BY <2>1, <2>2
<1>3. DOMAIN draft' = DraftFields
  <2>1. PICK d : (draft' = Seen(d) \/ draft' = Unclean(d)) /\ DOMAIN d = DraftFields
    BY <1>2
  <2>2. "seen" \in DOMAIN d /\ "clean" \in DOMAIN d
    BY <2>1 DEF DraftFields
  <2> QED BY <2>1, <2>2, SeenIs DEF ThesisTyped
<1>4. Pipeline' = Pipeline /\ Tried' = Tried
  BY <1>1 DEF MovesOn, Pipeline, Tried
<1>5. StepsInOrder'
  BY <1>1, <1>4 DEF MovesOn, ThesisTyped, StepsInOrder, ReportSteps, StudySteps, Pipeline
<1>6. asOf' \in Nat /\ gate'.asOf \in Nat /\ DOMAIN study' = StudyFields
  BY <1>1 DEF ThesisTyped, DraftMoves
<1> QED BY <1>1, <1>3, <1>5, <1>6, MovedOn

\* The terminal ratio is had, or lost, or the report is.
LEMMA TerminalCases ==
  ASSUME ThesisTyped, TerminalEnds
  PROVE  /\ step = "terminal" /\ request' = request /\ published' = published /\ begun' = 0 /\ asOf' = asOf
         /\ gate' = gate /\ entries' = entries /\ study' = study /\ files' = files
         /\ \/ /\ step' = "cohorts" /\ failures' = failures
               /\ (\E x : draft' = Seen([draft EXCEPT !.terminal = x])) \/ draft' = Unclean(draft)
            \/ draft' = draft /\ step' = "ended" /\ code' = 1 /\ failures' = failures /\ ~Pipeline
            \/ draft' = draft /\ step' = NextThesis /\ code' = code /\ failures' = Append(failures, InHand) /\ Pipeline
         /\ step' # "ended" => code' = code
<1>1. step = "terminal" /\ request' = request /\ published' = published /\ asOf' = asOf
      /\ gate' = gate /\ entries' = entries /\ study' = study /\ files' = files
  BY DEF TerminalEnds, worldVars
<1>2. /\ begun' = 0
      /\ \/ /\ step' = "cohorts" /\ failures' = failures /\ code' = code
            /\ (\E x : draft' = Seen([draft EXCEPT !.terminal = x])) \/ draft' = Unclean(draft)
         \/ draft' = draft /\ step' = "ended" /\ code' = 1 /\ failures' = failures /\ ~Pipeline
         \/ draft' = draft /\ step' = NextThesis /\ code' = code /\ failures' = Append(failures, InHand) /\ Pipeline
  BY Zenon DEF TerminalEnds, Exit, GoTo
<1>3. NextThesis # "ended"
  BY DEF NextThesis
<1> QED BY <1>1, <1>2, <1>3

LEMMA TerminalTyped == ASSUME ThesisTyped, TerminalEnds PROVE ThesisTyped'
<1>1. ToSet(entries)' = ToSet(entries) /\ Pipeline' = Pipeline
  BY TerminalCases DEF ToSet, Pipeline
<1>2. DOMAIN draft' = DraftFields
  <2>1. "seen" \in DOMAIN draft /\ "clean" \in DOMAIN draft /\ \A x : DOMAIN [draft EXCEPT !.terminal = x] = DOMAIN draft
    BY DEF ThesisTyped, DraftFields
  <2>2. \A x : DOMAIN Seen([draft EXCEPT !.terminal = x]) = DOMAIN draft
    BY <2>1, SeenIs DEF ThesisTyped
  <2>3. DOMAIN Unclean(draft) = DOMAIN draft
    BY <2>1, SeenIs DEF ThesisTyped
  <2> QED BY <2>2, <2>3, TerminalCases DEF ThesisTyped
<1>3. CASE failures' = failures
  <2>1. Tried' = Tried
    BY <1>3, TerminalCases DEF Tried
  <2>2. \/ step' = "cohorts"
        \/ step' = "ended"
        \/ failures' = Append(failures, InHand)
    BY TerminalCases
  <2>3. failures' # Append(failures, InHand)
    <3>1. failures \in Seq(Members) /\ InHand \in Members
      BY TerminalCases, InHandKnown DEF ThesisTyped, ReportSteps
    <3>2. Len(Append(failures, InHand)) = Len(failures) + 1 /\ Len(failures) \in Nat
      BY <3>1, AppendProperties
    <3>3. Len(failures) # Len(failures) + 1
      BY <3>2
    <3> QED BY <1>3, <3>2, <3>3
  <2>4. StepsInOrder'
    BY <1>1, <1>3, <2>1, <2>2, <2>3, TerminalCases DEF ThesisTyped, StepsInOrder, ReportSteps, StudySteps, Pipeline
  <2> QED BY <1>1, <1>2, <1>3, <2>4, TerminalCases DEF ThesisTyped
<1>4. CASE failures' = Append(failures, InHand) /\ step' = NextThesis /\ Pipeline
  <2>1. InHand \in Members
    BY TerminalCases, InHandKnown DEF ReportSteps
  <2>2. failures' \in Seq(Members) /\ Len(failures') = Len(failures) + 1
    BY <1>4, <2>1, AppendProperties DEF ThesisTyped
  <2>3. Len(entries) \in Nat /\ Len(failures) \in Nat /\ Len(entries)' = Len(entries) /\ Tried < Len(Theses) /\ Len(Theses) \in Nat
    BY <1>4, ThesesAssumption, TerminalCases, SMTT(40) DEF ThesisTyped, StepsInOrder, ReportSteps
  <2>4. Tried' = Tried + 1 /\ Tried \in Nat
    BY <2>2, <2>3 DEF Tried
  <2>5. step' = IF Tried' = Len(Theses) THEN "wave" ELSE "evidence"
    BY <1>4 DEF NextThesis, Tried
  <2>6. Tried' = Len(Theses) \/ Tried' < Len(Theses)
    BY <2>3, <2>4
  <2>7. request.command = "pipeline" /\ request.thesis \in Members
    BY <1>4, TerminalCases DEF ThesisTyped, StepsInOrder, ReportSteps, Pipeline
  <2>8. StepsInOrder'
    BY <1>1, <1>4, <2>5, <2>6, <2>7, TerminalCases DEF StepsInOrder, ReportSteps, StudySteps, Pipeline
  <2> QED BY <1>1, <1>2, <2>2, <2>8, TerminalCases DEF ThesisTyped
<1> QED BY <1>3, <1>4, TerminalCases

LEMMA ReportCases ==
  ASSUME WriteReport
  PROVE  /\ step = "write" /\ request' = request /\ published' = published /\ begun' = 0 /\ asOf' = asOf
         /\ gate' = gate /\ study' = study /\ draft' = EmptyDraft /\ failures' = failures
         /\ \/ /\ files' = files \cup {<<"report", InHand>>} /\ entries' = Append(entries, Entry(InHand, draft))
               /\ \/ Pipeline /\ step' = NextThesis /\ code' = code
                  \/ ~Pipeline /\ step' = "ended" /\ code' = 0
            \/ step' = "ended" /\ code' = 1 /\ files' = files /\ entries' = entries
<1>1. step = "write" /\ request' = request /\ published' = published /\ asOf' = asOf
      /\ gate' = gate /\ study' = study /\ draft' = EmptyDraft
  BY DEF WriteReport, worldVars
<1>2. /\ begun' = 0 /\ failures' = failures
      /\ \/ /\ files' = files \cup {<<"report", InHand>>} /\ entries' = Append(entries, Entry(InHand, draft))
            /\ \/ Pipeline /\ step' = NextThesis /\ code' = code
               \/ ~Pipeline /\ step' = "ended" /\ code' = 0
         \/ step' = "ended" /\ code' = 1 /\ files' = files /\ entries' = entries
  BY Zenon DEF WriteReport, Exit, GoTo
<1> QED BY <1>1, <1>2

LEMMA ReportTyped == ASSUME ThesisTyped, WriteReport PROVE ThesisTyped'
<1>1. Pipeline' = Pipeline /\ DOMAIN draft' = DraftFields
  BY ReportCases DEF Pipeline, EmptyDraft, DraftFields
<1>2. CASE step' = "ended" /\ entries' = entries
  <2>1. ToSet(entries)' = ToSet(entries)
    BY <1>2 DEF ToSet
  <2>2. StepsInOrder'
    BY <1>2 DEF StepsInOrder, ReportSteps, StudySteps
  <2> QED BY <1>1, <1>2, <2>1, <2>2, ReportCases DEF ThesisTyped
<1>3. CASE /\ entries' = Append(entries, Entry(InHand, draft))
           /\ (Pipeline /\ step' = NextThesis) \/ (~Pipeline /\ step' = "ended")
  <2>1. PICK S : S = ToSet(entries) \cup {Entry(InHand, draft)}
    OBVIOUS
  <2>2. entries \in Seq(S)
    BY <2>1 DEF ThesisTyped
  <2>3. entries' \in Seq(S) /\ Len(entries') = Len(entries) + 1 /\ ToSet(entries') = ToSet(entries) \cup {Entry(InHand, draft)}
    BY <1>3, <2>1, <2>2, AppendProperties, GrownSet
  <2>4. entries' \in Seq(ToSet(entries'))
    BY <2>1, <2>3
  <2>5. Len(entries) \in Nat /\ Len(failures) \in Nat /\ Len(failures') = Len(failures) /\ Len(Theses) \in Nat
    BY ThesesAssumption, ReportCases DEF ThesisTyped
  <2>6. Tried' = Tried + 1 /\ Tried \in Nat
    BY <2>3, <2>5 DEF Tried
  <2>7. StepsInOrder'
    <3>1. CASE step' = "ended"
      BY <3>1 DEF StepsInOrder, ReportSteps, StudySteps
    <3>2. CASE Pipeline /\ step' = NextThesis
      <4>1. step' = IF Tried' = Len(Theses) THEN "wave" ELSE "evidence"
        BY <3>2 DEF NextThesis, Tried
      <4>2. Tried < Len(Theses) /\ request.command = "pipeline" /\ request.thesis \in Members
        BY <3>2, ReportCases DEF ThesisTyped, StepsInOrder, ReportSteps, Pipeline
      <4>3. Tried' = Len(Theses) \/ Tried' < Len(Theses)
        BY <2>5, <2>6, <4>2
      <4> QED BY <3>2, <4>1, <4>2, <4>3, ReportCases DEF StepsInOrder, ReportSteps, StudySteps, Pipeline
    <3> QED BY <1>3, <3>1, <3>2
  <2>8. ToSet(entries)' = ToSet(entries')
    BY DEF ToSet
  <2> QED BY <1>1, <2>4, <2>7, <2>8, ReportCases DEF ThesisTyped
<1> QED BY <1>2, <1>3, ReportCases

\* What is written once the reports are: the wave, the page, the result, the row.
Written(from, page, to, c) ==
  /\ step = from /\ request' = request /\ published' = published /\ begun' = 0 /\ asOf' = asOf
  /\ gate' = gate /\ draft' = draft /\ entries' = entries /\ failures' = failures /\ study' = study
  /\ \/ files' = files \cup {<<page>>} /\ step' = to /\ code' = c
     \/ files' = files /\ step' = "ended" /\ code' = 1
LEMMA WrittenCases ==
  /\ WriteWave => Written("wave", "wave", "start", code)
  /\ WritePage => Written("save", "page", "json", code) /\ Assessed # {}
  /\ WriteJson => Written("json", "json", "record", code)
  /\ RecordRun => Written("record", "row", "ended", 0)
<1>1. WriteWave => Written("wave", "wave", "start", code)
  BY DEF WriteWave, Written, worldVars, waveVars, GoTo, Exit
<1>2. WritePage => Written("save", "page", "json", code) /\ Assessed # {}
  BY DEF WritePage, KeepResult, Written, worldVars, waveVars, GoTo, Exit
<1>3. WriteJson => Written("json", "json", "record", code)
  BY DEF WriteJson, KeepResult, Written, worldVars, waveVars, GoTo, Exit
<1>4. RecordRun => Written("record", "row", "ended", 0)
  BY DEF RecordRun, KeepResult, Written, worldVars, waveVars, GoTo, Exit
<1> QED BY <1>1, <1>2, <1>3, <1>4

LEMMA WrittenTyped ==
  ASSUME ThesisTyped, NEW f, NEW c,
         \/ Written("wave", f, "start", c)
         \/ Written("save", f, "json", c)
         \/ Written("json", f, "record", c)
         \/ Written("record", f, "ended", c)
  PROVE  ThesisTyped'
<1>1. /\ request' = request /\ published' = published /\ begun' = 0 /\ asOf' = asOf
      /\ gate' = gate /\ draft' = draft /\ entries' = entries /\ failures' = failures /\ study' = study
  BY DEF Written
<1>2. Pipeline' = Pipeline /\ Tried' = Tried /\ ToSet(entries)' = ToSet(entries)
  BY <1>1 DEF Pipeline, Tried, ToSet
<1>3. \/ step = "wave" /\ step' = "start"
      \/ step = "save" /\ step' = "json"
      \/ step = "json" /\ step' = "record"
      \/ step' = "ended"
  BY DEF Written
<1>4. StepsInOrder'
  BY <1>1, <1>2, <1>3 DEF ThesisTyped, StepsInOrder, ReportSteps, StudySteps, Pipeline
<1> QED BY <1>1, <1>2, <1>4 DEF ThesisTyped

\* The portfolio is opened, clipped, pinned and run arm by arm, or the command ends.
StudyMoves(from, to) ==
  /\ step = from /\ step' \in {to, "ended"} /\ request' = request /\ published' = published /\ begun' = 0 /\ asOf' = asOf
  /\ gate' = gate /\ draft' = draft /\ entries' = entries /\ failures' = failures /\ files' = files
  /\ code' = IF step' = "ended" THEN 1 ELSE code
  /\ step' = "ended" => study' = study
LEMMA StartCases ==
  ASSUME ReadStart
  PROVE  /\ StudyMoves("start", "clip")
         /\ step' = "clip" => \E start, clean :
              /\ start = Larger(Now.since, StudyFloor) \/ start = StudyFloor
              /\ study' = Seen([NoStudy EXCEPT !.start = start, !.end = gate.asOf, !.clean = clean])
<1>1. PICK start, clean : (start = Larger(Now.since, StudyFloor) \/ start = StudyFloor) /\ OpenStudy(start, clean)
  BY Zenon DEF ReadStart
<1>2. step = "start" /\ request' = request /\ published' = published /\ asOf' = asOf
      /\ gate' = gate /\ draft' = draft /\ entries' = entries /\ failures' = failures /\ files' = files
  BY DEF ReadStart, worldVars, waveVars
<1>3. \/ step' = "ended" /\ code' = 1 /\ begun' = 0 /\ study' = study
      \/ /\ study' = Seen([NoStudy EXCEPT !.start = start, !.end = gate.asOf, !.clean = clean])
         /\ step' = "clip" /\ code' = code /\ begun' = 0
  BY <1>1, Zenon DEF OpenStudy, GoTo, Exit
<1> QED BY <1>1, <1>2, <1>3 DEF StudyMoves

LEMMA ClipCases ==
  ASSUME ClipStart
  PROVE  /\ StudyMoves("clip", "pin")
         /\ step' = "pin" => \E clipped, years :
              /\ clipped = [study EXCEPT !.start = Larger(@, Now.first[StudyVehicle])]
              /\ years = Longest({h \in HorizonSurface : CohortCount(clipped, h) >= 1})
              /\ Listed(Now, StudyVehicle) /\ years > 0 /\ study' = Seen([clipped EXCEPT !.years = years])
<1>1. step = "clip" /\ request' = request /\ published' = published /\ asOf' = asOf
      /\ gate' = gate /\ draft' = draft /\ entries' = entries /\ failures' = failures /\ files' = files
  BY DEF ClipStart, worldVars, waveVars
<1>2. PICK clipped, years :
        /\ clipped = [study EXCEPT !.start = Larger(@, Now.first[StudyVehicle])]
        /\ years = Longest({h \in HorizonSurface : CohortCount(clipped, h) >= 1})
        /\ \/ Listed(Now, StudyVehicle) /\ years > 0 /\ study' = Seen([clipped EXCEPT !.years = years]) /\ GoTo("pin")
           \/ Exit(1) /\ study' = study
  BY Zenon DEF ClipStart
<1> QED BY <1>1, <1>2 DEF StudyMoves, GoTo, Exit

LEMMA PinCases ==
  ASSUME PinPrices
  PROVE  /\ StudyMoves("pin", "arm")
         /\ step' = "arm" => study' = Seen([study EXCEPT !.pinned = Now.last])
  BY DEF PinPrices, worldVars, waveVars, StudyMoves, GoTo, Exit

LEMMA ArmCases ==
  ASSUME ArmEnds
  PROVE  /\ StudyMoves("arm", IF Len(study.arms) + 1 < Len(SatelliteWeights) THEN "arm" ELSE IF Pipeline THEN "save" ELSE "json")
         /\ begun # 0
         /\ step' # "ended" => \E arm \in Found(ArmRun(Now, Len(study.arms) + 1), MixedArms) :
              arm # NoArm /\ study' = Seen([study EXCEPT !.arms = Append(@, arm)])
<1>1. step = "arm" /\ begun # 0 /\ request' = request /\ published' = published /\ asOf' = asOf
      /\ gate' = gate /\ draft' = draft /\ entries' = entries /\ failures' = failures /\ files' = files
  BY DEF ArmEnds, worldVars, waveVars
<1>2. \/ Exit(1) /\ study' = study
      \/ \E arm \in Found(ArmRun(Now, Len(study.arms) + 1), MixedArms) :
           /\ arm # NoArm /\ study' = Seen([study EXCEPT !.arms = Append(@, arm)])
           /\ GoTo(IF Len(study.arms) + 1 < Len(SatelliteWeights) THEN "arm" ELSE IF Pipeline THEN "save" ELSE "json")
  BY Zenon DEF ArmEnds
<1>3. CASE Exit(1) /\ study' = study
  BY <1>1, <1>3 DEF StudyMoves, Exit
<1>4. CASE \E arm \in Found(ArmRun(Now, Len(study.arms) + 1), MixedArms) :
             /\ arm # NoArm /\ study' = Seen([study EXCEPT !.arms = Append(@, arm)])
             /\ GoTo(IF Len(study.arms) + 1 < Len(SatelliteWeights) THEN "arm" ELSE IF Pipeline THEN "save" ELSE "json")
  <2> DEFINE to == IF Len(study.arms) + 1 < Len(SatelliteWeights) THEN "arm" ELSE IF Pipeline THEN "save" ELSE "json"
  <2>1. to # "ended"
    OBVIOUS
  <2>2. PICK arm \in Found(ArmRun(Now, Len(study.arms) + 1), MixedArms) :
           arm # NoArm /\ study' = Seen([study EXCEPT !.arms = Append(@, arm)]) /\ GoTo(to)
    BY <1>4
  <2> HIDE DEF to
  <2>3. StudyMoves("arm", to)
    BY <1>1, <2>1, <2>2 DEF StudyMoves, GoTo
  <2>4. \E a \in Found(ArmRun(Now, Len(study.arms) + 1), MixedArms) :
           a # NoArm /\ study' = Seen([study EXCEPT !.arms = Append(@, a)])
    BY <2>2
  <2> QED BY <1>1, <2>3, <2>4 DEF to
<1> QED BY <1>2, <1>3, <1>4

LEMMA StudyTyped ==
  ASSUME ThesisTyped, ReadStart \/ ClipStart \/ PinPrices \/ ArmEnds
  PROVE  ThesisTyped'
<1>1. \/ StudyMoves("start", "clip")
      \/ StudyMoves("clip", "pin")
      \/ StudyMoves("pin", "arm")
      \/ StudyMoves("arm", IF Len(study.arms) + 1 < Len(SatelliteWeights) THEN "arm" ELSE IF Pipeline THEN "save" ELSE "json")
  BY StartCases, ClipCases, PinCases, ArmCases
<1>2. MovesOn /\ asOf' = asOf /\ gate' = gate /\ draft' = draft
  BY <1>1 DEF StudyMoves, MovesOn
<1>3. Pipeline' = Pipeline /\ Tried' = Tried
  BY <1>2 DEF Pipeline, Tried, MovesOn
<1>4. \/ step = "start" /\ step' = "clip"
      \/ step = "clip" /\ step' = "pin"
      \/ step = "pin" /\ step' = "arm"
      \/ step = "arm" /\ step' = "arm"
      \/ step = "arm" /\ step' = "save" /\ Pipeline
      \/ step = "arm" /\ step' = "json" /\ ~Pipeline
      \/ step' = "ended"
  BY <1>1 DEF StudyMoves
<1>5. StepsInOrder'
  BY <1>2, <1>3, <1>4 DEF MovesOn, ThesisTyped, StepsInOrder, ReportSteps, StudySteps, Pipeline
<1>6. \E s : DOMAIN s = StudyFields /\ (study' = Seen(s) \/ study' = s)
  <2>1. \A x, y, z : DOMAIN [NoStudy EXCEPT !.start = x, !.end = y, !.clean = z] = StudyFields
    BY DEF NoStudy, StudyFields
  <2>2. DOMAIN study = StudyFields
    BY DEF ThesisTyped
  <2>3. \A x, y : DOMAIN [[study EXCEPT !.start = x] EXCEPT !.years = y] = StudyFields
    BY <2>2
  <2>4. \A x : DOMAIN [study EXCEPT !.pinned = x] = StudyFields
    BY <2>2
  <2>5. \A x : DOMAIN [study EXCEPT !.arms = Append(@, x)] = StudyFields
    BY <2>2
  <2>6. CASE study' = study
    BY <2>2, <2>6
  <2>7. CASE study' # study
    <3>1. step' # "ended"
      BY <1>1, <2>7 DEF StudyMoves
    <3>2. CASE ReadStart
      <4>1. step' = "clip"
        BY <3>1, <3>2, StartCases DEF StudyMoves
      <4> QED BY <2>1, <3>2, <4>1, StartCases
    <3>3. CASE ClipStart
      <4>1. step' = "pin"
        BY <3>1, <3>3, ClipCases DEF StudyMoves
      <4>2. PICK clipped, years :
              /\ clipped = [study EXCEPT !.start = Larger(@, Now.first[StudyVehicle])]
              /\ study' = Seen([clipped EXCEPT !.years = years])
        BY <3>3, <4>1, ClipCases
      <4> QED BY <2>2, <4>2
    <3>4. CASE PinPrices
      <4>1. step' = "arm"
        BY <3>1, <3>4, PinCases DEF StudyMoves
      <4> QED BY <2>4, <3>4, <4>1, PinCases
    <3>5. CASE ArmEnds
      BY <2>5, <3>1, <3>5, ArmCases
    <3> QED BY <3>2, <3>3, <3>4, <3>5
  <2> QED BY <2>6, <2>7
<1>7. DOMAIN study' = StudyFields
  <2>1. PICK s : DOMAIN s = StudyFields /\ (study' = Seen(s) \/ study' = s)
    BY <1>6
  <2>2. "seen" \in DOMAIN s /\ "clean" \in DOMAIN s
    BY <2>1 DEF StudyFields
  <2> QED BY <2>1, <2>2, SeenIs DEF ThesisTyped
<1> QED BY <1>2, <1>5, <1>7, MovedOn DEF ThesisTyped

LEMMA NoEntryTyped == ASSUME ThesisTyped, NoEntry PROVE ThesisTyped'
<1>1. MovesOn /\ asOf' = asOf /\ gate' = gate /\ draft' = draft /\ study' = study /\ step' = "ended"
  BY DEF NoEntry, MovesOn, Exit, worldVars, waveVars
<1>2. StepsInOrder'
  BY <1>1 DEF StepsInOrder, ReportSteps, StudySteps
<1> QED BY <1>1, <1>2, MovedOn DEF ThesisTyped

LEMMA TypedStep == ThesisTyped /\ [ThesisNext]_thesisVars => ThesisTyped'
<1> SUFFICES ASSUME ThesisTyped, [ThesisNext]_thesisVars PROVE ThesisTyped'
  OBVIOUS
<1>1. CASE UNCHANGED thesisVars
  <2>1. ToSet(entries)' = ToSet(entries) /\ Pipeline' = Pipeline /\ Tried' = Tried
    BY <1>1 DEF thesisVars, ToSet, Pipeline, Tried
  <2>2. StepsInOrder'
    BY <1>1, <2>1 DEF thesisVars, ThesisTyped, StepsInOrder
  <2> QED BY <1>1, <2>1, <2>2 DEF thesisVars, ThesisTyped
<1>2. CASE PublishCatalog \/ BeginRun \/ AskThesis \/ ChooseAsOf \/ PassGate
  BY <1>2, PublishTyped, BeginTyped, AskTyped, AsOfTyped, GateTyped
<1>3. CASE EvidenceEnds \/ TerminalEnds \/ CohortsEnd \/ ReadProxy \/ WriteReport
  BY <1>3, EvidenceTyped, TerminalTyped, CohortsTyped, ProxyTyped, ReportTyped
<1>4. CASE ReadStart \/ ClipStart \/ PinPrices \/ ArmEnds
  BY <1>4, StudyTyped
<1>5. CASE WriteWave \/ NoEntry \/ WritePage \/ WriteJson \/ RecordRun
  BY <1>5, WrittenCases, WrittenTyped, NoEntryTyped
<1> QED BY <1>1, <1>2, <1>3, <1>4, <1>5 DEF ThesisNext

\* What the draft of a report holds when it has seen one catalog only, and
\* which cohorts and which history it rests on in any case.
ByCatalog(c, t, r) ==
  HasTarget(c, t, EvidenceWindow(t)) =>
    r.horizon = TargetYears[t] /\ r.long = CohortsRun(c, t, EvidenceWindow(t), TargetYears[t])
OfTarget(t, r) ==
  r.horizon > 0 =>
    r.long = NoCohorts \/ (r.long.years = TargetYears[t] /\ r.long.end = EvidenceWindow(t).end)
LongEnough(t, r) ==
  /\ r.span \in Int
  /\ r.span = 0 \/ \E i \in r.seen :
       Listed(CatalogOf(i), Vehicle[t]) /\ r.span = Span(ProxyWindow(CatalogOf(i), t))
Single(r, i) == r.clean /\ r.seen = {i}
Evidenced(t, r) ==
  /\ r.seen # {} /\ r.slots \subseteq TrackF
  /\ \A i : Single(r, i) => r.historical = HistoricalMedian(CatalogOf(i), t)
Planned(t, r) == OfTarget(t, r) /\ \A i : Single(r, i) => ByCatalog(CatalogOf(i), t, r)
DraftTrue ==
  /\ step \in {"terminal", "cohorts", "proxy", "write"} => Evidenced(InHand, draft)
  /\ step \in {"terminal", "cohorts"} => draft.long = NoCohorts /\ draft.horizon = 0
  /\ step \in {"terminal", "cohorts", "proxy"} => draft.span = 0
  /\ step \in {"proxy", "write"} => Planned(InHand, draft)
  /\ step = "write" => LongEnough(InHand, draft)

LEMMA SameCase ==
  ASSUME request' = request, asOf' = asOf
  PROVE  /\ \A i : CatalogOf(i)' = CatalogOf(i)
         /\ \A t : EvidenceWindow(t)' = EvidenceWindow(t) /\ HistoryWindow(t)' = HistoryWindow(t)
         /\ \A c, v : Listed(c, v)' <=> Listed(c, v)
         /\ \A c, t : ProxyWindow(c, t)' = ProxyWindow(c, t)
         /\ \A c, t, w : HasTarget(c, t, w)' <=> HasTarget(c, t, w)
         /\ \A c, t : HistoricalMedian(c, t)' = HistoricalMedian(c, t)
         /\ ByExperiment' <=> ByExperiment
<1>1. /\ \A i : CatalogOf(i)' = CatalogOf(i)
      /\ (Pipeline' <=> Pipeline) /\ (ByExperiment' <=> ByExperiment) /\ OwnWindow' = OwnWindow
  BY DEF CatalogOf, Pipeline, ByExperiment, OwnWindow
<1>2. /\ \A t : EvidenceWindow(t)' = EvidenceWindow(t) /\ HistoryWindow(t)' = HistoryWindow(t)
      /\ \A c, v : Listed(c, v)' <=> Listed(c, v)
      /\ \A c, t : ProxyWindow(c, t)' = ProxyWindow(c, t)
  BY <1>1 DEF EvidenceWindow, HistoryWindow, Listed, ProxyWindow
<1>3. \A c, t, w : HasTarget(c, t, w)' <=> HasTarget(c, t, w)
  BY <1>1, <1>2, Zenon DEF HasTarget
<1>4. \A c, t : HistoricalMedian(c, t)' = HistoricalMedian(c, t)
  BY <1>2, <1>3 DEF HistoricalMedian
<1> QED BY <1>1, <1>2, <1>3, <1>4

LEMMA SameDraft ==
  ASSUME request' = request, asOf' = asOf, NEW t, NEW r
  PROVE  /\ \A i : Single(r, i)' <=> Single(r, i)
         /\ Evidenced(t, r)' <=> Evidenced(t, r)
         /\ Planned(t, r)' <=> Planned(t, r)
         /\ LongEnough(t, r)' <=> LongEnough(t, r)
  BY SameCase DEF Single, Evidenced, Planned, OfTarget, ByCatalog, LongEnough

LEMMA DraftStands ==
  ASSUME request' = request, asOf' = asOf, InHand' = InHand,
         step' \in {"terminal", "cohorts", "proxy", "write"} => Evidenced(InHand, draft'),
         step' \in {"terminal", "cohorts"} => draft'.long = NoCohorts /\ draft'.horizon = 0,
         step' \in {"terminal", "cohorts", "proxy"} => draft'.span = 0,
         step' \in {"proxy", "write"} => Planned(InHand, draft'),
         step' = "write" => LongEnough(InHand, draft')
  PROVE  DraftTrue'
<1>1. \A t, r : (Evidenced(t, r)' <=> Evidenced(t, r)) /\ (Planned(t, r)' <=> Planned(t, r)) /\ (LongEnough(t, r)' <=> LongEnough(t, r))
  BY SameDraft
<1>2. Evidenced(InHand, draft') => Evidenced(InHand, draft)'
  BY SameCase DEF Evidenced, Single
<1>3. Planned(InHand, draft') => Planned(InHand, draft)'
  BY SameCase DEF Planned, OfTarget, ByCatalog, Single
<1>4. LongEnough(InHand, draft') => LongEnough(InHand, draft)'
  BY SameCase DEF LongEnough
<1> QED BY <1>2, <1>3, <1>4 DEF DraftTrue

LEMMA SameInHand ==
  ASSUME request' = request, entries' = entries, failures' = failures
  PROVE  InHand' = InHand
  BY DEF InHand, Pipeline

LEMMA EvidenceDrafted == ASSUME ThesisTyped, EvidenceEnds PROVE DraftTrue'
<1>1. step = "evidence" /\ step' = "terminal" /\ begun # 0 /\ DraftMoves /\ failures' = failures
  BY EvidenceTyped DEF EvidenceEnds, MovesOn
<1>2. InHand' = InHand /\ InHand \in Members
  BY <1>1, SameInHand, InHandKnown DEF DraftMoves, ReportSteps
<1>3. begun \in 1 .. Len(Worlds[request.world]) /\ published \in 1 .. Len(Worlds[request.world])
  <2>1. Len(Worlds[request.world]) \in Nat
    BY WorldsAssumption, CasesAssumption DEF ThesisTyped
  <2> QED BY <1>1, <2>1 DEF ThesisTyped
<1>4. CatalogOf(begun).slots[InHand] \subseteq TrackF /\ Now.slots[InHand] \subseteq TrackF
  BY <1>2, <1>3, CatalogTyped DEF ThesisTyped, Now
<1>5. \E d, m : /\ DOMAIN d = DraftFields /\ d.slots \subseteq TrackF /\ d.historical = m
                /\ d.long = NoCohorts /\ d.horizon = 0 /\ d.span = 0 /\ d.seen = {}
                /\ \/ draft' = Unclean(d)
                   \/ draft' = Seen(d) /\ m \in Found(HistoricalMedian(Now, InHand), Ratios \cup {Missing})
  <2>1. \/ \E m \in Found(HistoricalMedian(Now, InHand), Ratios \cup {Missing}),
               found \in SlotsBetween(CatalogOf(begun).slots[InHand], Now.slots[InHand]) :
             draft' = Seen([EmptyDraft EXCEPT !.historical = m, !.slots = found])
        \/ draft' = Unclean([EmptyDraft EXCEPT !.slots = Now.slots[InHand]])
        \/ \E lost \in Now.slots[InHand] :
             draft' = Unclean([EmptyDraft EXCEPT !.historical = HistoricalMedian(Now, InHand), !.slots = Now.slots[InHand] \ {lost}])
    BY Zenon DEF EvidenceEnds
  <2>2. CASE \E m \in Found(HistoricalMedian(Now, InHand), Ratios \cup {Missing}),
               found \in SlotsBetween(CatalogOf(begun).slots[InHand], Now.slots[InHand]) :
             draft' = Seen([EmptyDraft EXCEPT !.historical = m, !.slots = found])
    <3>1. PICK m \in Found(HistoricalMedian(Now, InHand), Ratios \cup {Missing}),
               found \in SlotsBetween(CatalogOf(begun).slots[InHand], Now.slots[InHand]) :
             draft' = Seen([EmptyDraft EXCEPT !.historical = m, !.slots = found])
      BY <2>2
    <3>2. found \subseteq TrackF
      BY <1>4 DEF SlotsBetween
    <3>3. PICK d : d = [EmptyDraft EXCEPT !.historical = m, !.slots = found]
      OBVIOUS
    <3>4. draft' = Seen(d)
      BY <3>1, <3>3
    <3>5. /\ DOMAIN d = DraftFields /\ d.slots = found /\ d.historical = m
          /\ d.long = NoCohorts /\ d.horizon = 0 /\ d.span = 0 /\ d.seen = {}
      BY <3>3 DEF EmptyDraft, DraftFields
    <3> QED BY <3>1, <3>2, <3>4, <3>5
  <2>3. CASE draft' = Unclean([EmptyDraft EXCEPT !.slots = Now.slots[InHand]])
    <3>1. PICK d : d = [EmptyDraft EXCEPT !.slots = Now.slots[InHand]]
      OBVIOUS
    <3>2. draft' = Unclean(d)
      BY <2>3, <3>1
    <3>3. /\ DOMAIN d = DraftFields /\ d.slots = Now.slots[InHand]
          /\ d.long = NoCohorts /\ d.horizon = 0 /\ d.span = 0 /\ d.seen = {}
      BY <3>1 DEF EmptyDraft, DraftFields
    <3> QED BY <1>4, <3>2, <3>3
  <2>4. CASE \E lost \in Now.slots[InHand] :
             draft' = Unclean([EmptyDraft EXCEPT !.historical = HistoricalMedian(Now, InHand), !.slots = Now.slots[InHand] \ {lost}])
    <3>1. PICK m, found : found \subseteq TrackF /\ draft' = Unclean([EmptyDraft EXCEPT !.historical = m, !.slots = found])
      BY <1>4, <2>4
    <3>2. PICK d : d = [EmptyDraft EXCEPT !.historical = m, !.slots = found]
      OBVIOUS
    <3>3. draft' = Unclean(d)
      BY <3>1, <3>2
    <3>4. /\ DOMAIN d = DraftFields /\ d.slots = found
          /\ d.long = NoCohorts /\ d.horizon = 0 /\ d.span = 0 /\ d.seen = {}
      BY <3>2 DEF EmptyDraft, DraftFields
    <3> QED BY <3>1, <3>3, <3>4
  <2> QED BY <2>1, <2>2, <2>3, <2>4
<1>6. PICK d, m : /\ DOMAIN d = DraftFields /\ d.slots \subseteq TrackF /\ d.historical = m
                  /\ d.long = NoCohorts /\ d.horizon = 0 /\ d.span = 0 /\ d.seen = {}
                  /\ \/ draft' = Unclean(d)
                     \/ draft' = Seen(d) /\ m \in Found(HistoricalMedian(Now, InHand), Ratios \cup {Missing})
  BY <1>5
<1>7. /\ draft'.slots \subseteq TrackF /\ draft'.long = NoCohorts /\ draft'.horizon = 0 /\ draft'.span = 0
      /\ draft'.historical = m /\ published \in draft'.seen
      /\ \A i : draft'.seen = {i} => published = i /\ begun = i
      /\ draft'.clean => m \in Found(HistoricalMedian(Now, InHand), Ratios \cup {Missing})
  <2>1. "seen" \in DOMAIN d /\ "clean" \in DOMAIN d /\ {"slots", "long", "horizon", "span", "historical"} \subseteq DOMAIN d \ {"seen", "clean"}
    BY <1>6 DEF DraftFields
  <2>2. /\ \A f \in DOMAIN d \ {"seen"} : Seen(d)[f] = d[f]
        /\ \A f \in DOMAIN d \ {"seen", "clean"} : Unclean(d)[f] = d[f]
        /\ Unclean(d).clean = FALSE /\ Unclean(d).seen = Seen(d).seen /\ published \in Seen(d).seen
        /\ \A i : Seen(d).seen = {i} => published = i /\ (begun # 0 => begun = i)
    BY <2>1, SeenIs DEF ThesisTyped
  <2>3. draft' = Unclean(d) \/ (draft' = Seen(d) /\ m \in Found(HistoricalMedian(Now, InHand), Ratios \cup {Missing}))
    BY <1>6
  <2>4. /\ draft'.seen = Seen(d).seen /\ draft'["slots"] = d["slots"] /\ draft'["long"] = d["long"]
        /\ draft'["horizon"] = d["horizon"] /\ draft'["span"] = d["span"] /\ draft'["historical"] = d["historical"]
    BY <2>1, <2>2, <2>3
  <2>5. draft'.clean => m \in Found(HistoricalMedian(Now, InHand), Ratios \cup {Missing})
    BY <2>2, <2>3
  <2> QED BY <1>1, <1>6, <2>2, <2>4, <2>5
<1>8. Evidenced(InHand, draft')
  <2>1. ASSUME NEW i, Single(draft', i) PROVE draft'.historical = HistoricalMedian(CatalogOf(i), InHand)
    <3>1. published = i /\ begun = i /\ m \in Found(HistoricalMedian(Now, InHand), Ratios \cup {Missing})
      BY <1>7, <2>1 DEF Single
    <3> QED BY <1>7, <3>1 DEF Found, Now
  <2> QED BY <1>7, <2>1 DEF Evidenced
<1> QED BY <1>1, <1>2, <1>7, <1>8, DraftStands DEF DraftMoves

LEMMA TerminalDrafted == ASSUME ThesisTyped, DraftTrue, TerminalEnds PROVE DraftTrue'
<1>1. CASE step' # "cohorts"
  <2>1. step' \in {"ended", "wave", "evidence"}
    BY <1>1, TerminalCases DEF NextThesis
  <2> QED BY <2>1 DEF DraftTrue
<1>2. CASE step' = "cohorts"
  <2>1. /\ step = "terminal" /\ request' = request /\ asOf' = asOf /\ entries' = entries /\ failures' = failures
        /\ (\E x : draft' = Seen([draft EXCEPT !.terminal = x])) \/ draft' = Unclean(draft)
    BY <1>2, TerminalCases DEF NextThesis
  <2>2. InHand' = InHand
    BY <2>1, SameInHand
  <2>3. PICK x : draft' = Seen([draft EXCEPT !.terminal = x]) \/ draft' = Unclean(draft)
    BY <2>1
  <2>4. PICK d : d = IF draft' = Unclean(draft) THEN draft ELSE [draft EXCEPT !.terminal = x]
    OBVIOUS
  <2>5. DOMAIN draft = DraftFields
    BY DEF ThesisTyped
  <2>6. /\ DOMAIN d = DraftFields /\ d.slots = draft.slots /\ d.long = draft.long /\ d.horizon = draft.horizon
        /\ d.span = draft.span /\ d.historical = draft.historical /\ d.seen = draft.seen /\ d.clean = draft.clean
        /\ draft' = Seen(d) \/ draft' = Unclean(d)
    BY <2>3, <2>4, <2>5 DEF DraftFields
  <2>7. "seen" \in DOMAIN d /\ "clean" \in DOMAIN d /\ {"slots", "long", "horizon", "span", "historical"} \subseteq DOMAIN d \ {"seen", "clean"}
    BY <2>6 DEF DraftFields
  <2>8. /\ \A f \in DOMAIN d \ {"seen"} : Seen(d)[f] = d[f]
        /\ \A f \in DOMAIN d \ {"seen", "clean"} : Unclean(d)[f] = d[f]
        /\ Unclean(d).clean = FALSE /\ Unclean(d).seen = Seen(d).seen /\ published \in Seen(d).seen /\ d.seen \subseteq Seen(d).seen
    BY <2>7, SeenIs DEF ThesisTyped
  <2>9. /\ draft'.seen = Seen(d).seen /\ draft'["slots"] = d["slots"] /\ draft'["long"] = d["long"]
        /\ draft'["horizon"] = d["horizon"] /\ draft'["span"] = d["span"] /\ draft'["historical"] = d["historical"]
        /\ draft'.clean => d["clean"]
    BY <2>6, <2>7, <2>8
  <2>10. Evidenced(InHand, draft) /\ draft.long = NoCohorts /\ draft.horizon = 0 /\ draft.span = 0
    BY <2>1 DEF DraftTrue
  <2>11. \A i : Single(draft', i) => Single(draft, i)
    BY <2>6, <2>8, <2>9, <2>10 DEF Single, Evidenced
  <2>12. Evidenced(InHand, draft')
    BY <2>6, <2>8, <2>9, <2>10, <2>11 DEF Evidenced
  <2> QED BY <1>2, <2>1, <2>2, <2>6, <2>9, <2>10, <2>12, DraftStands
<1> QED BY <1>1, <1>2

LEMMA CohortsDrafted == ASSUME ThesisTyped, DraftTrue, CohortsEnd PROVE DraftTrue'
<1>1. step = "cohorts" /\ step' = "proxy" /\ begun # 0 /\ DraftMoves /\ failures' = failures
  BY CohortsTyped DEF CohortsEnd, MovesOn
<1>2. InHand' = InHand /\ InHand \in Members
  BY <1>1, SameInHand, InHandKnown DEF DraftMoves, ReportSteps
<1>3. PICK t : t = InHand
  OBVIOUS
<1>4. TargetYears[t] \in Nat \ {0}
  BY <1>2, <1>3, ThesesAssumption DEF Members
<1>5. PICK c \in {CatalogOf(i) : i \in begun .. published} :
             LET target == HasTarget(c, t, EvidenceWindow(t))
                 years == IF target THEN TargetYears[t] ELSE Longest(Feasible(t, SurfaceWindow(c, t)))
                 planned == [draft EXCEPT !.horizon = IF target THEN years ELSE 0,
                                          !.surface = SurfaceOf(t, SurfaceWindow(c, t)) # {}]
             IN  \/ draft' = Unclean(planned)
                 \/ \E run \in Found(CohortsRun(c, t, EvidenceWindow(t), years), MixedRuns(EvidenceWindow(t), years)) :
                      draft' = Seen([planned EXCEPT !.long = run])
  BY <1>3, Zenon DEF CohortsEnd
<1>6. PICK k \in begun .. published : c = CatalogOf(k)
  OBVIOUS
<1>7. PICK target : target = HasTarget(c, t, EvidenceWindow(t))
  OBVIOUS
<1>8. PICK years : years = IF target THEN TargetYears[t] ELSE Longest(Feasible(t, SurfaceWindow(c, t)))
  OBVIOUS
<1>9. PICK planned : planned = [draft EXCEPT !.horizon = IF target THEN years ELSE 0,
                                              !.surface = SurfaceOf(t, SurfaceWindow(c, t)) # {}]
  OBVIOUS
<1>10. PICK w : w = EvidenceWindow(t)
  OBVIOUS
<1>11. \/ draft' = Unclean(planned)
       \/ \E run \in Found(CohortsRun(c, t, w, years), MixedRuns(w, years)) :
            draft' = Seen([planned EXCEPT !.long = run])
  BY <1>5, <1>7, <1>8, <1>9, <1>10, Zenon
<1>12. draft.long = NoCohorts /\ draft.span = 0 /\ Evidenced(t, draft) /\ DOMAIN draft = DraftFields
  BY <1>1, <1>3 DEF DraftTrue, ThesisTyped
<1>13. PICK d, run :
        /\ DOMAIN d = DraftFields /\ d.horizon = (IF target THEN years ELSE 0) /\ d.long = run
        /\ d.slots = draft.slots /\ d.historical = draft.historical /\ d.span = draft.span
        /\ d.seen = draft.seen /\ d.clean = draft.clean
        /\ \/ draft' = Unclean(d) /\ run = NoCohorts
           \/ draft' = Seen(d) /\ run \in Found(CohortsRun(c, t, w, years), MixedRuns(w, years))
  <2>2. /\ DOMAIN planned = DraftFields /\ planned.horizon = (IF target THEN years ELSE 0) /\ planned.long = NoCohorts
        /\ planned.slots = draft.slots /\ planned.historical = draft.historical /\ planned.span = draft.span
        /\ planned.seen = draft.seen /\ planned.clean = draft.clean
    BY <1>12, <1>9 DEF DraftFields
  <2>3. CASE draft' = Unclean(planned)
    BY <2>2, <2>3
  <2>4. CASE \E run \in Found(CohortsRun(c, t, w, years), MixedRuns(w, years)) :
               draft' = Seen([planned EXCEPT !.long = run])
    <3>1. PICK run \in Found(CohortsRun(c, t, w, years), MixedRuns(w, years)) :
               draft' = Seen([planned EXCEPT !.long = run])
      BY <2>4
    <3>2. PICK d : d = [planned EXCEPT !.long = run]
      OBVIOUS
    <3>3. /\ DOMAIN d = DraftFields /\ d.horizon = (IF target THEN years ELSE 0) /\ d.long = run
          /\ d.slots = draft.slots /\ d.historical = draft.historical /\ d.span = draft.span
          /\ d.seen = draft.seen /\ d.clean = draft.clean
      BY <2>2, <3>2 DEF DraftFields
    <3> QED BY <3>1, <3>2, <3>3
  <2> QED BY <1>11, <2>3, <2>4
<1>14. /\ draft'.slots = d.slots /\ draft'.long = run /\ draft'.horizon = d.horizon /\ draft'.span = d.span
      /\ draft'.historical = d.historical /\ d.seen \subseteq draft'.seen /\ published \in draft'.seen
      /\ \A i : draft'.seen = {i} => published = i /\ begun = i
      /\ \/ draft'.clean = FALSE
         \/ draft'.clean = d.clean /\ run \in Found(CohortsRun(c, t, w, years), MixedRuns(w, years))
  <2>1. "seen" \in DOMAIN d /\ "clean" \in DOMAIN d /\ {"slots", "long", "horizon", "span", "historical"} \subseteq DOMAIN d \ {"seen", "clean"}
        /\ "clean" \in DOMAIN d \ {"seen"}
    BY <1>13 DEF DraftFields
  <2>2. /\ \A f \in DOMAIN d \ {"seen"} : Seen(d)[f] = d[f]
        /\ \A f \in DOMAIN d \ {"seen", "clean"} : Unclean(d)[f] = d[f]
        /\ Unclean(d).clean = FALSE /\ Unclean(d).seen = Seen(d).seen /\ published \in Seen(d).seen /\ d.seen \subseteq Seen(d).seen
        /\ \A i : Seen(d).seen = {i} => published = i /\ (begun # 0 => begun = i)
    BY <2>1, SeenIs DEF ThesisTyped
  <2>3. draft' = Unclean(d) \/ (draft' = Seen(d) /\ run \in Found(CohortsRun(c, t, w, years), MixedRuns(w, years)))
    BY <1>13
  <2>4. /\ draft'.seen = Seen(d).seen /\ draft'["slots"] = d["slots"] /\ draft'["long"] = d["long"]
        /\ draft'["horizon"] = d["horizon"] /\ draft'["span"] = d["span"] /\ draft'["historical"] = d["historical"]
    BY <2>1, <2>2, <2>3
  <2>5. \/ draft'["clean"] = FALSE
        \/ draft'["clean"] = d["clean"] /\ run \in Found(CohortsRun(c, t, w, years), MixedRuns(w, years))
    BY <2>1, <2>2, <2>3
  <2> QED BY <1>1, <1>13, <2>2, <2>4, <2>5
<1>15. \A i : Single(draft', i) => Single(draft, i) /\ published = i /\ begun = i
  <2>1. draft.seen # {} /\ d.seen = draft.seen /\ d.clean = draft.clean
    BY <1>12, <1>13 DEF Evidenced
  <2> QED BY <1>14, <2>1 DEF Single
<1>16. Evidenced(t, draft')
  BY <1>12, <1>13, <1>14, <1>15 DEF Evidenced
<1>17. run = NoCohorts \/ (run.years = years /\ run.end = w.end)
  <2>1. CohortsRun(c, t, w, years) = NoCohorts
               \/ (CohortsRun(c, t, w, years).years = years /\ CohortsRun(c, t, w, years).end = w.end)
    BY DEF CohortsRun
  <2>2. \A r \in MixedRuns(w, years) : r = NoCohorts \/ (r.years = years /\ r.end = w.end)
    BY DEF MixedRuns
  <2> QED BY <1>13, <2>1, <2>2 DEF Found
<1>18. OfTarget(t, draft')
  <2>1. ASSUME draft'.horizon > 0 PROVE target /\ years = TargetYears[t]
    BY <1>13, <1>14, <1>8, <2>1
  <2> QED BY <1>10, <1>14, <1>17, <2>1 DEF OfTarget
<1>19. ASSUME NEW i, Single(draft', i) PROVE ByCatalog(CatalogOf(i), t, draft')
  <2>1. published = i /\ begun = i /\ k = i
    BY <1>15, <1>19 DEF ThesisTyped
  <2>2. run = CohortsRun(CatalogOf(i), t, w, years)
    <3>1. draft'.clean /\ begun = published /\ c = CatalogOf(i)
      BY <1>19, <1>6, <2>1 DEF Single
    <3>2. run \in Found(CohortsRun(c, t, w, years), MixedRuns(w, years))
      BY <1>14, <1>19 DEF Single
    <3> QED BY <3>1, <3>2 DEF Found
  <2>3. target => draft'.horizon = years /\ years = TargetYears[t]
    BY <1>13, <1>14, <1>8
  <2>4. c = CatalogOf(i) /\ draft'.long = run
    BY <1>14, <1>6, <2>1
  <2> QED BY <1>10, <1>7, <2>2, <2>3, <2>4 DEF ByCatalog
<1>20. Planned(t, draft')
  BY <1>18, <1>19 DEF Planned
<1>21. draft'.span = 0
  BY <1>12, <1>13, <1>14
<1> QED BY <1>1, <1>2, <1>3, <1>16, <1>20, <1>21, DraftStands DEF DraftMoves

LEMMA ProxyDrafted == ASSUME ThesisTyped, DraftTrue, ReadProxy PROVE DraftTrue'
<1>1. step = "proxy" /\ step' = "write" /\ DraftMoves /\ failures' = failures
  BY ProxyTyped DEF ReadProxy, MovesOn
<1>2. InHand' = InHand
  BY <1>1, SameInHand DEF DraftMoves
<1>3. PICK t : t = InHand
  OBVIOUS
<1>4. Evidenced(t, draft) /\ Planned(t, draft) /\ draft.span = 0 /\ DOMAIN draft = DraftFields
  BY <1>1, <1>3 DEF DraftTrue, ThesisTyped
<1>5. PICK d :
        /\ DOMAIN d = DraftFields /\ d.horizon = draft.horizon /\ d.long = draft.long
        /\ d.slots = draft.slots /\ d.historical = draft.historical
        /\ d.seen = draft.seen /\ d.clean = draft.clean
        /\ d.span \in Int /\ (d.span = 0 \/ (Listed(Now, Vehicle[t]) /\ d.span = Span(ProxyWindow(Now, t))))
        /\ draft' = Unclean(d) \/ draft' = Seen(d)
  <2>1. \/ Listed(Now, Vehicle[t]) /\ \E u : draft' = Seen([draft EXCEPT !.span = Span(ProxyWindow(Now, t)), !.eligible = u])
        \/ draft' = Seen(draft)
        \/ draft' = Unclean(draft)
    BY <1>3, Zenon DEF ReadProxy
  <2>2. CASE Listed(Now, Vehicle[t]) /\ \E u : draft' = Seen([draft EXCEPT !.span = Span(ProxyWindow(Now, t)), !.eligible = u])
    <3>1. PICK u : draft' = Seen([draft EXCEPT !.span = Span(ProxyWindow(Now, t)), !.eligible = u])
      BY <2>2
    <3>2. PICK d : d = [draft EXCEPT !.span = Span(ProxyWindow(Now, t)), !.eligible = u]
      OBVIOUS
    <3>3. /\ DOMAIN d = DraftFields /\ d.horizon = draft.horizon /\ d.long = draft.long
          /\ d.slots = draft.slots /\ d.historical = draft.historical
          /\ d.seen = draft.seen /\ d.clean = draft.clean /\ d.span = Span(ProxyWindow(Now, t))
      BY <1>4, <3>2 DEF DraftFields
    <3>4. published \in 1 .. Len(Worlds[request.world]) /\ t \in Members
      <4>1. Len(Worlds[request.world]) \in Nat
        BY WorldsAssumption, CasesAssumption DEF ThesisTyped
      <4> QED BY <1>1, <1>3, <4>1, InHandKnown DEF ThesisTyped, ReportSteps
    <3>5. Now.last \in Nat /\ Now.first[Vehicle[t]] \in Nat
      BY <2>2, <3>4, CatalogTyped DEF ThesisTyped, Now, Listed
    <3>6. Span(ProxyWindow(Now, t)) \in Int
      BY <3>5 DEF Span, ProxyWindow, ThesisTyped
    <3> QED BY <2>2, <3>1, <3>2, <3>3, <3>6
  <2>3. CASE draft' = Seen(draft) \/ draft' = Unclean(draft)
    <3>1. draft.span \in Int /\ draft.span = 0
      BY <1>4
    <3> QED BY <1>4, <2>3, <3>1
  <2> QED BY <2>1, <2>2, <2>3
<1>6. /\ draft'.slots = d.slots /\ draft'.long = d.long /\ draft'.horizon = d.horizon /\ draft'.span = d.span
      /\ draft'.historical = d.historical /\ d.seen \subseteq draft'.seen /\ published \in draft'.seen
      /\ draft'.clean => d.clean
  <2>1. "seen" \in DOMAIN d /\ "clean" \in DOMAIN d /\ {"slots", "long", "horizon", "span", "historical"} \subseteq DOMAIN d \ {"seen", "clean"}
        /\ "clean" \in DOMAIN d \ {"seen"}
    BY <1>5 DEF DraftFields
  <2>2. /\ \A f \in DOMAIN d \ {"seen"} : Seen(d)[f] = d[f]
        /\ \A f \in DOMAIN d \ {"seen", "clean"} : Unclean(d)[f] = d[f]
        /\ Unclean(d).clean = FALSE /\ Unclean(d).seen = Seen(d).seen /\ published \in Seen(d).seen /\ d.seen \subseteq Seen(d).seen
    BY <2>1, SeenIs DEF ThesisTyped
  <2>4. /\ draft'.seen = Seen(d).seen /\ draft'["slots"] = d["slots"] /\ draft'["long"] = d["long"]
        /\ draft'["horizon"] = d["horizon"] /\ draft'["span"] = d["span"] /\ draft'["historical"] = d["historical"]
        /\ draft'.clean => d["clean"]
    BY <1>5, <2>1, <2>2
  <2> QED BY <2>2, <2>4
<1>7. \A i : Single(draft', i) => Single(draft, i)
  <2>1. draft.seen # {} /\ d.seen = draft.seen /\ d.clean = draft.clean
    BY <1>4, <1>5 DEF Evidenced
  <2> QED BY <1>6, <2>1 DEF Single
<1>8. Evidenced(t, draft')
  BY <1>4, <1>5, <1>6, <1>7 DEF Evidenced
<1>9. Planned(t, draft')
  BY <1>4, <1>5, <1>6, <1>7 DEF Planned, OfTarget, ByCatalog
<1>10. LongEnough(t, draft')
  BY <1>5, <1>6 DEF LongEnough, Now
<1> QED BY <1>1, <1>2, <1>3, <1>8, <1>9, <1>10, DraftStands DEF DraftMoves

LEMMA DraftStep == ASSUME ThesisTyped, DraftTrue, [ThesisNext]_thesisVars PROVE DraftTrue'
<1>1. CASE UNCHANGED thesisVars \/ PublishCatalog \/ BeginRun
  <2>1. /\ request' = request /\ asOf' = asOf /\ entries' = entries /\ failures' = failures
        /\ draft' = draft /\ step' = step
    BY <1>1 DEF thesisVars, PublishCatalog, BeginRun, worldVars, waveVars
  <2>2. InHand' = InHand
    BY <2>1, SameInHand
  <2> QED BY <2>1, <2>2, DraftStands DEF DraftTrue
<1>2. CASE EvidenceEnds \/ TerminalEnds \/ CohortsEnd \/ ReadProxy
  BY <1>2, EvidenceDrafted, TerminalDrafted, CohortsDrafted, ProxyDrafted
<1>3. CASE WriteReport
  <2>1. step' \in {"ended", "wave", "evidence"}
    BY <1>3, ReportCases DEF NextThesis
  <2> QED BY <2>1 DEF DraftTrue
<1>4. CASE AskThesis \/ ChooseAsOf \/ PassGate \/ NoEntry
  <2>1. step' \in {"ended", "gate", "as_of", "evidence", "start"}
    BY <1>4, Zenon DEF AskThesis, ChooseAsOf, PassGate, NoEntry, Exit, GoTo
  <2> QED BY <2>1 DEF DraftTrue
<1>5. CASE ReadStart \/ ClipStart \/ PinPrices \/ ArmEnds
  <2>1. step' \in {"ended", "clip", "pin", "arm", "save", "json"}
    BY <1>5, StartCases, ClipCases, PinCases, ArmCases DEF StudyMoves
  <2> QED BY <2>1 DEF DraftTrue
<1>6. CASE WriteWave \/ WritePage \/ WriteJson \/ RecordRun
  <2>1. step' \in {"ended", "start", "json", "record"}
    BY <1>6, WrittenCases DEF Written
  <2> QED BY <2>1 DEF DraftTrue
<1> QED BY <1>1, <1>2, <1>3, <1>4, <1>5, <1>6 DEF ThesisNext

\* A panel the gate let pass.
PanelAllows ==
  \/ gate.status = "FRESH"
  \/ gate.status = "STALE" /\ request.allowStale
  \/ gate.status = "HARD_STOP_ACK" /\ gate.asOf =< AcknowledgedTo
GateKept == request.command # "report" /\ (PastGate \/ files # {}) => PanelAllows

LEMMA GateStands ==
  ASSUME ThesisTyped, GateKept, request' = request, gate' = gate,
         files' = files \/ PastGate, PastGate' => PastGate
  PROVE  GateKept'
<1>1. PanelAllows' <=> PanelAllows
  BY DEF PanelAllows
<1> QED BY <1>1 DEF GateKept

LEMMA GateStep == ASSUME ThesisTyped, GateKept, [ThesisNext]_thesisVars PROVE GateKept'
<1>1. CASE UNCHANGED thesisVars \/ PublishCatalog \/ BeginRun
  <2>1. request' = request /\ gate' = gate /\ files' = files /\ step' = step
    BY <1>1 DEF thesisVars, PublishCatalog, BeginRun, worldVars, waveVars
  <2>2. PastGate' => PastGate
    BY <2>1 DEF PastGate, Pipeline
  <2> QED BY <2>1, <2>2, GateStands
<1>2. CASE AskThesis
  <2>1. /\ request' = request /\ gate' = gate /\ files' = files
        /\ step' = "ended" \/ (step' = IF Pipeline THEN "gate" ELSE "as_of")
    BY <1>2 DEF AskThesis, worldVars, Exit, GoTo
  <2>2. ~PastGate'
    BY <2>1 DEF PastGate, Pipeline, ReportSteps, StudySteps
  <2> QED BY <2>1, <2>2, GateStands
<1>3. CASE ChooseAsOf
  <2>1. request' = request /\ gate' = gate /\ files' = files /\ step = "as_of"
    BY <1>3 DEF ChooseAsOf, worldVars
  <2>2. step' = "ended" \/ step' = IF request.command = "incremental" THEN "gate" ELSE "evidence"
    BY <1>3, Zenon DEF ChooseAsOf, Exit, GoTo
  <2>3. CASE request.command = "report"
    BY <2>1, <2>3 DEF GateKept
  <2>4. CASE request.command # "report"
    <3>1. request.command \in {"report", "incremental", "pipeline"}
      BY CasesAssumption DEF ThesisTyped
    <3>2. PastGate' => PastGate
      BY <2>1, <2>2, <2>4, <3>1 DEF PastGate, Pipeline, ReportSteps, StudySteps
    <3> QED BY <2>1, <3>2, GateStands
  <2> QED BY <2>3, <2>4
<1>4. CASE PassGate
  <2>1. step = "gate" /\ request' = request /\ files' = files /\ files = {}
    BY <1>4 DEF PassGate, worldVars, ThesisTyped, StepsInOrder
  <2>2. PICK p : p = Now.panel
    OBVIOUS
  <2>3. p \in [asOf : Nat, status : PanelStatuses]
    <3>1. published \in 1 .. Len(Worlds[request.world])
      BY WorldsAssumption, CasesAssumption DEF ThesisTyped
    <3> QED BY <2>2, <3>1, CatalogTyped DEF ThesisTyped, Now
  <2>4. \/ step' = "ended"
        \/ ~Refuses(p) /\ gate' = [p EXCEPT !.status = IF Acknowledged(p) THEN "HARD_STOP_ACK" ELSE @]
    BY <1>4, <2>2, Zenon DEF PassGate, Exit
  <2>5. CASE step' = "ended"
    BY <2>1, <2>5 DEF GateKept, PastGate, ReportSteps, StudySteps
  <2>6. CASE ~Refuses(p) /\ gate' = [p EXCEPT !.status = IF Acknowledged(p) THEN "HARD_STOP_ACK" ELSE @]
    <3>1. gate'.asOf = p.asOf /\ gate'.status = IF Acknowledged(p) THEN "HARD_STOP_ACK" ELSE p.status
      BY <2>3, <2>6
    <3>2. p.status \in PanelStatuses
      BY <2>3
    <3>3. PanelAllows'
      BY <2>1, <2>6, <3>1, <3>2 DEF PanelAllows, Refuses, Acknowledged, PanelStatuses
    <3> QED BY <3>3 DEF GateKept
  <2> QED BY <2>4, <2>5, <2>6
<1>5. CASE EvidenceEnds \/ CohortsEnd \/ ReadProxy
  <2>1. request' = request /\ gate' = gate /\ files' = files /\ step \in ReportSteps
    BY <1>5, EvidenceTyped, CohortsTyped, ProxyTyped DEF DraftMoves, EvidenceEnds, CohortsEnd, ReadProxy, ReportSteps
  <2>2. PastGate
    BY <2>1 DEF PastGate
  <2> QED BY <2>1, <2>2, GateStands
<1>6. CASE TerminalEnds \/ WriteReport
  <2>1. request' = request /\ gate' = gate /\ step \in ReportSteps
    BY <1>6, TerminalCases, ReportCases DEF ReportSteps
  <2>2. PastGate
    BY <2>1 DEF PastGate
  <2> QED BY <2>1, <2>2, GateStands
<1>7. CASE ReadStart \/ ClipStart \/ PinPrices \/ ArmEnds
  <2>1. request' = request /\ gate' = gate /\ step \in StudySteps
    BY <1>7, StartCases, ClipCases, PinCases, ArmCases DEF StudyMoves, StudySteps
  <2>2. PastGate
    BY <2>1 DEF PastGate
  <2> QED BY <2>1, <2>2, GateStands
<1>8. CASE WriteWave \/ NoEntry \/ WritePage \/ WriteJson \/ RecordRun
  <2>1. request' = request /\ gate' = gate /\ step \in StudySteps \cup {"wave"}
    BY <1>8, WrittenCases DEF Written, NoEntry, worldVars, StudySteps
  <2>2. PastGate
    BY <2>1 DEF PastGate
  <2> QED BY <2>1, <2>2, GateStands
<1> QED BY <1>1, <1>2, <1>3, <1>4, <1>5, <1>6, <1>7, <1>8 DEF ThesisNext

\* What has been written when, and the exit code.
FilesKept ==
  /\ step # "ended" => code = Missing /\ <<"row">> \notin files
  /\ step # "ended" /\ request.command = "report" => files = {}
  /\ code = 0 <=> (<<"row">> \in files \/ (request.command = "report" /\ files # {}))
  /\ <<"wave">> \in files => Pipeline /\ Tried = Len(Theses)
  /\ Pipeline /\ step \in StudySteps => <<"wave">> \in files
  /\ <<"page">> \in files => Assessed # {} /\ <<"wave">> \in files
  /\ Pipeline /\ step \in {"json", "record"} => <<"page">> \in files
  /\ step = "record" => <<"json">> \in files
  /\ <<"row">> \in files => <<"json">> \in files /\ (Pipeline => <<"wave">> \in files /\ <<"page">> \in files)

LEMMA FileNames ==
  /\ \A t, f : <<"report", t>> # <<f>>
  /\ \A f, g : <<f>> = <<g>> => f = g
<1>1. ASSUME NEW t, NEW f PROVE <<"report", t>> # <<f>>
  <2>1. Len(<<"report", t>>) = 2 /\ Len(<<f>>) = 1
    OBVIOUS
  <2> QED BY <2>1
<1>2. ASSUME NEW f, NEW g, <<f>> = <<g>> PROVE f = g
  <2>1. <<f>>[1] = f /\ <<g>>[1] = g
    OBVIOUS
  <2> QED BY <1>2, <2>1
<1> QED BY <1>1, <1>2

\* A step that writes nothing, and fails or goes on.
LEMMA FilesStand ==
  ASSUME FilesKept, request' = request, files' = files, entries' = entries, failures' = failures,
         \/ step' = step /\ code' = code
         \/ step # "ended" /\ step' # "ended" /\ code' = code
         \/ step # "ended" /\ step' = "ended" /\ code' \in {1, 2},
         step' \in StudySteps /\ Pipeline => step \in StudySteps,
         step' \in {"json", "record"} => step' = step \/ (step' = "json" /\ ~Pipeline)
  PROVE  FilesKept'
<1>1. Pipeline' = Pipeline /\ Tried' = Tried /\ Assessed' = Assessed
  BY DEF Pipeline, Tried, Assessed, ToSet
<1> QED BY <1>1 DEF FilesKept, Missing

LEMMA TerminalFiled == ASSUME ThesisTyped, FilesKept, TerminalEnds PROVE FilesKept'
<1>1. /\ step = "terminal" /\ request' = request /\ files' = files /\ entries' = entries
      /\ \/ step' = "cohorts" /\ failures' = failures /\ code' = code
         \/ step' = "ended" /\ failures' = failures /\ code' = 1
         \/ step' = NextThesis /\ code' = code /\ failures' = Append(failures, InHand) /\ Pipeline
  BY TerminalCases DEF NextThesis
<1>2. CASE failures' = failures
  <2>1. step' \notin StudySteps
    BY <1>1 DEF NextThesis, StudySteps
  <2>2. step' # "ended" => code' = code
    BY <1>1
  <2>3. step' = "ended" => code' = 1
    BY <1>1 DEF NextThesis
  <2> QED BY <1>1, <1>2, <2>1, <2>2, <2>3, FilesStand DEF StudySteps
<1>3. CASE step' = NextThesis /\ code' = code /\ Pipeline
  <2>1. step' \in {"wave", "evidence"} /\ Pipeline'
    BY <1>1, <1>3 DEF NextThesis, Pipeline
  <2>2. <<"wave">> \notin files
    <3>1. Tried < Len(Theses) /\ Tried \in Nat /\ Len(Theses) \in Nat
      BY <1>1, <1>3, ThesesAssumption DEF ThesisTyped, StepsInOrder, ReportSteps, Tried
    <3> QED BY <3>1 DEF FilesKept
  <2>3. request.command # "report"
    BY <1>3 DEF Pipeline
  <2>4. <<"page">> \notin files /\ <<"row">> \notin files /\ code = Missing
    BY <1>1, <2>2 DEF FilesKept
  <2> QED BY <1>1, <1>3, <2>1, <2>2, <2>3, <2>4 DEF FilesKept, StudySteps, Missing
<1> QED BY <1>1, <1>2, <1>3

LEMMA ReportFiled == ASSUME ThesisTyped, FilesKept, WriteReport PROVE FilesKept'
<1>1. step = "write" /\ request' = request /\ code = Missing /\ <<"row">> \notin files
  BY ReportCases DEF FilesKept
<1>2. Pipeline => <<"wave">> \notin files
  <2>1. Pipeline => Tried < Len(Theses) /\ Tried \in Nat /\ Len(Theses) \in Nat
    BY <1>1, ThesesAssumption DEF ThesisTyped, StepsInOrder, ReportSteps, Tried
  <2> QED BY <2>1 DEF FilesKept
<1>3. <<"wave">> \notin files /\ <<"page">> \notin files
  BY <1>2 DEF FilesKept
<1>4. Pipeline' = Pipeline
  BY <1>1 DEF Pipeline
<1>5. CASE step' = "ended" /\ code' = 1 /\ files' = files
  BY <1>1, <1>3, <1>5 DEF FilesKept, StudySteps
<1>6. CASE files' = files \cup {<<"report", InHand>>} /\ Pipeline /\ step' = NextThesis /\ code' = code
  <2>1. <<"wave">> \notin files' /\ <<"page">> \notin files' /\ <<"row">> \notin files'
    BY <1>1, <1>3, <1>6, FileNames
  <2>2. step' \in {"wave", "evidence"} /\ request.command # "report"
    BY <1>6 DEF NextThesis, Pipeline
  <2> QED BY <1>1, <1>6, <2>1, <2>2 DEF FilesKept, StudySteps, Missing
<1>7. CASE files' = files \cup {<<"report", InHand>>} /\ ~Pipeline /\ step' = "ended" /\ code' = 0
  <2>1. <<"wave">> \notin files' /\ <<"page">> \notin files' /\ <<"row">> \notin files' /\ files' # {}
    BY <1>1, <1>3, <1>7, FileNames
  <2>2. request.command = "report"
    BY <1>1, <1>7, CasesAssumption DEF ThesisTyped, StepsInOrder, ReportSteps, Pipeline
  <2> QED BY <1>1, <1>4, <1>7, <2>1, <2>2 DEF FilesKept, StudySteps
<1> QED BY <1>5, <1>6, <1>7, ReportCases

LEMMA WrittenFiled ==
  ASSUME ThesisTyped, FilesKept,
         \/ Written("wave", "wave", "start", code)
         \/ Written("save", "page", "json", code) /\ Assessed # {}
         \/ Written("json", "json", "record", code)
         \/ Written("record", "row", "ended", 0)
  PROVE  FilesKept'
<1>1. request' = request /\ entries' = entries /\ failures' = failures
  BY DEF Written
<1>2. Pipeline' = Pipeline /\ Tried' = Tried /\ Assessed' = Assessed
  BY <1>1 DEF Pipeline, Tried, Assessed, ToSet
<1>3. step \in {"wave", "save", "json", "record"} /\ code = Missing /\ <<"row">> \notin files
      /\ request.command # "report"
  BY DEF Written, FilesKept, ThesisTyped, StepsInOrder, StudySteps
<1>4. CASE files' = files /\ step' = "ended" /\ code' = 1
  BY <1>1, <1>2, <1>3, <1>4 DEF FilesKept, StudySteps
<1>5. CASE step = "wave" /\ files' = files \cup {<<"wave">>} /\ step' = "start" /\ code' = code
  <2>1. Pipeline /\ Tried = Len(Theses)
    BY <1>5 DEF ThesisTyped, StepsInOrder
  <2>2. <<"row">> \notin files'
    BY <1>3, <1>5, FileNames
  <2> QED BY <1>1, <1>2, <1>3, <1>5, <2>1, <2>2, FileNames DEF FilesKept, StudySteps, Missing
<1>6. CASE step = "save" /\ files' = files \cup {<<"page">>} /\ step' = "json" /\ code' = code /\ Assessed # {}
  <2>1. <<"row">> \notin files'
    BY <1>3, <1>6, FileNames
  <2>2. Pipeline /\ <<"wave">> \in files
    BY <1>6 DEF ThesisTyped, StepsInOrder, FilesKept, StudySteps
  <2> QED BY <1>1, <1>2, <1>3, <1>6, <2>1, <2>2 DEF FilesKept, StudySteps, Missing
<1>7. CASE step = "json" /\ files' = files \cup {<<"json">>} /\ step' = "record" /\ code' = code
  <2>1. <<"row">> \notin files' /\ (<<"wave">> \in files' <=> <<"wave">> \in files) /\ (<<"page">> \in files' <=> <<"page">> \in files)
    BY <1>3, <1>7, FileNames
  <2> QED BY <1>1, <1>2, <1>3, <1>7, <2>1 DEF FilesKept, StudySteps, Missing
<1>8. CASE step = "record" /\ files' = files \cup {<<"row">>} /\ step' = "ended" /\ code' = 0
  <2>1. <<"row">> \in files' /\ (<<"wave">> \in files' <=> <<"wave">> \in files) /\ (<<"page">> \in files' <=> <<"page">> \in files)
        /\ <<"json">> \in files'
    BY <1>8, FileNames DEF FilesKept
  <2>2. Pipeline => <<"wave">> \in files /\ <<"page">> \in files
    BY <1>8 DEF FilesKept, StudySteps
  <2> QED BY <1>1, <1>2, <1>3, <1>8, <2>1, <2>2 DEF FilesKept, StudySteps
<1> QED BY <1>4, <1>5, <1>6, <1>7, <1>8 DEF Written

LEMMA FilesStep == ASSUME ThesisTyped, FilesKept, [ThesisNext]_thesisVars PROVE FilesKept'
<1>1. CASE UNCHANGED thesisVars \/ PublishCatalog \/ BeginRun
  <2>1. request' = request /\ files' = files /\ step' = step /\ code' = code /\ entries' = entries /\ failures' = failures
    BY <1>1 DEF thesisVars, PublishCatalog, BeginRun, worldVars, waveVars
  <2> QED BY <2>1, FilesStand
<1>2. CASE AskThesis
  <2>1. /\ request' = request /\ files' = files /\ step = "asked" /\ entries' = entries /\ failures' = failures
        /\ \/ step' = "ended" /\ code' = 2
           \/ (step' = IF Pipeline THEN "gate" ELSE "as_of") /\ code' = code
    BY <1>2 DEF AskThesis, worldVars, waveVars, Exit, GoTo
  <2> QED BY <2>1, FilesStand DEF StudySteps
<1>3. CASE ChooseAsOf
  <2>1. request' = request /\ files' = files /\ step = "as_of" /\ entries' = entries /\ failures' = failures
    BY <1>3 DEF ChooseAsOf, worldVars, waveVars
  <2>2. \/ step' = "ended" /\ code' = 1
        \/ (step' = IF request.command = "incremental" THEN "gate" ELSE "evidence") /\ code' = code
    BY <1>3, Zenon DEF ChooseAsOf, Exit, GoTo
  <2> QED BY <2>1, <2>2, FilesStand DEF StudySteps
<1>4. CASE PassGate
  <2>1. step = "gate" /\ request' = request /\ files' = files /\ entries' = entries /\ failures' = failures
    BY <1>4 DEF PassGate, worldVars, waveVars
  <2>2. \/ step' = "ended" /\ code' \in {1, 2}
        \/ step' = "as_of" /\ code' = code
        \/ step' = "start" /\ code' = code /\ ~Pipeline
    BY <1>4 DEF PassGate, Exit, GoTo
  <2> QED BY <2>1, <2>2, FilesStand DEF StudySteps
<1>5. CASE EvidenceEnds \/ CohortsEnd \/ ReadProxy
  <2>1. /\ request' = request /\ files' = files /\ step # "ended" /\ entries' = entries /\ failures' = failures
        /\ step' \in {"terminal", "proxy", "write"}
    BY <1>5, EvidenceTyped, CohortsTyped, ProxyTyped DEF DraftMoves, MovesOn, EvidenceEnds, CohortsEnd, ReadProxy
  <2>2. code' = code
    BY <1>5 DEF EvidenceEnds, CohortsEnd, ReadProxy, GoTo
  <2> QED BY <2>1, <2>2, FilesStand DEF StudySteps
<1>6. CASE TerminalEnds \/ WriteReport
  BY <1>6, TerminalFiled, ReportFiled
<1>7. CASE ReadStart \/ ClipStart \/ PinPrices \/ ArmEnds
  <2>1. /\ request' = request /\ files' = files /\ step \in StudySteps /\ step # "ended" /\ entries' = entries /\ failures' = failures
        /\ code' = IF step' = "ended" THEN 1 ELSE code
    BY <1>7, StartCases, ClipCases, PinCases, ArmCases DEF StudyMoves, StudySteps
  <2>2. step' \in {"ended", "clip", "pin", "arm", "save"} \/ (step' = "json" /\ ~Pipeline)
    BY <1>7, StartCases, ClipCases, PinCases, ArmCases DEF StudyMoves
  <2> QED BY <2>1, <2>2, FilesStand DEF StudySteps
<1>8. CASE NoEntry
  <2>1. /\ request' = request /\ files' = files /\ step = "save" /\ entries' = entries /\ failures' = failures
        /\ step' = "ended" /\ code' = 1
    BY <1>8 DEF NoEntry, Exit, worldVars, waveVars
  <2> QED BY <2>1, FilesStand DEF StudySteps
<1>9. CASE WriteWave \/ WritePage \/ WriteJson \/ RecordRun
  BY <1>9, WrittenCases, WrittenFiled
<1> QED BY <1>1, <1>2, <1>3, <1>4, <1>5, <1>6, <1>7, <1>8, <1>9 DEF ThesisNext

\* Every entry of the wave is as it should be, and each thesis had one attempt.
Grounded(e) ==
  /\ e.decision \in {"reject", "watch"} =>
       \E i \in e.report.seen :
         Listed(CatalogOf(i), Vehicle[e.thesis]) /\ Span(ProxyWindow(CatalogOf(i), e.thesis)) >= MinYears[e.thesis]
  /\ e.quality = "target_thin" =>
       /\ e.report.long.years = TargetYears[e.thesis] /\ e.report.long.count >= 1
       /\ ByExperiment \/ asOf > ReportSince => e.report.long.end =< asOf
FromOne(e) ==
  \A i \in e.report.seen :
    /\ e.report.clean /\ e.report.seen = {i} /\ HistoryWindow(e.thesis) = EvidenceWindow(e.thesis)
    /\ e.report.historical # Missing
    => e.report.horizon > 0 /\ e.report.historical = e.report.long.median
Reported(e) ==
  e.thesis \in Members /\ e.report.slots \subseteq TrackF /\ Grounded(e) /\ FromOne(e)
EntriesTrue ==
  /\ \A e \in ToSet(entries) : Reported(e) /\ <<"report", e.thesis>> \in files
  /\ Pipeline => /\ Attempted = {Theses[i] : i \in 1 .. Tried}
                 /\ \A e \in ToSet(entries) : e.thesis \notin ToSet(failures)

LEMMA WindowEnds ==
  ASSUME ThesisTyped, NEW t \in Members, ByExperiment \/ asOf > ReportSince
  PROVE  EvidenceWindow(t).end =< asOf
<1>1. CASE ByExperiment
  <2>1. MappedWindow[t] \in [start : Nat, end : Nat]
    BY ThesesAssumption DEF Members
  <2> QED BY <1>1, <2>1 DEF EvidenceWindow, ThesisTyped
<1>2. CASE ~ByExperiment
  BY <1>2 DEF EvidenceWindow, OwnWindow, ThesisTyped, ReportSince
<1> QED BY <1>1, <1>2

LEMMA WrittenReported ==
  ASSUME ThesisTyped, DraftTrue, step = "write"
  PROVE  Reported(Entry(InHand, draft)) /\ Entry(InHand, draft).thesis = InHand
<1>1. PICK t, e : t = InHand /\ e = Entry(t, draft)
  OBVIOUS
<1>2. t \in Members /\ Evidenced(t, draft) /\ Planned(t, draft) /\ LongEnough(t, draft)
  BY <1>1, InHandKnown DEF DraftTrue, ReportSteps
<1>3. e.thesis = t /\ e.decision = Judgement(t, draft) /\ e.quality = Quality(t, draft) /\ e.report = draft
  BY <1>1 DEF Entry
<1>4. MinYears[t] \in Nat \ {0} /\ TargetYears[t] \in Nat \ {0}
  BY <1>2, ThesesAssumption DEF Members
<1>5. ASSUME e.decision \in {"reject", "watch"}
      PROVE  \E i \in draft.seen :
               Listed(CatalogOf(i), Vehicle[t]) /\ Span(ProxyWindow(CatalogOf(i), t)) >= MinYears[t]
  <2>1. ~Short(t, draft)
    BY <1>3, <1>5 DEF Judgement
  <2>2. draft.span >= MinYears[t] /\ draft.span # 0
    BY <1>2, <1>4, <2>1 DEF Short, LongEnough
  <2> QED BY <1>2, <2>2 DEF LongEnough
<1>6. ASSUME e.quality = "target_thin"
      PROVE  /\ draft.long.years = TargetYears[t] /\ draft.long.count >= 1
             /\ ByExperiment \/ asOf > ReportSince => draft.long.end =< asOf
  <2>1. Sufficient(draft)
    BY <1>3, <1>6 DEF Quality
  <2>2. draft.horizon > 0 /\ draft.long.count >= 1 /\ draft.long # NoCohorts
    BY <2>1 DEF Sufficient, NoCohorts
  <2>3. draft.long.years = TargetYears[t] /\ draft.long.end = EvidenceWindow(t).end
    BY <1>2, <2>2 DEF Planned, OfTarget
  <2> QED BY <1>2, <2>2, <2>3, WindowEnds
<1>7. ASSUME NEW i \in draft.seen, draft.clean, draft.seen = {i}, HistoryWindow(t) = EvidenceWindow(t), draft.historical # Missing
      PROVE  draft.horizon > 0 /\ draft.historical = draft.long.median
  <2>1. PICK c, w : c = CatalogOf(i) /\ w = EvidenceWindow(t)
    OBVIOUS
  <2>2. Single(draft, i)
    BY <1>7 DEF Single
  <2>3. draft.historical = HistoricalMedian(c, t) /\ ByCatalog(c, t, draft)
    BY <1>2, <2>1, <2>2 DEF Evidenced, Planned
  <2>4. draft.historical = CohortsRun(c, t, w, IF HasTarget(c, t, w) THEN TargetYears[t] ELSE 0).median
    BY <1>7, <2>1, <2>3 DEF HistoricalMedian
  <2>5. HasTarget(c, t, w)
    <3>1. CohortsRun(c, t, w, 0).median = Missing
      BY DEF CohortsRun, NoCohorts
    <3> QED BY <1>7, <2>4, <3>1
  <2>6. draft.horizon = TargetYears[t] /\ draft.long = CohortsRun(c, t, w, TargetYears[t])
    BY <2>1, <2>3, <2>5 DEF ByCatalog
  <2> QED BY <1>4, <2>4, <2>5, <2>6
<1>8. Grounded(e)
  BY <1>3, <1>5, <1>6 DEF Grounded
<1>9. FromOne(e)
  BY <1>3, <1>7 DEF FromOne
<1> QED BY <1>1, <1>2, <1>3, <1>8, <1>9 DEF Reported, Evidenced

LEMMA EntriesStand ==
  ASSUME ThesisTyped, EntriesTrue, request' = request, entries' = entries, failures' = failures,
         asOf' = asOf \/ entries = <<>>, files \subseteq files'
  PROVE  EntriesTrue'
<1>1. /\ ToSet(entries)' = ToSet(entries) /\ ToSet(failures)' = ToSet(failures) /\ Attempted' = Attempted
      /\ Tried' = Tried /\ (Pipeline' <=> Pipeline)
  BY DEF Attempted, Tried, Pipeline, ToSet
<1>2. CASE entries = <<>>
  <2>1. ToSet(entries) = {}
    BY <1>2 DEF ToSet
  <2> QED BY <1>1, <2>1 DEF EntriesTrue
<1>3. CASE asOf' = asOf
  <2>1. \A e : Reported(e)' <=> Reported(e)
    BY <1>3, SameCase DEF Reported, Grounded, FromOne
  <2> QED BY <1>1, <2>1 DEF EntriesTrue
<1> QED BY <1>2, <1>3

\* The thesis in hand had no attempt yet.
LEMMA OneMore ==
  ASSUME ThesisTyped, EntriesTrue, step \in ReportSteps, Pipeline
  PROVE  /\ InHand \notin Attempted /\ Tried \in Nat
         /\ {Theses[i] : i \in 1 .. Tried + 1} = {Theses[i] : i \in 1 .. Tried} \cup {InHand}
<1>1. Tried \in Nat /\ InHand = Theses[Tried + 1] /\ Tried + 1 \in DOMAIN Theses /\ DOMAIN Theses = 1 .. Len(Theses)
      /\ Len(Theses) \in Nat
  BY InHandKnown, ThesesAssumption DEF ThesisTyped, Tried
<1>2. \A i \in 1 .. Tried : i \in DOMAIN Theses /\ i # Tried + 1
  BY <1>1
<1>3. InHand \notin {Theses[i] : i \in 1 .. Tried}
  BY <1>1, <1>2, ThesesAssumption
<1>4. 1 .. Tried + 1 = (1 .. Tried) \cup {Tried + 1}
  BY <1>1
<1> QED BY <1>1, <1>3, <1>4 DEF EntriesTrue

LEMMA TerminalEntries == ASSUME ThesisTyped, EntriesTrue, TerminalEnds PROVE EntriesTrue'
<1>1. request' = request /\ asOf' = asOf /\ entries' = entries /\ files' = files /\ step \in ReportSteps
      /\ (failures' = failures \/ (failures' = Append(failures, InHand) /\ Pipeline))
  BY TerminalCases DEF ReportSteps
<1>2. CASE failures' = failures
  BY <1>1, <1>2, EntriesStand
<1>3. CASE failures' = Append(failures, InHand) /\ Pipeline
  <2>1. InHand \in Members /\ failures \in Seq(Members)
    BY <1>1, InHandKnown DEF ThesisTyped
  <2>2. ToSet(failures') = ToSet(failures) \cup {InHand} /\ Len(failures') = Len(failures) + 1
    BY <1>3, <2>1, GrownSet, AppendProperties
  <2>3. ToSet(entries)' = ToSet(entries) /\ ToSet(failures)' = ToSet(failures') /\ Len(entries') = Len(entries)
    BY <1>1 DEF ToSet
  <2>4. Attempted' = Attempted \cup {InHand} /\ InHand \notin Attempted
    BY <1>1, <1>3, <2>2, <2>3, OneMore DEF Attempted
  <2>5. Tried' = Tried + 1
    BY <2>1, <2>2, <2>3 DEF Tried, ThesisTyped
  <2>6. Attempted' = {Theses[i] : i \in 1 .. Tried + 1}
    BY <1>1, <1>3, <2>4, OneMore DEF EntriesTrue
  <2>7. \A e \in ToSet(entries) : e.thesis \notin ToSet(failures')
    BY <1>3, <2>2, <2>4 DEF EntriesTrue, Attempted
  <2>8. \A e : Reported(e)' <=> Reported(e)
    BY <1>1, SameCase DEF Reported, Grounded, FromOne
  <2> QED BY <1>1, <2>3, <2>5, <2>6, <2>7, <2>8 DEF EntriesTrue
<1> QED BY <1>1, <1>2, <1>3

LEMMA ReportEntries == ASSUME ThesisTyped, DraftTrue, EntriesTrue, WriteReport PROVE EntriesTrue'
<1>1. request' = request /\ asOf' = asOf /\ failures' = failures /\ step = "write" /\ step \in ReportSteps
  BY ReportCases DEF ReportSteps
<1>2. CASE entries' = entries /\ files' = files
  BY <1>1, <1>2, EntriesStand
<1>3. CASE files' = files \cup {<<"report", InHand>>} /\ entries' = Append(entries, Entry(InHand, draft))
  <2>1. PICK e : e = Entry(InHand, draft)
    OBVIOUS
  <2>2. Reported(e) /\ e.thesis = InHand
    BY <1>1, <2>1, WrittenReported
  <2>3. PICK S : S = ToSet(entries) \cup {e}
    OBVIOUS
  <2>4. entries \in Seq(S)
    BY <2>3 DEF ThesisTyped
  <2>5. Len(entries') = Len(entries) + 1 /\ ToSet(entries') = ToSet(entries) \cup {e}
    BY <1>3, <2>1, <2>3, <2>4, AppendProperties, GrownSet
  <2>6. ToSet(entries)' = ToSet(entries') /\ ToSet(failures)' = ToSet(failures) /\ Len(failures') = Len(failures)
    BY <1>1 DEF ToSet
  <2>7. \A x : Reported(x)' <=> Reported(x)
    BY <1>1, SameCase DEF Reported, Grounded, FromOne
  <2>8. \A x \in ToSet(entries') : Reported(x) /\ <<"report", x.thesis>> \in files'
    BY <1>3, <2>2, <2>5 DEF EntriesTrue
  <2>9. ASSUME Pipeline
        PROVE  /\ Attempted' = {Theses[i] : i \in 1 .. Tried'}
               /\ \A x \in ToSet(entries') : x.thesis \notin ToSet(failures)
    <3>1. InHand \notin Attempted /\ Attempted' = Attempted \cup {InHand}
      BY <1>1, <2>2, <2>5, <2>6, <2>9, OneMore DEF Attempted
    <3>2. Tried' = Tried + 1
      BY <2>4, <2>5, <2>6 DEF Tried, ThesisTyped
    <3>3. \A x \in ToSet(entries') : x.thesis \notin ToSet(failures)
      BY <2>2, <2>5, <2>9, <3>1 DEF EntriesTrue, Attempted
    <3> QED BY <1>1, <2>9, <3>1, <3>2, <3>3, OneMore DEF EntriesTrue
  <2>10. Pipeline' <=> Pipeline
    BY <1>1 DEF Pipeline
  <2> QED BY <2>6, <2>7, <2>8, <2>9, <2>10 DEF EntriesTrue
<1> QED BY <1>2, <1>3, ReportCases

LEMMA EntriesStep == ASSUME ThesisTyped, DraftTrue, EntriesTrue, [ThesisNext]_thesisVars PROVE EntriesTrue'
<1>1. CASE UNCHANGED thesisVars \/ PublishCatalog \/ BeginRun \/ AskThesis \/ PassGate \/ NoEntry
  <2>1. request' = request /\ entries' = entries /\ failures' = failures /\ asOf' = asOf /\ files' = files
    BY <1>1 DEF thesisVars, PublishCatalog, BeginRun, AskThesis, PassGate, NoEntry, worldVars, waveVars
  <2> QED BY <2>1, EntriesStand
<1>2. CASE ChooseAsOf
  <2>1. request' = request /\ entries' = entries /\ failures' = failures /\ files' = files /\ entries = <<>>
    BY <1>2 DEF ChooseAsOf, worldVars, waveVars, ThesisTyped, StepsInOrder
  <2> QED BY <2>1, EntriesStand
<1>3. CASE EvidenceEnds \/ CohortsEnd \/ ReadProxy
  <2>1. request' = request /\ entries' = entries /\ failures' = failures /\ asOf' = asOf /\ files' = files
    BY <1>3, EvidenceTyped, CohortsTyped, ProxyTyped DEF DraftMoves, MovesOn
  <2> QED BY <2>1, EntriesStand
<1>4. CASE TerminalEnds \/ WriteReport
  BY <1>4, TerminalEntries, ReportEntries
<1>5. CASE ReadStart \/ ClipStart \/ PinPrices \/ ArmEnds
  <2>1. request' = request /\ entries' = entries /\ failures' = failures /\ asOf' = asOf /\ files' = files
    BY <1>5, StartCases, ClipCases, PinCases, ArmCases DEF StudyMoves
  <2> QED BY <2>1, EntriesStand
<1>6. CASE WriteWave \/ WritePage \/ WriteJson \/ RecordRun
  <2>1. request' = request /\ entries' = entries /\ failures' = failures /\ asOf' = asOf /\ files \subseteq files'
    BY <1>6, WrittenCases DEF Written
  <2> QED BY <2>1, EntriesStand
<1> QED BY <1>1, <1>2, <1>3, <1>4, <1>5, <1>6 DEF ThesisNext

\* What the portfolio holds when it has seen one catalog only, and the span
\* its horizon was chosen for.
Ranged(x) ==
  /\ x.start \in Nat /\ x.start >= StudyFloor /\ x.end = gate.asOf
Chosen10(x) == x.years \in HorizonSurface /\ (x.years = 10 \/ CohortCount(x, 10) < 1)
ArmsTrue == \A i : Single(study, i) => \A n \in 1 .. Len(study.arms) : study.arms[n] = Arm(CatalogOf(i), n)
StudyTrue ==
  /\ study.arms \in Seq(ToSet(study.arms)) /\ Len(study.arms) =< 3
  /\ step \in {"asked", "as_of", "gate", "wave", "start"} \cup ReportSteps => study = NoStudy
  /\ step \in {"clip", "pin"} => study.arms = <<>>
  /\ step \in {"clip", "pin", "arm"} => study.seen # {} /\ Ranged(study)
  /\ step \in {"pin", "arm"} => Chosen10(study)
  /\ step = "arm" => Len(study.arms) < 3
  /\ study.arms # <<>> => study.seen # {} /\ Ranged(study) /\ Chosen10(study)
  /\ ArmsTrue

\* A look at the catalogs leaves the rest of a portfolio as it is.
LEMMA StudySeen ==
  ASSUME ThesisTyped, NEW x, DOMAIN x = StudyFields
  PROVE  /\ Seen(x).start = x.start /\ Seen(x).end = x.end /\ Seen(x).years = x.years
         /\ Seen(x).arms = x.arms /\ Seen(x).pinned = x.pinned /\ Seen(x).clean = x.clean
         /\ Seen(x).seen # {} /\ x.seen \subseteq Seen(x).seen
         /\ \A i : Seen(x).seen = {i} => published = i /\ (begun # 0 => begun = i)
<1>1. "seen" \in DOMAIN x /\ "clean" \in DOMAIN x /\ {"start", "end", "years", "arms", "pinned", "clean"} \subseteq DOMAIN x \ {"seen"}
  BY DEF StudyFields
<1>2. /\ \A f \in DOMAIN x \ {"seen"} : Seen(x)[f] = x[f]
      /\ published \in Seen(x).seen /\ x.seen \subseteq Seen(x).seen
      /\ \A i : Seen(x).seen = {i} => published = i /\ (begun # 0 => begun = i)
  BY <1>1, SeenIs DEF ThesisTyped
<1>3. /\ Seen(x)["start"] = x["start"] /\ Seen(x)["end"] = x["end"] /\ Seen(x)["years"] = x["years"]
      /\ Seen(x)["arms"] = x["arms"] /\ Seen(x)["pinned"] = x["pinned"] /\ Seen(x)["clean"] = x["clean"]
  BY <1>1, <1>2
<1> QED BY <1>2, <1>3

\* Where the portfolio itself stays as it is.
LEMMA StudyStands ==
  ASSUME ThesisTyped, StudyTrue, request' = request, study' = study,
         gate' = gate \/ study = NoStudy,
         \/ step' = step
         \/ step' = "ended"
         \/ step' \in {"as_of", "gate", "wave", "start"} \cup ReportSteps /\ study = NoStudy
         \/ step' \in {"save", "json", "record"}
  PROVE  StudyTrue'
<1>1. \A i, n : Arm(CatalogOf(i), n)' = Arm(CatalogOf(i), n)
  BY DEF Arm, CatalogOf, StudyVehicle, Pipeline
<1>2. (\A i : Single(study, i)' <=> Single(study, i)) /\ ToSet(study.arms)' = ToSet(study.arms)
  BY DEF Single, ToSet
<1>3. CASE gate' = gate
  <2>1. (Ranged(study)' <=> Ranged(study)) /\ (Chosen10(study)' <=> Chosen10(study))
    BY <1>3 DEF Ranged, Chosen10, CohortCount, Span
  <2> QED BY <1>1, <1>2, <2>1 DEF ArmsTrue, StudyTrue, ReportSteps
<1>4. CASE study = NoStudy /\ step' \notin {"clip", "pin", "arm"}
  <2>1. study.arms = <<>>
    BY <1>4 DEF NoStudy
  <2> QED BY <1>1, <1>2, <1>4, <2>1 DEF ArmsTrue, StudyTrue
<1>5. study = NoStudy => step \notin {"clip", "pin", "arm"} \/ gate' = gate
  BY DEF NoStudy, StudyTrue, Ranged
<1> QED BY <1>3, <1>4, <1>5 DEF ReportSteps

LEMMA StartStudied == ASSUME ThesisTyped, StudyTrue, ReadStart PROVE StudyTrue'
<1>1. StudyMoves("start", "clip")
  BY StartCases
<1>2. CASE step' = "ended"
  BY <1>1, <1>2, StudyStands DEF StudyMoves
<1>3. CASE step' = "clip"
  <2>1. PICK start, clean :
          /\ start = Larger(Now.since, StudyFloor) \/ start = StudyFloor
          /\ study' = Seen([NoStudy EXCEPT !.start = start, !.end = gate.asOf, !.clean = clean])
    BY <1>3, StartCases
  <2>2. published \in 1 .. Len(Worlds[request.world])
    BY WorldsAssumption, CasesAssumption DEF ThesisTyped
  <2>3. start \in Nat /\ start >= StudyFloor
    BY <2>1, <2>2, CatalogTyped DEF ThesisTyped, Now, Larger, StudyFloor
  <2>4. PICK x : x = [NoStudy EXCEPT !.start = start, !.end = gate.asOf, !.clean = clean]
    OBVIOUS
  <2>5. DOMAIN x = StudyFields /\ x.start = start /\ x.end = gate.asOf /\ x.arms = <<>>
    BY <2>4 DEF NoStudy, StudyFields
  <2>6. study' = Seen(x)
    BY <2>1, <2>4
  <2>7. study'.start = start /\ study'.end = gate.asOf /\ study'.arms = <<>> /\ study'.seen # {}
    BY <2>5, <2>6, StudySeen
  <2>8. gate' = gate
    BY <1>1 DEF StudyMoves
  <2>9. Ranged(study)'
    BY <2>3, <2>7, <2>8 DEF Ranged
  <2> QED BY <1>3, <2>7, <2>9 DEF ArmsTrue, StudyTrue, ReportSteps
<1> QED BY <1>1, <1>2, <1>3 DEF StudyMoves

LEMMA ClipStudied == ASSUME ThesisTyped, StudyTrue, ClipStart PROVE StudyTrue'
<1>1. StudyMoves("clip", "pin")
  BY ClipCases
<1>2. CASE step' = "ended"
  BY <1>1, <1>2, StudyStands DEF StudyMoves
<1>3. CASE step' = "pin"
  <2>1. PICK clipped, years :
          /\ clipped = [study EXCEPT !.start = Larger(@, Now.first[StudyVehicle])]
          /\ years = Longest({h \in HorizonSurface : CohortCount(clipped, h) >= 1})
          /\ Listed(Now, StudyVehicle) /\ years > 0 /\ study' = Seen([clipped EXCEPT !.years = years])
    BY <1>3, ClipCases
  <2>2. published \in 1 .. Len(Worlds[request.world]) /\ step = "clip" /\ gate' = gate
    BY <1>1, WorldsAssumption, CasesAssumption DEF ThesisTyped, StudyMoves
  <2>3. study.arms = <<>> /\ Ranged(study) /\ DOMAIN study = StudyFields
    BY <2>2 DEF ArmsTrue, StudyTrue, ThesisTyped
  <2>4. Now.first[StudyVehicle] \in Nat
    <3>1. \E t \in Members : StudyVehicle = Vehicle[t]
      <4>1. CASE Pipeline
        <5>1. Head(Theses) = Theses[1] /\ 1 \in DOMAIN Theses
          BY ThesesAssumption, EmptySeq
        <5> QED BY <4>1, <5>1 DEF StudyVehicle, Members, ToSet
      <4>2. CASE ~Pipeline
        BY <2>2, <4>2 DEF StudyVehicle, ThesisTyped, StepsInOrder, StudySteps
      <4> QED BY <4>1, <4>2
    <3> QED BY <2>1, <2>2, <3>1, CatalogTyped DEF ThesisTyped, Now, Listed
  <2>5. /\ DOMAIN clipped = StudyFields /\ clipped.start \in Nat /\ clipped.start >= StudyFloor
        /\ clipped.end = gate.asOf /\ clipped.arms = <<>>
    BY <2>1, <2>3, <2>4 DEF Ranged, Larger, StudyFields, StudyFloor
  <2>6. PICK S : S = {h \in HorizonSurface : CohortCount(clipped, h) >= 1}
    OBVIOUS
  <2>7. years = Longest(S) /\ S \subseteq HorizonSurface
    BY <2>1, <2>6
  <2>8. years \in S /\ \A h \in S : h =< years
    <3>1. S # {}
      BY <2>1, <2>7, LongestIs
    <3> QED BY <2>7, <3>1, LongestIs
  <2>9. years \in HorizonSurface /\ (years = 10 \/ CohortCount(clipped, 10) < 1)
    <3>1. CohortCount(clipped, 10) \in Int
      BY <2>5 DEF CohortCount, Span, ThesisTyped
    <3>2. years # 10 => 10 \notin S
      BY <2>7, <2>8 DEF HorizonSurface
    <3> QED BY <2>6, <2>8, <3>1, <3>2 DEF HorizonSurface
  <2>10. PICK x : x = [clipped EXCEPT !.years = years]
    OBVIOUS
  <2>11. /\ DOMAIN x = StudyFields /\ x.years = years /\ x.start = clipped.start
         /\ x.end = clipped.end /\ x.arms = <<>>
    BY <2>5, <2>10 DEF StudyFields
  <2>12. study' = Seen(x)
    BY <2>1, <2>10
  <2>13. /\ study'.years = years /\ study'.start = clipped.start /\ study'.end = clipped.end
         /\ study'.arms = <<>> /\ study'.seen # {}
    BY <2>11, <2>12, StudySeen
  <2>14. Ranged(study)'
    BY <2>2, <2>5, <2>13 DEF Ranged
  <2>15. Chosen10(study)'
    BY <2>9, <2>13 DEF Chosen10, CohortCount, Span
  <2> QED BY <1>3, <2>13, <2>14, <2>15 DEF ArmsTrue, StudyTrue, ReportSteps
<1> QED BY <1>1, <1>2, <1>3 DEF StudyMoves

LEMMA PinStudied == ASSUME ThesisTyped, StudyTrue, PinPrices PROVE StudyTrue'
<1>1. StudyMoves("pin", "arm")
  BY PinCases
<1>2. CASE step' = "ended"
  BY <1>1, <1>2, StudyStands DEF StudyMoves
<1>3. CASE step' = "arm"
  <2>1. study' = Seen([study EXCEPT !.pinned = Now.last]) /\ step = "pin" /\ gate' = gate
    BY <1>1, <1>3, PinCases DEF StudyMoves
  <2>2. study.arms = <<>> /\ Ranged(study) /\ Chosen10(study) /\ DOMAIN study = StudyFields
    BY <2>1 DEF ArmsTrue, StudyTrue, ThesisTyped
  <2>3. PICK x : x = [study EXCEPT !.pinned = Now.last]
    OBVIOUS
  <2>4. /\ DOMAIN x = StudyFields /\ x.years = study.years /\ x.start = study.start
        /\ x.end = study.end /\ x.arms = <<>>
    BY <2>2, <2>3 DEF StudyFields
  <2>5. study' = Seen(x)
    BY <2>1, <2>3
  <2>6. /\ study'.years = study.years /\ study'.start = study.start /\ study'.end = study.end
        /\ study'.arms = <<>> /\ study'.seen # {}
    BY <2>4, <2>5, StudySeen
  <2>7. Ranged(study)'
    BY <2>1, <2>2, <2>6 DEF Ranged
  <2>8. Chosen10(study)'
    BY <2>2, <2>6 DEF Chosen10, CohortCount, Span
  <2> QED BY <1>3, <2>6, <2>7, <2>8 DEF ArmsTrue, StudyTrue, ReportSteps
<1> QED BY <1>1, <1>2, <1>3 DEF StudyMoves

LEMMA ArmStudied == ASSUME ThesisTyped, StudyTrue, ArmEnds PROVE StudyTrue'
<1>1. /\ step = "arm" /\ begun # 0 /\ request' = request /\ gate' = gate
      /\ step' = "ended" => study' = study
      /\ step' \in {"arm", "save", "json", "ended"} /\ (step' = "arm" => Len(study.arms) + 1 < Len(SatelliteWeights))
  BY ArmCases DEF StudyMoves
<1>2. CASE step' = "ended"
  BY <1>1, <1>2, StudyStands
<1>3. CASE step' # "ended"
  <2>1. PICK arm \in Found(ArmRun(Now, Len(study.arms) + 1), MixedArms) :
          arm # NoArm /\ study' = Seen([study EXCEPT !.arms = Append(@, arm)])
    BY <1>3, ArmCases
  <2>2. /\ Ranged(study) /\ Chosen10(study) /\ DOMAIN study = StudyFields /\ study.seen # {}
        /\ Len(study.arms) < 3 /\ study.arms \in Seq(ToSet(study.arms))
    BY <1>1 DEF ArmsTrue, StudyTrue, ThesisTyped
  <2>3. PICK x, n : x = [study EXCEPT !.arms = Append(@, arm)] /\ n = Len(study.arms) + 1
    OBVIOUS
  <2>4. /\ DOMAIN x = StudyFields /\ x.years = study.years /\ x.start = study.start
        /\ x.end = study.end /\ x.arms = Append(study.arms, arm) /\ x.seen = study.seen /\ x.clean = study.clean
    BY <2>2, <2>3 DEF StudyFields
  <2>5. study' = Seen(x)
    BY <2>1, <2>3
  <2>6. /\ study'.years = study.years /\ study'.start = study.start /\ study'.end = study.end
        /\ study'.arms = Append(study.arms, arm) /\ study'.seen # {} /\ study'.clean = study.clean
        /\ study.seen \subseteq study'.seen
        /\ \A i : study'.seen = {i} => published = i /\ begun = i
    BY <1>1, <2>4, <2>5, StudySeen
  <2>7. PICK S : S = ToSet(study.arms) \cup {arm}
    OBVIOUS
  <2>8. study.arms \in Seq(S)
    BY <2>2, <2>7
  <2>9. /\ study'.arms \in Seq(S) /\ Len(study'.arms) = n /\ n \in 1 .. 3
        /\ \A m \in 1 .. Len(study.arms) : study'.arms[m] = study.arms[m]
        /\ study'.arms[n] = arm /\ ToSet(study'.arms) = S /\ Len(study.arms) \in Nat
    BY <2>2, <2>3, <2>6, <2>7, <2>8, AppendProperties, GrownSet
  <2>10. study'.arms # <<>>
    BY <2>9
  <2>11. Ranged(study)' /\ Chosen10(study)'
    BY <1>1, <2>2, <2>6 DEF Ranged, Chosen10, CohortCount, Span
  <2>12. ASSUME NEW i, study'.clean, study'.seen = {i}, NEW m \in 1 .. n
         PROVE  study'.arms[m] = Arm(CatalogOf(i), m)
    <3>1. Single(study, i) /\ published = i /\ begun = i
      BY <2>2, <2>6, <2>12 DEF Single
    <3>2. CASE m = n
      <4>1. arm = ArmRun(Now, n)
        BY <2>1, <2>3, <3>1 DEF Found
      <4>2. arm = Arm(Now, n)
        BY <2>1, <4>1 DEF ArmRun
      <4> QED BY <2>9, <3>1, <3>2, <4>2 DEF Now
    <3>3. CASE m \in 1 .. Len(study.arms)
      BY <2>9, <3>1, <3>3 DEF ArmsTrue, StudyTrue
    <3>4. m = n \/ m \in 1 .. Len(study.arms)
      BY <2>3, <2>9, <2>12
    <3> QED BY <3>2, <3>3, <3>4
  <2>13. \A i, m : Arm(CatalogOf(i), m)' = Arm(CatalogOf(i), m)
    BY <1>1, <2>6 DEF Arm, CatalogOf, StudyVehicle, Pipeline
  <2>14. \A i : Single(study, i)' => \A m \in 1 .. Len(study'.arms) : study'.arms[m] = Arm(CatalogOf(i), m)
    BY <2>9, <2>12 DEF Single
  <2>15. step' = "arm" => Len(study'.arms) < 3
    <3>1. Len(SatelliteWeights) = 3
      BY DEF SatelliteWeights
    <3> QED BY <1>1, <2>3, <2>9, <3>1
  <2>16. study'.arms \in Seq(ToSet(study'.arms)) /\ ToSet(study.arms)' = ToSet(study'.arms)
    BY <2>9 DEF ToSet
  <2>17. step' \notin {"asked", "as_of", "gate", "wave", "start", "clip", "pin"} \cup ReportSteps
    BY <1>1, <1>3 DEF ReportSteps
  <2>18. ArmsTrue'
    BY <2>13, <2>14 DEF ArmsTrue
  <2>19. Len(study'.arms) =< 3
    BY <2>9
  <2>20. (study.arms \in Seq(ToSet(study.arms)) /\ Len(study.arms) =< 3)'
    BY <2>16, <2>19
  <2>21. /\ (step \in {"asked", "as_of", "gate", "wave", "start"} \cup ReportSteps => study = NoStudy)'
         /\ (step \in {"clip", "pin"} => study.arms = <<>>)'
    BY <2>17 DEF ReportSteps
  <2>22. /\ (step \in {"clip", "pin", "arm"} => study.seen # {} /\ Ranged(study))'
         /\ (step \in {"pin", "arm"} => Chosen10(study))'
         /\ (study.arms # <<>> => study.seen # {} /\ Ranged(study) /\ Chosen10(study))'
    BY <2>6, <2>11
  <2>23. (step = "arm" => Len(study.arms) < 3)'
    BY <2>15
  <2> QED BY <2>18, <2>20, <2>21, <2>22, <2>23, Zenon DEF StudyTrue
<1> QED BY <1>2, <1>3

LEMMA StudyStep == ASSUME ThesisTyped, StudyTrue, [ThesisNext]_thesisVars PROVE StudyTrue'
<1>1. CASE UNCHANGED thesisVars \/ PublishCatalog \/ BeginRun
  <2>1. request' = request /\ gate' = gate /\ study' = study /\ step' = step
    BY <1>1 DEF thesisVars, PublishCatalog, BeginRun, worldVars
  <2> QED BY <2>1, StudyStands
<1>2. CASE AskThesis \/ ChooseAsOf \/ PassGate
  <2>1. request' = request /\ study' = study /\ study = NoStudy
    BY <1>2 DEF AskThesis, ChooseAsOf, PassGate, worldVars, StudyTrue
  <2>2. step' \in {"ended", "as_of", "gate", "start", "evidence"}
    BY <1>2, Zenon DEF AskThesis, ChooseAsOf, PassGate, Exit, GoTo
  <2> QED BY <2>1, <2>2, StudyStands DEF ReportSteps
<1>3. CASE EvidenceEnds \/ CohortsEnd \/ ReadProxy
  <2>1. request' = request /\ gate' = gate /\ study' = study /\ step \in ReportSteps /\ step' \in ReportSteps
    BY <1>3, EvidenceTyped, CohortsTyped, ProxyTyped DEF DraftMoves, EvidenceEnds, CohortsEnd, ReadProxy, ReportSteps
  <2> QED BY <2>1, StudyStands DEF StudyTrue
<1>4. CASE TerminalEnds \/ WriteReport
  <2>1. request' = request /\ gate' = gate /\ study' = study /\ step \in ReportSteps
        /\ step' \in {"ended", "wave", "evidence", "cohorts"}
    BY <1>4, TerminalCases, ReportCases DEF ReportSteps, NextThesis
  <2> QED BY <2>1, StudyStands DEF StudyTrue, ReportSteps
<1>5. CASE ReadStart \/ ClipStart \/ PinPrices \/ ArmEnds
  BY <1>5, StartStudied, ClipStudied, PinStudied, ArmStudied
<1>6. CASE NoEntry
  <2>1. request' = request /\ gate' = gate /\ study' = study /\ step' = "ended"
    BY <1>6 DEF NoEntry, worldVars, Exit
  <2> QED BY <2>1, StudyStands
<1>7. CASE WriteWave \/ WritePage \/ WriteJson \/ RecordRun
  <2>1. /\ request' = request /\ gate' = gate /\ study' = study
        /\ step' \in {"ended", "json", "record"} \/ (step' = "start" /\ step = "wave")
    BY <1>7, WrittenCases DEF Written
  <2>2. CASE step' \in {"ended", "json", "record"}
    BY <2>1, <2>2, StudyStands
  <2>3. CASE step' = "start" /\ step = "wave"
    <3>1. study = NoStudy
      BY <2>3 DEF StudyTrue
    <3> QED BY <2>1, <2>3, <3>1, StudyStands
  <2> QED BY <2>1, <2>2, <2>3
<1> QED BY <1>1, <1>2, <1>3, <1>4, <1>5, <1>6, <1>7 DEF ThesisNext

ThesisInv == ThesisTyped /\ DraftTrue /\ GateKept /\ FilesKept /\ EntriesTrue /\ StudyTrue

LEMMA ThesisInitial == ThesisInit => ThesisInv
<1> SUFFICES ASSUME ThesisInit PROVE ThesisInv
  OBVIOUS
<1>1. step = "asked" /\ files = {} /\ code = Missing /\ entries = <<>> /\ failures = <<>> /\ study = NoStudy
  BY DEF ThesisInit
<1>2. ToSet(entries) = {} /\ ToSet(failures) = {} /\ Tried = 0
  BY <1>1 DEF ToSet, Tried
<1>3. DraftTrue /\ GateKept
  BY <1>1 DEF DraftTrue, GateKept, PastGate, ReportSteps, StudySteps
<1>4. FilesKept
  BY <1>1 DEF FilesKept, StudySteps, Missing
<1>5. EntriesTrue
  <2>1. Attempted = {} /\ {Theses[i] : i \in 1 .. Tried} = {}
    BY <1>2 DEF Attempted
  <2> QED BY <1>2, <2>1 DEF EntriesTrue
<1>6. StudyTrue
  <2>1. study.arms = <<>> /\ study.seen = {}
    BY <1>1 DEF NoStudy
  <2>2. study.arms \in Seq(ToSet(study.arms)) /\ Len(study.arms) = 0
    BY <2>1
  <2>3. \A i : ~Single(study, i)
    BY <2>1 DEF Single
  <2> QED BY <1>1, <2>1, <2>2, <2>3 DEF StudyTrue, ArmsTrue
<1> QED BY <1>3, <1>4, <1>5, <1>6, ThesisBegins DEF ThesisInv

LEMMA ThesisStep == ThesisInv /\ [ThesisNext]_thesisVars => ThesisInv'
  BY TypedStep, DraftStep, GateStep, FilesStep, EntriesStep, StudyStep DEF ThesisInv

\* Ten cohorts need nineteen years or a horizon that was not the longest.
LEMMA TenTakeYears == ASSUME ThesisInv, TenCohorts PROVE gate.asOf >= 2031
<1>1. Ranged(study) /\ Chosen10(study) /\ gate.asOf \in Nat
  BY DEF TenCohorts, ThesisInv, StudyTrue, ThesisTyped
<1>2. CASE study.years = 10
  BY <1>1, <1>2 DEF TenCohorts, CohortCount, Span, Ranged, StudyFloor
<1>3. CASE study.years # 10
  BY <1>1, <1>3 DEF TenCohorts, CohortCount, Span, Ranged, Chosen10, HorizonSurface
<1> QED BY <1>2, <1>3

LEMMA ThesisImplied == ThesisInv => ThesisSound
<1> SUFFICES ASSUME ThesisInv PROVE ThesisSound
  OBVIOUS
<1>1. GateHeld
  BY DEF ThesisInv, GateKept, PanelAllows, GateHeld
<1>2. WaveWhole
  <2> SUFFICES ASSUME Pipeline PROVE
        /\ Attempted = {Theses[i] : i \in 1 .. Len(entries) + Len(failures)}
        /\ \A e \in ToSet(entries) : <<"report", e.thesis>> \in files /\ e.thesis \notin ToSet(failures)
        /\ <<"wave">> \in files => Attempted = ToSet(Theses)
    BY DEF WaveWhole
  <2>1. Attempted = {Theses[i] : i \in 1 .. Tried}
        /\ \A e \in ToSet(entries) : <<"report", e.thesis>> \in files /\ e.thesis \notin ToSet(failures)
    BY DEF ThesisInv, EntriesTrue
  <2>2. <<"wave">> \in files => Tried = Len(Theses)
    BY DEF ThesisInv, FilesKept
  <2>3. {Theses[i] : i \in 1 .. Len(Theses)} = ToSet(Theses)
    BY ThesesAssumption DEF ToSet
  <2> QED BY <2>1, <2>2, <2>3 DEF Tried
<1>3. DecisionsGrounded
  BY DEF ThesisInv, EntriesTrue, Reported, Grounded, DecisionsGrounded
<1>4. OneSource
  BY DEF ThesisInv, EntriesTrue, Reported, FromOne, OneSource
<1>5. PromisingOfOne
  <2> SUFFICES ASSUME NEW i \in study.seen, study.clean, study.seen = {i}, Len(study.arms) = Len(SatelliteWeights)
               PROVE  Promising <=> \E n \in DOMAIN SatelliteWeights : ArmPasses(Arm(CatalogOf(i), n))
    BY DEF PromisingOfOne
  <2>1. Len(SatelliteWeights) = 3 /\ DOMAIN SatelliteWeights = 1 .. 3
    BY DEF SatelliteWeights
  <2>2. DOMAIN study.arms = 1 .. 3
    BY <2>1 DEF ThesisInv, StudyTrue
  <2>3. \A n \in 1 .. 3 : study.arms[n] = Arm(CatalogOf(i), n)
    BY <2>1 DEF ThesisInv, StudyTrue, ArmsTrue, Single
  <2> QED BY <2>1, <2>2, <2>3 DEF Promising
<1>6. ExitEarned
  <2>1. <<"page">> \in files => request.thesis \in {e.thesis : e \in ToSet(entries)} \ ToSet(failures)
    <3> SUFFICES ASSUME <<"page">> \in files PROVE request.thesis \in {e.thesis : e \in ToSet(entries)} \ ToSet(failures)
      OBVIOUS
    <3>1. Assessed # {} /\ Pipeline
      BY DEF ThesisInv, FilesKept
    <3>2. PICK e \in ToSet(entries) : e.thesis = request.thesis
      BY <3>1 DEF Assessed
    <3> QED BY <3>1, <3>2 DEF ThesisInv, EntriesTrue
  <2>2. Computed \subseteq TrackF
    BY DEF ThesisInv, EntriesTrue, Reported, Computed, Assessed
  <2>3. Blockers = {} <=> OperationalReady
    <3>1. Blockers = {} <=> /\ TrackF \subseteq Computed /\ Promising /\ TenCohorts
                           /\ ~(ReferenceReady /\ gate.status # "FRESH")
      BY DEF Blockers
    <3>2. ReferenceReady <=> TrackF \subseteq Computed /\ Promising /\ TenCohorts
      BY <2>2 DEF ReferenceReady
    <3> QED BY <3>1, <3>2 DEF OperationalReady
  <2>4. OperationalReady => gate.asOf >= 2031
    BY TenTakeYears DEF OperationalReady, ReferenceReady
  <2>5. <<"row">> \in files => <<"json">> \in files /\ (Pipeline => {<<"wave">>, <<"page">>} \subseteq files)
    BY DEF ThesisInv, FilesKept
  <2>6. code = 0 <=> (<<"row">> \in files \/ (request.command = "report" /\ files # {}))
    BY DEF ThesisInv, FilesKept
  <2> QED BY <2>1, <2>3, <2>4, <2>5, <2>6 DEF ExitEarned
<1> QED BY <1>1, <1>2, <1>3, <1>4, <1>5, <1>6 DEF ThesisSound

\* Whatever is published and whatever fails meanwhile, nothing is kept of a
\* command the gate refused, a wave is whole, a thesis is judged only on the
\* history it asks for, what one catalog shows is what is reported, and the
\* exit is earned (report, incremental and pipeline commands).
THEOREM ThesisIsSound == ThesisSpec => []ThesisSound
<1>1. ThesisSpec => []ThesisInv
  BY ThesisInitial, ThesisStep, PTL DEF ThesisSpec
<1> QED BY <1>1, ThesisImplied, PTL

-----------------------------------------------------------------------------
(* Side by side *)

\* The tournament, the two decisions, the plans, the screen and the thesis
\* commands share a specification, and each is left alone by the steps of the
\* others.
LEMMA SideBySide ==
  /\ Init => TournamentInit /\ HoldingInit /\ IsaInit /\ PlansInit /\ HpInit /\ ThesisInit
  /\ [Next]_<<subject, decisionVars, otherVars>> =>
       /\ [TournamentNext]_tournamentVars /\ [HoldingNext]_holdingVars
       /\ [IsaNext]_isaVars /\ [PlansNext]_planVars
       /\ [HpNext]_hpVars /\ [ThesisNext]_thesisVars
<1>1. Init => TournamentInit /\ HoldingInit /\ IsaInit /\ PlansInit /\ HpInit /\ ThesisInit
  BY DEF Init, DecisionsRest, OthersRest, TournamentRests, HoldingRests, IsaRests, PlansRest, HpRests, ThesisRests
<1>2. Next => /\ [TournamentNext]_tournamentVars /\ [HoldingNext]_holdingVars
              /\ [IsaNext]_isaVars /\ [PlansNext]_planVars
              /\ [HpNext]_hpVars /\ [ThesisNext]_thesisVars
  BY Zenon DEF Next, decisionVars, otherVars
<1>3. UNCHANGED <<subject, decisionVars, otherVars>> =>
        UNCHANGED <<tournamentVars, holdingVars, isaVars, planVars, hpVars, thesisVars>>
  BY DEF decisionVars, otherVars
<1> QED BY <1>1, <1>2, <1>3

\* Beside the decisions too a tournament adopts only what was adopted in a fold,
\* recommends the same whatever order its walks end in, and looks ahead in no
\* calendar (run_walk_forward, run_tournament).
THEOREM TournamentsAreHonest == Spec => []TournamentHonest
<1>1. Spec => TournamentSpec
  BY SideBySide, PTL DEF Spec, TournamentSpec
<1> QED BY <1>1, TournamentIsHonest, PTL

\* The frozen holding and the frozen ISA policy keep their word, the plans they
\* are decided from can be decided, the screen of parameters reports the best
\* book it saw, and a thesis command keeps and claims only what its gate and one
\* published catalog bear out.
THEOREM VerdictsAreSound == Spec => []VerdictsSound
<1>1. Spec => HoldingSpec /\ IsaSpec /\ PlansSpec
  BY SideBySide, PTL DEF Spec, HoldingSpec, IsaSpec, PlansSpec
<1>2. Spec => HpSpec /\ ThesisSpec
  BY SideBySide, PTL DEF Spec, HpSpec, ThesisSpec
<1> QED BY <1>1, <1>2, HoldingIsSound, PolicyPays, AdmittedPlansAreDecided, ScreenIsSound, ThesisIsSound, PTL
        DEF VerdictsSound
=============================================================================
