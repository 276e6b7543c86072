-------------------------- MODULE RecursionTheorems --------------------------
(***************************************************************************)
(* What the recursive functions of the models and the sums of the          *)
(* community modules compute.  A definition that recurs on a bounded       *)
(* measure has a solution; a sum over a finite set takes its elements in   *)
(* any order; a finite set of numbers has extremes.                        *)
(***************************************************************************)
EXTENDS Integers, FiniteSets, FiniteSetsExt, Functions, FiniteSetTheorems, WellFoundedInduction, TLAPS

\* A set of naturals that is not empty has a least member.
LEMMA LeastNatural ==
  ASSUME NEW T, T \subseteq Nat, T # {}
  PROVE  \E x \in T : \A y \in T : x =< y
<1>1. IsWellFoundedOn(OpToRel(<, Nat), Nat)
  BY NatLessThanWellFounded, Zenon
<1>2. PICK x \in T : \A y \in T : ~(<<y, x>> \in OpToRel(<, Nat))
  BY <1>1, WFMin, Zenon
<1>3. \A y \in T : ~(y < x)
  BY <1>2, Zenon DEF OpToRel
<1> QED BY <1>3

\* A set of numbers that has zero and every successor has every number.
LEMMA CountsUp ==
  ASSUME NEW Q, 0 \in Q, \A n \in Nat : n \in Q => n + 1 \in Q
  PROVE  \A n \in Nat : n \in Q
<1> SUFFICES ASSUME NEW m \in Nat, m \notin Q PROVE FALSE
  OBVIOUS
<1> DEFINE Missed == {n \in Nat : n \notin Q}
<1>1. Missed \subseteq Nat /\ Missed # {}
  OBVIOUS
<1>2. PICK n \in Missed : \A k \in Missed : n =< k
  <2> HIDE DEF Missed
  <2> QED BY <1>1, LeastNatural
<1>3. n \in Nat /\ n \notin Q /\ n # 0 /\ n - 1 \in Nat /\ ~ (n =< n - 1) /\ n - 1 + 1 = n
  OBVIOUS
<1>4. n - 1 \in Q
  BY <1>2, <1>3
<1> QED BY <1>3, <1>4

\* V gives the value at d from the function of all values, and looks only at
\* those of smaller measure.
RecursOn(D, R, m, V) ==
  /\ V \in [D -> [[D -> R] -> R]]
  /\ \A d \in D : \A g, h \in [D -> R] :
       (\A e \in D : m[e] < m[d] => g[e] = h[e]) => V[d][g] = V[d][h]

\* Then some function has these values: what a recursive definition over a
\* bounded range denotes.
LEMMA RecursionOnMeasure ==
  ASSUME NEW D, NEW R, R # {}, NEW N \in Nat, NEW m, m \in [D -> 0 .. N], NEW V, RecursOn(D, R, m, V)
  PROVE  \E g \in [D -> R] : \A d \in D : g[d] = V[d][g]
<1> USE DEF RecursOn
<1> DEFINE Computed(n) == \E g \in [D -> R] : \A d \in D : m[d] < n => g[d] = V[d][g]
           Reached == {n \in Nat : Computed(n)}
<1>1. 0 \in Reached
  <2>1. PICK r \in R : TRUE
    OBVIOUS
  <2>2. [d \in D |-> r] \in [D -> R]
    OBVIOUS
  <2>3. \A d \in D : ~ (m[d] < 0)
    OBVIOUS
  <2> QED BY <2>2, <2>3
<1>2. ASSUME NEW n \in Reached PROVE n + 1 \in Reached
  <2>1. PICK g \in [D -> R] : \A d \in D : m[d] < n => g[d] = V[d][g]
    BY <1>2
  <2> DEFINE h == [d \in D |-> V[d][g]]
  <2>2. h \in [D -> R]
    OBVIOUS
  <2>3. ASSUME NEW d \in D, m[d] < n + 1 PROVE h[d] = V[d][h]
    <3>1. \A e \in D : m[e] < m[d] => g[e] = h[e]
      BY <1>2, <2>1, <2>3
    <3>2. V[d][g] = V[d][h]
      BY <2>2, <3>1
    <3> QED BY <3>2
  <2>4. Computed(n + 1)
    <3> HIDE DEF h
    <3> QED BY <2>2, <2>3
  <2> HIDE DEF Computed
  <2> QED BY <1>2, <2>4
<1>3. N + 1 \in Reached
  <2>1. \A n \in Reached : n + 1 \in Reached
    BY <1>2
  <2>2. Reached \subseteq Nat
    OBVIOUS
  <2> HIDE DEF Reached
  <2> QED BY <1>1, <2>1, <2>2, CountsUp
<1>4. PICK g \in [D -> R] : \A d \in D : m[d] < N + 1 => g[d] = V[d][g]
  BY <1>3
<1>5. \A d \in D : m[d] < N + 1
  OBVIOUS
<1> QED BY <1>4, <1>5

-----------------------------------------------------------------------------
(* Least and greatest *)

\* The community modules' Min of natural numbers.
LEMMA MinOfNats ==
  ASSUME NEW T, T \subseteq Nat, T # {}
  PROVE  Min(T) \in T /\ \A y \in T : Min(T) =< y
<1>1. \E x \in T : \A y \in T : x =< y
  BY LeastNatural
<1> QED BY <1>1 DEF Min

\* A bound of a set that is in it is its maximum.
LEMMA MaxIs ==
  ASSUME NEW S, S \subseteq Int, NEW m \in S, \A y \in S : m >= y
  PROVE  Max(S) = m
<1>1. \A x \in S : (\A y \in S : x >= y) => x = m
  <2> SUFFICES ASSUME NEW x \in S, \A y \in S : x >= y PROVE x = m
    OBVIOUS
  <2>1. x >= m /\ m >= x /\ x \in Int /\ m \in Int
    OBVIOUS
  <2> QED BY <2>1
<1> QED BY <1>1 DEF Max

LEMMA MinIs ==
  ASSUME NEW S, S \subseteq Int, NEW m \in S, \A y \in S : m =< y
  PROVE  Min(S) = m
<1>1. \A x \in S : (\A y \in S : x =< y) => x = m
  <2> SUFFICES ASSUME NEW x \in S, \A y \in S : x =< y PROVE x = m
    OBVIOUS
  <2>1. x =< m /\ m =< x /\ x \in Int /\ m \in Int
    OBVIOUS
  <2> QED BY <2>1
<1> QED BY <1>1 DEF Min

\* A function on a finite set has a place where it is greatest.
LEMMA GreatestPlace ==
  ASSUME NEW S, IsFiniteSet(S), S # {}, NEW f, \A x \in S : f[x] \in Int
  PROVE  \E x \in S : \A y \in S : f[y] =< f[x]
<1> DEFINE Topped(A) == \E x \in A : \A y \in A : f[y] =< f[x]
           N == {n \in Nat : \A A \in SUBSET S : A # {} /\ Cardinality(A) = n => Topped(A)}
<1>1. 0 \in N
  <2> SUFFICES ASSUME NEW A \in SUBSET S, Cardinality(A) = 0 PROVE A = {}
    OBVIOUS
  <2> QED BY FS_Subset, FS_EmptySet
<1>2. ASSUME NEW n \in Nat, n \in N PROVE n + 1 \in N
  <2> SUFFICES ASSUME NEW A \in SUBSET S, A # {}, Cardinality(A) = n + 1 PROVE Topped(A)
    OBVIOUS
  <2>1. PICK x : x \in A
    OBVIOUS
  <2>2. IsFiniteSet(A)
    BY FS_Subset
  <2>3. Cardinality(A \ {x}) = n
    <3>1. Cardinality(A \ {x}) = Cardinality(A) - 1
      BY <2>1, <2>2, FS_RemoveElement
    <3> HIDE DEF N
    <3> QED BY <3>1
  <2>4. CASE A \ {x} = {}
    BY <2>1, <2>4
  <2>5. CASE A \ {x} # {}
    <3>1. Topped(A \ {x})
      BY <1>2, <2>3, <2>5
    <3>2. PICK z \in A \ {x} : \A y \in A \ {x} : f[y] =< f[z]
      BY <3>1
    <3>3. f[x] \in Int /\ f[z] \in Int /\ \A y \in A : f[y] \in Int
      BY <2>1, <3>2
    <3>4. CASE f[z] =< f[x]
      BY <2>1, <3>2, <3>3, <3>4
    <3>5. CASE ~(f[z] =< f[x])
      BY <2>1, <3>2, <3>3, <3>5
    <3> QED BY <3>4, <3>5
  <2> QED BY <2>4, <2>5
<1>3. Cardinality(S) \in N
  <2>1. \A n \in Nat : n \in N => n + 1 \in N
    BY <1>2
  <2> HIDE DEF N
  <2> QED BY <1>1, <2>1, CountsUp, FS_CardinalityType
<1> QED BY <1>3

\* So the greatest of its values is one of them.
LEMMA MaxOfValues ==
  ASSUME NEW S, IsFiniteSet(S), S # {}, NEW f, \A x \in S : f[x] \in Int
  PROVE  LET m == Max({f[x] : x \in S})
         IN  m \in Int /\ (\E x \in S : m = f[x]) /\ \A x \in S : f[x] =< m
<1>1. PICK x \in S : \A y \in S : f[y] =< f[x]
  BY GreatestPlace
<1>2. \E m \in {f[y] : y \in S} : \A n \in {f[y] : y \in S} : m >= n
  BY <1>1
<1> QED BY <1>2 DEF Max

\* The community modules' greatest and least of finitely many integers.
LEMMA ExtremesOf ==
  ASSUME NEW T, IsFiniteSet(T), T # {}, T \subseteq Int
  PROVE  /\ Max(T) \in T /\ \A y \in T : y =< Max(T)
         /\ Min(T) \in T /\ \A y \in T : Min(T) =< y
<1> DEFINE same == [x \in T |-> x]
           turned == [x \in T |-> 0 - x]
<1>1. PICK x \in T : \A y \in T : same[y] =< same[x]
  <2>1. \A x \in T : same[x] \in Int
    OBVIOUS
  <2> HIDE DEF same
  <2> QED BY <2>1, GreatestPlace
<1>2. PICK z \in T : \A y \in T : turned[y] =< turned[z]
  <2>1. \A y \in T : turned[y] \in Int
    OBVIOUS
  <2> HIDE DEF turned
  <2> QED BY <2>1, GreatestPlace
<1>3. x \in T /\ \A y \in T : x >= y
  BY <1>1
<1>4. z \in T /\ \A y \in T : z =< y
  BY <1>2
<1>5. Max(T) \in T /\ \A y \in T : Max(T) >= y
  BY <1>3 DEF Max
<1>6. Min(T) \in T /\ \A y \in T : Min(T) =< y
  BY <1>4 DEF Min
<1> QED BY <1>5, <1>6

\* So do places of a sequence.
LEMMA GreatestIndex ==
  ASSUME NEW N \in Nat, NEW T, T \subseteq 1 .. N, T # {}
  PROVE  \E x \in T : \A y \in T : y =< x
<1>1. IsFiniteSet(1 .. N)
  BY FS_Interval
<1>2. IsFiniteSet(T)
  BY <1>1, FS_Subset
<1>3. T \subseteq Int
  OBVIOUS
<1> QED BY <1>2, <1>3, ExtremesOf

\* What a function makes of a finite set is finite.
LEMMA ImageFinite ==
  ASSUME NEW S, IsFiniteSet(S), NEW f PROVE IsFiniteSet({f[x] : x \in S})
<1> DEFINE T == {f[x] : x \in S}
           g == [x \in S |-> f[x]]
<1>1. g \in Surjection(S, T)
  BY DEF Surjection
<1> HIDE DEF T, g
<1>2. IsFiniteSet(T)
  BY <1>1, FS_Surjection
<1> QED BY <1>2 DEF T

-----------------------------------------------------------------------------
(* Induction over the subsets of a finite set *)

\* A family that has every subset of a finite set whose subsets with one
\* element less it has, has the whole set.
LEMMA SubsetInduction ==
  ASSUME NEW S, IsFiniteSet(S), NEW Q,
         \A T \in SUBSET S : (\A x \in T : T \ {x} \in Q) => T \in Q
  PROVE  S \in Q
<1> SUFFICES ASSUME S \notin Q PROVE FALSE
  OBVIOUS
<1> DEFINE Bad == {T \in SUBSET S : T \notin Q}
<1>1. IsWellFoundedOn(StrictSubsetOrdering(S), SUBSET S)
  BY FS_StrictSubsetOrderingWellFounded, FS_FiniteSubsetsOfFinite
<1>2. Bad \subseteq SUBSET S /\ Bad # {}
  OBVIOUS
<1>3. PICK T \in Bad : \A U \in Bad : ~ (<<U, T>> \in StrictSubsetOrdering(S))
  <2> HIDE DEF Bad
  <2>1. \E T \in Bad : \A U \in Bad : ~ (<<U, T>> \in StrictSubsetOrdering(S))
    BY <1>1, <1>2, WFMin
  <2> QED BY <2>1
<1>4. \A x \in T : T \ {x} \in SUBSET S /\ T \ {x} # T /\ T \ {x} \subseteq T
  BY <1>3
<1>5. \A x \in T : <<T \ {x}, T>> \in StrictSubsetOrdering(S)
  BY <1>3, <1>4 DEF StrictSubsetOrdering
<1>6. \A x \in T : T \ {x} \in Q
  BY <1>3, <1>4, <1>5
<1> QED BY <1>3, <1>6

-----------------------------------------------------------------------------
(* The fold *)

Pick(s) == CHOOSE x \in s : TRUE

\* One unfolding of the fold over the subsets of S.
SumStep(f, S, g) == [s \in SUBSET S |-> IF s = {} THEN 0 ELSE f[Pick(s)] + g[s \ {Pick(s)}]]
Sums(f, S) == CHOOSE g : g = SumStep(f, S, g)

\* A sum is the fold of its set.
LEMMA SumIsFold == ASSUME NEW f, NEW S PROVE SumFunctionOnSet(f, S) = Sums(f, S)[S]
  BY DEF SumFunctionOnSet, FoldFunctionOnSet, MapThenFoldSet, Sums, SumStep, Pick

\* The fold over a finite set exists: it is built up by the size of the
\* subsets.
LEMMA FoldExists ==
  ASSUME NEW S, IsFiniteSet(S), NEW f
  PROVE  Sums(f, S) = SumStep(f, S, Sums(f, S))
<1> DEFINE Below(n) == {s \in SUBSET S : Cardinality(s) < n}
           Value(g, s) == IF s = {} THEN 0 ELSE f[Pick(s)] + g[s \ {Pick(s)}]
           Reached == {n \in Nat : \E g : g = [s \in Below(n) |-> Value(g, s)]}
<1>1. \A s \in SUBSET S : IsFiniteSet(s) /\ Cardinality(s) \in Nat /\ Cardinality(s) < Cardinality(S) + 1
  BY FS_Subset, FS_CardinalityType
<1>2. \A s \in SUBSET S : s # {} => /\ Pick(s) \in s
                                    /\ Cardinality(s \ {Pick(s)}) = Cardinality(s) - 1
  BY <1>1, FS_RemoveElement DEF Pick
<1>3. 0 \in Reached
  <2>1. Below(0) = {}
    BY <1>1
  <2>2. LET g == [s \in {} |-> 0] IN g = [s \in Below(0) |-> Value(g, s)]
    BY <2>1
  <2> QED BY <2>2
<1>4. \A n \in Reached : n + 1 \in Reached
  <2> TAKE n \in Reached
  <2>1. PICK g : g = [s \in Below(n) |-> Value(g, s)]
    OBVIOUS
  <2> DEFINE h == [s \in Below(n + 1) |-> Value(g, s)]
  <2>2. ASSUME NEW s \in Below(n + 1), s # {} PROVE h[s \ {Pick(s)}] = g[s \ {Pick(s)}]
    <3>1. s \ {Pick(s)} \in Below(n) /\ s \ {Pick(s)} \in Below(n + 1)
      BY <1>1, <1>2, <2>2
    <3> QED BY <3>1, <2>1
  <2>3. \A s \in Below(n + 1) : Value(g, s) = Value(h, s)
    BY <2>2
  <2>4. h = [s \in Below(n + 1) |-> Value(h, s)]
    BY <2>3, Zenon
  <2>5. \E k : k = [s \in Below(n + 1) |-> Value(k, s)]
    <3> HIDE DEF h, Below, Value
    <3> QED BY <2>4, Zenon
  <2> HIDE DEF h, Below, Value
  <2> QED BY <2>5
<1>5. Cardinality(S) + 1 \in Reached
  <2>1. \A n \in Nat : n \in Reached => n + 1 \in Reached
    BY <1>4
  <2> HIDE DEF Reached
  <2> QED BY <1>3, <2>1, CountsUp, FS_CardinalityType
<1>6. Below(Cardinality(S) + 1) = SUBSET S
  BY <1>1
<1>7. \E g : g = SumStep(f, S, g)
  BY <1>5, <1>6 DEF SumStep
<1> QED BY <1>7 DEF Sums

\* The fold over a finite set takes one element after the other.
LEMMA FoldUnfolds ==
  ASSUME NEW S, IsFiniteSet(S), NEW f, NEW s \in SUBSET S
  PROVE  Sums(f, S)[s] = IF s = {} THEN 0 ELSE f[Pick(s)] + Sums(f, S)[s \ {Pick(s)}]
<1> DEFINE g == Sums(f, S)
<1>1. g = SumStep(f, S, g)
  BY FoldExists
<1> HIDE DEF g
<1>2. g[s] = IF s = {} THEN 0 ELSE f[Pick(s)] + g[s \ {Pick(s)}]
  BY <1>1, Zenon DEF SumStep
<1> QED BY <1>2 DEF g

\* The fold over S agrees with the fold over each of its subsets.
LEMMA FoldOfSubset ==
  ASSUME NEW S, IsFiniteSet(S), NEW f, NEW R \in SUBSET S
  PROVE  Sums(f, S)[R] = Sums(f, R)[R]
<1> DEFINE Q == {s \in SUBSET R : Sums(f, S)[s] = Sums(f, R)[s]}
<1>1. IsFiniteSet(R)
  BY FS_Subset
<1>2. {} \in Q
  BY <1>1, FoldUnfolds
<1>3. ASSUME NEW T \in SUBSET R, \A x \in T : T \ {x} \in Q PROVE T \in Q
  <2>1. CASE T = {}
    BY <1>2, <2>1
  <2>2. CASE T # {}
    <3>1. Pick(T) \in T
      BY <2>2 DEF Pick
    <3>2. T \ {Pick(T)} \in Q
      BY <1>3, <3>1
    <3>3. /\ Sums(f, S)[T] = f[Pick(T)] + Sums(f, S)[T \ {Pick(T)}]
          /\ Sums(f, R)[T] = f[Pick(T)] + Sums(f, R)[T \ {Pick(T)}]
      BY <1>1, <2>2, FoldUnfolds
    <3> QED BY <3>2, <3>3
  <2> QED BY <2>1, <2>2
<1>4. R \in Q
  <2>1. \A T \in SUBSET R : (\A x \in T : T \ {x} \in Q) => T \in Q
    BY <1>3
  <2> HIDE DEF Q
  <2> QED BY <1>1, <2>1, SubsetInduction
<1> QED BY <1>4

\* The empty sum.
LEMMA SumOfNone == ASSUME NEW f PROVE SumFunctionOnSet(f, {}) = 0
  BY SumIsFold, FoldUnfolds, FS_EmptySet

\* The sum takes the element the fold picks first.
LEMMA SumWithoutPick ==
  ASSUME NEW S, IsFiniteSet(S), S # {}, NEW f
  PROVE  SumFunctionOnSet(f, S) = f[Pick(S)] + SumFunctionOnSet(f, S \ {Pick(S)})
<1>1. S \in SUBSET S /\ S \ {Pick(S)} \in SUBSET S
  OBVIOUS
<1>2. Sums(f, S)[S] = f[Pick(S)] + Sums(f, S)[S \ {Pick(S)}]
  BY <1>1, FoldUnfolds
<1>3. Sums(f, S)[S \ {Pick(S)}] = Sums(f, S \ {Pick(S)})[S \ {Pick(S)}]
  BY <1>1, FoldOfSubset
<1> QED BY <1>2, <1>3, SumIsFold

\* Integers add up to an integer.
LEMMA SumIsInt ==
  ASSUME NEW S, IsFiniteSet(S), NEW f, \A x \in S : f[x] \in Int
  PROVE  SumFunctionOnSet(f, S) \in Int
<1> DEFINE Q == {s \in SUBSET S : SumFunctionOnSet(f, s) \in Int}
<1>1. {} \in Q
  BY SumOfNone
<1>2. ASSUME NEW T \in SUBSET S, \A x \in T : T \ {x} \in Q PROVE T \in Q
  <2>1. CASE T = {}
    BY <1>1, <2>1
  <2>2. CASE T # {}
    <3>1. Pick(T) \in T /\ IsFiniteSet(T)
      BY <2>2, FS_Subset DEF Pick
    <3>2. T \ {Pick(T)} \in Q /\ f[Pick(T)] \in Int
      BY <1>2, <3>1
    <3>3. SumFunctionOnSet(f, T) = f[Pick(T)] + SumFunctionOnSet(f, T \ {Pick(T)})
      BY <2>2, <3>1, SumWithoutPick
    <3> QED BY <3>2, <3>3
  <2> QED BY <2>1, <2>2
<1>3. S \in Q
  <2>1. \A T \in SUBSET S : (\A x \in T : T \ {x} \in Q) => T \in Q
    BY <1>2
  <2> HIDE DEF Q
  <2> QED BY <2>1, SubsetInduction
<1> QED BY <1>3

-----------------------------------------------------------------------------
(* The sum does not depend on the order *)

\* Any element may be taken out of a sum.
LEMMA SumWithout ==
  ASSUME NEW S, IsFiniteSet(S), NEW f, \A x \in S : f[x] \in Int, NEW a \in S
  PROVE  SumFunctionOnSet(f, S) = f[a] + SumFunctionOnSet(f, S \ {a})
<1> DEFINE Q == {s \in SUBSET S : \A x \in s : SumFunctionOnSet(f, s) = f[x] + SumFunctionOnSet(f, s \ {x})}
<1>1. {} \in Q
  OBVIOUS
<1>2. ASSUME NEW T \in SUBSET S, \A x \in T : T \ {x} \in Q, NEW b \in T
      PROVE  SumFunctionOnSet(f, T) = f[b] + SumFunctionOnSet(f, T \ {b})
  <2> DEFINE p == Pick(T)
  <2>1. p \in T
    BY DEF Pick
  <2> HIDE DEF p
  <2>2. SumFunctionOnSet(f, T) = f[p] + SumFunctionOnSet(f, T \ {p})
    BY FS_Subset, SumWithoutPick DEF p
  <2>3. CASE b = p
    BY <2>2, <2>3
  <2>4. CASE b # p
    <3>1. T \ {p} \in Q /\ T \ {b} \in Q /\ b \in T \ {p} /\ p \in T \ {b}
      BY <1>2, <2>1, <2>4
    <3>2. /\ SumFunctionOnSet(f, T \ {p}) = f[b] + SumFunctionOnSet(f, (T \ {p}) \ {b})
          /\ SumFunctionOnSet(f, T \ {b}) = f[p] + SumFunctionOnSet(f, (T \ {b}) \ {p})
      BY <3>1
    <3>3. (T \ {p}) \ {b} = (T \ {b}) \ {p}
      OBVIOUS
    <3>4. f[p] \in Int /\ f[b] \in Int /\ SumFunctionOnSet(f, (T \ {p}) \ {b}) \in Int
      <4>1. IsFiniteSet((T \ {p}) \ {b})
        BY FS_Subset
      <4> QED BY <2>1, <4>1, SumIsInt
    <3> DEFINE rest == SumFunctionOnSet(f, (T \ {p}) \ {b})
    <3>5. SumFunctionOnSet(f, T) = f[p] + (f[b] + rest)
      BY <2>2, <3>2
    <3>6. SumFunctionOnSet(f, T \ {b}) = f[p] + rest
      BY <3>2, <3>3
    <3>7. rest \in Int
      BY <3>4
    <3> HIDE DEF rest
    <3> QED BY <3>4, <3>5, <3>6, <3>7
  <2> QED BY <2>3, <2>4
<1>3. S \in Q
  <2>1. \A T \in SUBSET S : (\A x \in T : T \ {x} \in Q) => T \in Q
    BY <1>2
  <2> HIDE DEF Q
  <2> QED BY <2>1, SubsetInduction
<1> QED BY <1>3

\* Two functions that agree on a set have the same sum over it.
LEMMA SumOfEqual ==
  ASSUME NEW S, IsFiniteSet(S), NEW f, NEW g, \A x \in S : f[x] = g[x]
  PROVE  SumFunctionOnSet(f, S) = SumFunctionOnSet(g, S)
<1> DEFINE Q == {s \in SUBSET S : SumFunctionOnSet(f, s) = SumFunctionOnSet(g, s)}
<1>1. ASSUME NEW T \in SUBSET S, \A x \in T : T \ {x} \in Q PROVE T \in Q
  <2>1. CASE T = {}
    BY <2>1, SumOfNone
  <2>2. CASE T # {}
    <3>1. Pick(T) \in T /\ IsFiniteSet(T)
      BY <2>2, FS_Subset DEF Pick
    <3>2. T \ {Pick(T)} \in Q /\ f[Pick(T)] = g[Pick(T)]
      BY <1>1, <3>1
    <3>3. /\ SumFunctionOnSet(f, T) = f[Pick(T)] + SumFunctionOnSet(f, T \ {Pick(T)})
          /\ SumFunctionOnSet(g, T) = g[Pick(T)] + SumFunctionOnSet(g, T \ {Pick(T)})
      BY <2>2, <3>1, SumWithoutPick
    <3> QED BY <3>2, <3>3
  <2> QED BY <2>1, <2>2
<1>2. S \in Q
  <2>1. \A T \in SUBSET S : (\A x \in T : T \ {x} \in Q) => T \in Q
    BY <1>1
  <2> HIDE DEF Q
  <2> QED BY <2>1, SubsetInduction
<1> QED BY <1>2

\* A sum of terms each the sum of two is the sum of the two sums.
LEMMA SumAdds ==
  ASSUME NEW S, IsFiniteSet(S), NEW f, NEW g, NEW h,
         \A x \in S : f[x] \in Int /\ g[x] \in Int /\ h[x] = f[x] + g[x]
  PROVE  SumFunctionOnSet(h, S) = SumFunctionOnSet(f, S) + SumFunctionOnSet(g, S)
<1> DEFINE Q == {s \in SUBSET S : SumFunctionOnSet(h, s) = SumFunctionOnSet(f, s) + SumFunctionOnSet(g, s)}
<1>1. ASSUME NEW T \in SUBSET S, \A x \in T : T \ {x} \in Q PROVE T \in Q
  <2>1. CASE T = {}
    BY <2>1, SumOfNone
  <2>2. CASE T # {}
    <3> DEFINE p == Pick(T)
               R == T \ {p}
    <3>1. p \in T /\ IsFiniteSet(T) /\ IsFiniteSet(R)
      BY <2>2, FS_Subset DEF Pick
    <3>2. R \in Q /\ f[p] \in Int /\ g[p] \in Int /\ h[p] = f[p] + g[p]
      BY <1>1, <3>1
    <3>3. /\ SumFunctionOnSet(f, T) = f[p] + SumFunctionOnSet(f, R)
          /\ SumFunctionOnSet(g, T) = g[p] + SumFunctionOnSet(g, R)
          /\ SumFunctionOnSet(h, T) = h[p] + SumFunctionOnSet(h, R)
      BY <2>2, <3>1, SumWithoutPick
    <3>4. SumFunctionOnSet(f, R) \in Int /\ SumFunctionOnSet(g, R) \in Int
      BY <3>1, SumIsInt
    <3>5. SumFunctionOnSet(h, R) = SumFunctionOnSet(f, R) + SumFunctionOnSet(g, R)
      BY <3>2
    <3> HIDE DEF p, R
    <3>6. SumFunctionOnSet(h, T) = SumFunctionOnSet(f, T) + SumFunctionOnSet(g, T)
      BY <3>2, <3>3, <3>4, <3>5
    <3> QED BY <3>6
  <2> QED BY <2>1, <2>2
<1>2. S \in Q
  <2>1. \A T \in SUBSET S : (\A x \in T : T \ {x} \in Q) => T \in Q
    BY <1>1
  <2> HIDE DEF Q
  <2> QED BY <2>1, SubsetInduction
<1> QED BY <1>2

\* Smaller terms, smaller sum.
LEMMA SumIsMonotone ==
  ASSUME NEW S, IsFiniteSet(S), NEW f, NEW g,
         \A x \in S : f[x] \in Int /\ g[x] \in Int /\ f[x] =< g[x]
  PROVE  SumFunctionOnSet(f, S) =< SumFunctionOnSet(g, S)
<1> DEFINE Q == {s \in SUBSET S : SumFunctionOnSet(f, s) =< SumFunctionOnSet(g, s)}
<1>1. ASSUME NEW T \in SUBSET S, \A x \in T : T \ {x} \in Q PROVE T \in Q
  <2>1. CASE T = {}
    BY <2>1, SumOfNone
  <2>2. CASE T # {}
    <3> DEFINE p == Pick(T)
               R == T \ {p}
    <3>1. p \in T /\ IsFiniteSet(T) /\ IsFiniteSet(R)
      BY <2>2, FS_Subset DEF Pick
    <3>2. R \in Q /\ f[p] \in Int /\ g[p] \in Int /\ f[p] =< g[p]
      BY <1>1, <3>1
    <3>3. /\ SumFunctionOnSet(f, T) = f[p] + SumFunctionOnSet(f, R)
          /\ SumFunctionOnSet(g, T) = g[p] + SumFunctionOnSet(g, R)
      BY <2>2, <3>1, SumWithoutPick
    <3>4. SumFunctionOnSet(f, R) \in Int /\ SumFunctionOnSet(g, R) \in Int
      BY <3>1, SumIsInt
    <3>5. SumFunctionOnSet(f, R) =< SumFunctionOnSet(g, R)
      BY <3>2
    <3> HIDE DEF p, R
    <3>6. SumFunctionOnSet(f, T) =< SumFunctionOnSet(g, T)
      BY <3>2, <3>3, <3>4, <3>5
    <3> QED BY <3>6
  <2> QED BY <2>1, <2>2
<1>2. S \in Q
  <2>1. \A T \in SUBSET S : (\A x \in T : T \ {x} \in Q) => T \in Q
    BY <1>1
  <2> HIDE DEF Q
  <2> QED BY <2>1, SubsetInduction
<1> QED BY <1>2

-----------------------------------------------------------------------------
(* What the ledgers use *)

\* Zeros add up to zero.
LEMMA SumOfZeros ==
  ASSUME NEW S, IsFiniteSet(S), NEW f, \A x \in S : f[x] = 0
  PROVE  SumFunctionOnSet(f, S) = 0
<1>1. \A x \in S : f[x] \in Int /\ f[x] = f[x] + f[x]
  OBVIOUS
<1>2. SumFunctionOnSet(f, S) = SumFunctionOnSet(f, S) + SumFunctionOnSet(f, S)
  BY <1>1, SumAdds
<1>3. SumFunctionOnSet(f, S) \in Int
  BY <1>1, SumIsInt
<1> QED BY <1>2, <1>3, SMTT(40)

\* Naturals add up to a natural.
LEMMA SumIsNat ==
  ASSUME NEW S, IsFiniteSet(S), NEW f, \A x \in S : f[x] \in Nat
  PROVE  SumFunctionOnSet(f, S) \in Nat
<1> DEFINE zero == [x \in S |-> 0]
<1>1. SumFunctionOnSet(zero, S) = 0
  BY SumOfZeros
<1>2. SumFunctionOnSet(zero, S) =< SumFunctionOnSet(f, S)
  BY SumIsMonotone
<1>3. SumFunctionOnSet(f, S) \in Int
  BY SumIsInt
<1> QED BY <1>1, <1>2, <1>3

\* No term of natural numbers exceeds their sum.
LEMMA SumBoundsTerms ==
  ASSUME NEW S, IsFiniteSet(S), NEW f, \A x \in S : f[x] \in Nat, NEW a \in S
  PROVE  f[a] =< SumFunctionOnSet(f, S)
<1>1. SumFunctionOnSet(f, S) = f[a] + SumFunctionOnSet(f, S \ {a})
  BY SumWithout
<1>2. SumFunctionOnSet(f, S \ {a}) \in Nat
  BY SumIsNat, FS_Subset
<1> QED BY <1>1, <1>2

\* Changing one term changes the sum by as much.
LEMMA SumOfChanged ==
  ASSUME NEW S, IsFiniteSet(S), NEW f, NEW g, NEW a \in S,
         \A x \in S : f[x] \in Int /\ g[x] \in Int,
         \A x \in S : x # a => g[x] = f[x]
  PROVE  SumFunctionOnSet(g, S) = SumFunctionOnSet(f, S) - f[a] + g[a]
<1>1. /\ SumFunctionOnSet(f, S) = f[a] + SumFunctionOnSet(f, S \ {a})
      /\ SumFunctionOnSet(g, S) = g[a] + SumFunctionOnSet(g, S \ {a})
  BY SumWithout
<1>2. SumFunctionOnSet(f, S \ {a}) = SumFunctionOnSet(g, S \ {a})
  <2>1. IsFiniteSet(S \ {a}) /\ \A x \in S \ {a} : f[x] = g[x]
    BY FS_Subset
  <2> QED BY <2>1, SumOfEqual
<1>3. SumFunctionOnSet(f, S \ {a}) \in Int
  BY SumIsInt, FS_Subset
<1> QED BY <1>1, <1>2, <1>3

\* An element more.
LEMMA SumOfMore ==
  ASSUME NEW S, IsFiniteSet(S), NEW a, a \notin S, NEW f,
         \A x \in S \cup {a} : f[x] \in Int
  PROVE  SumFunctionOnSet(f, S \cup {a}) = SumFunctionOnSet(f, S) + f[a]
<1>1. IsFiniteSet(S \cup {a}) /\ (S \cup {a}) \ {a} = S
  BY FS_AddElement
<1>2. SumFunctionOnSet(f, S \cup {a}) = f[a] + SumFunctionOnSet(f, S)
  BY <1>1, SumWithout
<1>3. SumFunctionOnSet(f, S) \in Int
  BY SumIsInt
<1> QED BY <1>2, <1>3

\* Two sets without a common element.
LEMMA SumOfUnion ==
  ASSUME NEW S, IsFiniteSet(S), NEW T, IsFiniteSet(T), S \cap T = {}, NEW f,
         \A x \in S \cup T : f[x] \in Int
  PROVE  SumFunctionOnSet(f, S \cup T) = SumFunctionOnSet(f, S) + SumFunctionOnSet(f, T)
<1> DEFINE Q == {t \in SUBSET T : SumFunctionOnSet(f, S \cup t) = SumFunctionOnSet(f, S) + SumFunctionOnSet(f, t)}
<1>1. ASSUME NEW U \in SUBSET T, \A x \in U : U \ {x} \in Q PROVE U \in Q
  <2>1. CASE U = {}
    <3>1. S \cup U = S
      BY <2>1
    <3>2. SumFunctionOnSet(f, S) \in Int
      BY SumIsInt
    <3> QED BY <2>1, <3>1, <3>2, SumOfNone
  <2>2. CASE U # {}
    <3>1. PICK p \in U : TRUE
      BY <2>2
    <3> DEFINE R == U \ {p}
    <3>2. /\ IsFiniteSet(U) /\ IsFiniteSet(R) /\ IsFiniteSet(S \cup R)
      BY FS_Subset, FS_Union
    <3>3. R \in Q /\ p \notin R /\ p \notin S \cup R /\ U = R \cup {p} /\ S \cup U = (S \cup R) \cup {p}
      BY <1>1, <3>1
    <3>4. (\A x \in U : f[x] \in Int) /\ (\A x \in S \cup U : f[x] \in Int) /\ f[p] \in Int
      BY <3>1
    <3>5. /\ SumFunctionOnSet(f, U) = SumFunctionOnSet(f, R) + f[p]
          /\ SumFunctionOnSet(f, S \cup U) = SumFunctionOnSet(f, S \cup R) + f[p]
      <4> HIDE DEF R
      <4> QED BY <3>2, <3>3, <3>4, SumOfMore
    <3>6. SumFunctionOnSet(f, R) \in Int /\ SumFunctionOnSet(f, S) \in Int
      BY <3>2, <3>4, SumIsInt
    <3>7. SumFunctionOnSet(f, S \cup R) = SumFunctionOnSet(f, S) + SumFunctionOnSet(f, R)
      BY <3>3
    <3> HIDE DEF R
    <3>8. SumFunctionOnSet(f, S \cup U) = SumFunctionOnSet(f, S) + SumFunctionOnSet(f, U)
      BY <3>4, <3>5, <3>6, <3>7
    <3> QED BY <3>8
  <2> QED BY <2>1, <2>2
<1>2. T \in Q
  <2>1. \A U \in SUBSET T : (\A x \in U : U \ {x} \in Q) => U \in Q
    BY <1>1
  <2> HIDE DEF Q
  <2> QED BY <2>1, SubsetInduction
<1> QED BY <1>2

\* A common factor comes out of a sum.
LEMMA SumScaled ==
  ASSUME NEW S, IsFiniteSet(S), NEW c \in Int, NEW f, NEW g,
         \A x \in S : f[x] \in Int /\ g[x] = c * f[x]
  PROVE  SumFunctionOnSet(g, S) = c * SumFunctionOnSet(f, S)
<1> DEFINE Q == {s \in SUBSET S : SumFunctionOnSet(g, s) = c * SumFunctionOnSet(f, s)}
<1>1. ASSUME NEW T \in SUBSET S, \A x \in T : T \ {x} \in Q PROVE T \in Q
  <2>0. IsFiniteSet(T)
    BY FS_Subset
  <2>1. CASE T = {}
    <3>1. SumFunctionOnSet(g, T) = 0 /\ SumFunctionOnSet(f, T) = 0
      BY <2>1, SumOfNone
    <3> QED BY <3>1
  <2>2. CASE T # {}
    <3>1. PICK x \in T : TRUE
      BY <2>2
    <3> DEFINE sf == SumFunctionOnSet(f, T \ {x})
               sg == SumFunctionOnSet(g, T \ {x})
    <3>2. sg = c * sf
      BY <1>1, <3>1
    <3>3. IsFiniteSet(T \ {x}) /\ \A y \in T \ {x} : f[y] \in Int
      BY <2>0, FS_Subset
    <3>4. sf \in Int
      BY <3>3, SumIsInt
    <3>5. \A y \in T : f[y] \in Int /\ g[y] \in Int
      OBVIOUS
    <3>6. SumFunctionOnSet(f, T) = f[x] + sf
      BY <2>0, <3>1, <3>5, SumWithout
    <3>7. SumFunctionOnSet(g, T) = g[x] + sg
      BY <2>0, <3>1, <3>5, SumWithout
    <3>8. g[x] = c * f[x] /\ f[x] \in Int
      BY <3>1
    <3> HIDE DEF sf, sg
    <3>9. c * (f[x] + sf) = c * f[x] + c * sf
      BY <3>4, <3>8
    <3> QED BY <3>2, <3>6, <3>7, <3>8, <3>9
  <2> QED BY <2>1, <2>2
<1>2. S \in Q
  <2>1. \A T \in SUBSET S : (\A x \in T : T \ {x} \in Q) => T \in Q
    BY <1>1
  <2> HIDE DEF Q
  <2> QED BY <2>1, SubsetInduction
<1> QED BY <1>2

-----------------------------------------------------------------------------
(* Quotients *)

\* Division leaves a remainder below the divisor.
LEMMA Quotient ==
  ASSUME NEW a \in Int, NEW b \in Nat \ {0}
  PROVE  /\ a \div b \in Int
         /\ b * (a \div b) =< a /\ a < b * (a \div b) + b
         /\ a \in Nat => a \div b \in Nat
  OBVIOUS

\* The quotient is the greatest multiple that fits.
LEMMA QuotientIsGreatest ==
  ASSUME NEW a \in Int, NEW b \in Nat \ {0}, NEW q \in Int, b * q =< a
  PROVE  q =< a \div b
<1>1. a < b * (a \div b) + b /\ a \div b \in Int
  BY Quotient
<1> DEFINE r == a \div b
<1> HIDE DEF r
<1>2. a < b * r + b /\ r \in Int
  BY <1>1 DEF r
<1>3. r < q => b * r + b =< b * q
  <2> HAVE r < q
  <2>1. r + 1 =< q
    BY <1>2
  <2>2. b * (r + 1) =< b * q
    BY <1>2, <2>1
  <2> QED BY <1>2, <2>2
<1>4. q =< r
  BY <1>2, <1>3
<1> QED BY <1>4 DEF r

\* A greater amount has no smaller quotient.
LEMMA QuotientIsMonotone ==
  ASSUME NEW a \in Int, NEW c \in Int, a =< c, NEW b \in Nat \ {0}
  PROVE  a \div b =< c \div b
<1>1. a \div b \in Int /\ b * (a \div b) =< a
  BY Quotient
<1>2. b * (a \div b) =< c
  BY <1>1
<1> QED BY <1>1, <1>2, QuotientIsGreatest

\* A greater factor, no smaller product.
LEMMA ProductIsMonotone ==
  ASSUME NEW a \in Nat, NEW b \in Int, NEW c \in Int, b =< c
  PROVE  a * b =< a * c /\ b * a =< c * a
  OBVIOUS

\* Naturals multiply to a natural.
LEMMA ProductIsNat == ASSUME NEW a \in Nat, NEW b \in Nat PROVE a * b \in Nat
  OBVIOUS

\* A multiple divides out.
LEMMA QuotientOfProduct ==
  ASSUME NEW a \in Int, NEW b \in Nat \ {0}
  PROVE  (b * a) \div b = a /\ (a * b) \div b = a
<1>1. b * a \in Int /\ a * b = b * a
  OBVIOUS
<1>2. a =< (b * a) \div b
  BY <1>1, QuotientIsGreatest
<1>3. /\ (b * a) \div b \in Int
      /\ b * ((b * a) \div b) =< b * a
  BY <1>1, Quotient
<1> DEFINE q == (b * a) \div b
<1> HIDE DEF q
<1>4. q \in Int /\ b * q =< b * a /\ a =< q
  BY <1>2, <1>3 DEF q
<1>5. a < q => b * a + b =< b * q
  <2> HAVE a < q
  <2>1. a + 1 =< q
    BY <1>4
  <2>2. b * (a + 1) =< b * q
    BY <1>4, <2>1
  <2> QED BY <1>4, <2>2
<1>6. q = a
  BY <1>4, <1>5
<1> QED BY <1>1, <1>6 DEF q

\* What divides a number divides its multiples exactly.
LEMMA ExactQuotient ==
  ASSUME NEW a \in Nat, NEW s \in Nat, NEW b \in Nat \ {0}, s % b = 0
  PROVE  /\ ((a * s) \div b) \in Nat
         /\ ((a * s) \div b) * b = a * s
<1>1. s \div b \in Nat /\ s = b * (s \div b)
  OBVIOUS
<1> DEFINE q == s \div b
<1> HIDE DEF q
<1>2. q \in Nat /\ s = b * q
  BY <1>1 DEF q
<1>3. a * s = b * (a * q) /\ a * q \in Nat
  BY <1>2
<1>4. (a * s) \div b = a * q
  BY <1>3, QuotientOfProduct
<1> QED BY <1>3, <1>4
=============================================================================
