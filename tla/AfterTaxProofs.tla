--------------------------- MODULE AfterTaxProofs ---------------------------
(***************************************************************************)
(* What the after-tax engine keeps, whatever the market, the weights and   *)
(* the calendar.                                                           *)
(*                                                                         *)
(* A book is a sequence of lots, so its shares are a sum over places; the  *)
(* loops of the code are recursive functions, whose equations come from    *)
(* RecursionTheorems.  The bills that are due are read as a book as well:  *)
(* a payment is a disposal from it, oldest first.  The invariant adds to   *)
(* the books what a step leaves for the next one: which years are billed,  *)
(* that won stay undistributed only until they are converted, and what a   *)
(* harvest still may realize.                                              *)
(***************************************************************************)
EXTENDS AfterTaxEngine, RecursionTheorems

-----------------------------------------------------------------------------
(* Numbers *)

\* The larger of two numbers, as the code's max() of two arguments.
LEMMA MaxOfTwo ==
  ASSUME NEW a \in Int, NEW b \in Int
  PROVE  Max({a, b}) = IF a >= b THEN a ELSE b
<1> DEFINE m == IF a >= b THEN a ELSE b
<1>1. m \in {a, b} /\ \A y \in {a, b} : m >= y
  OBVIOUS
<1>2. \A x \in {a, b} : (\A y \in {a, b} : x >= y) => x = m
  OBVIOUS
<1> QED BY <1>1, <1>2 DEF Max

\* The smaller of two numbers, as the code's min() of two arguments.
LEMMA MinOfTwo ==
  ASSUME NEW a \in Int, NEW b \in Int
  PROVE  Min({a, b}) = IF a =< b THEN a ELSE b
<1> DEFINE m == IF a =< b THEN a ELSE b
<1>1. m \in {a, b} /\ \A y \in {a, b} : m =< y
  OBVIOUS
<1>2. \A x \in {a, b} : (\A y \in {a, b} : x =< y) => x = m
  OBVIOUS
<1> QED BY <1>1, <1>2 DEF Min

-----------------------------------------------------------------------------
(* Sums *)

\* A difference is summed term by term.
LEMMA SumSubtracts ==
  ASSUME NEW S, IsFiniteSet(S), NEW f, NEW g, NEW h,
         \A x \in S : f[x] \in Int /\ g[x] \in Int /\ h[x] = f[x] - g[x]
  PROVE  SumFunctionOnSet(h, S) = SumFunctionOnSet(f, S) - SumFunctionOnSet(g, S)
<1>1. \A x \in S : h[x] \in Int /\ g[x] \in Int /\ f[x] = h[x] + g[x]
  OBVIOUS
<1>2. SumFunctionOnSet(f, S) = SumFunctionOnSet(h, S) + SumFunctionOnSet(g, S)
  BY <1>1, SumAdds
<1>3. \A x \in S : h[x] \in Int
  BY <1>1
<1>4. \A x \in S : g[x] \in Int
  BY <1>1
<1>5. SumFunctionOnSet(h, S) \in Int /\ SumFunctionOnSet(g, S) \in Int
  BY <1>3, <1>4, SumIsInt
<1> QED BY <1>2, <1>5

\* g is f with another term at a.
DiffersAt(S, f, g, a) ==
  /\ IsFiniteSet(S) /\ a \in S
  /\ \A x \in S : f[x] \in Int /\ g[x] \in Int
  /\ \A x \in S : x # a => g[x] = f[x]

\* Changing one term of a sum changes the sum by as much.
LEMMA SumThatDiffers ==
  ASSUME NEW S, NEW f, NEW g, NEW a, DiffersAt(S, f, g, a)
  PROVE  SumFunctionOnSet(g, S) = SumFunctionOnSet(f, S) - f[a] + g[a]
BY SumOfChanged DEF DiffersAt

\* Sums over an initial piece of a sequence.
LEMMA Interval ==
  ASSUME NEW n \in Nat
  PROVE  IsFiniteSet(1 .. n) /\ 1 .. n + 1 = (1 .. n) \cup {n + 1} /\ n + 1 \notin 1 .. n
BY FS_Interval

\* A sum over no lot is nothing.
LEMMA SumUpToNone == ASSUME NEW f PROVE SumFunctionOnSet(f, 1 .. 0) = 0
<1>1. 1 .. 0 = {}
  OBVIOUS
<1> QED BY <1>1, SumOfNone

\* A sum over the first lots grows by the next one.
LEMMA SumUpToNext ==
  ASSUME NEW n \in Nat, NEW f, \A i \in 1 .. n + 1 : f[i] \in Int
  PROVE  /\ SumFunctionOnSet(f, 1 .. n + 1) = SumFunctionOnSet(f, 1 .. n) + f[n + 1]
         /\ SumFunctionOnSet(f, 1 .. n) \in Int
<1>1. IsFiniteSet(1 .. n) /\ 1 .. n + 1 = (1 .. n) \cup {n + 1} /\ n + 1 \notin 1 .. n
  BY Interval
<1>2. \A i \in (1 .. n) \cup {n + 1} : f[i] \in Int
  BY <1>1
<1>3. SumFunctionOnSet(f, (1 .. n) \cup {n + 1}) = SumFunctionOnSet(f, 1 .. n) + f[n + 1]
  BY <1>1, <1>2, SumOfMore, ZenonT(60)
<1>4. \A i \in 1 .. n : f[i] \in Int
  BY <1>2
<1>5. SumFunctionOnSet(f, 1 .. n) \in Int
  BY <1>1, <1>4, SumIsInt
<1> QED BY <1>1, <1>3, <1>5

\* Something true at zero and carried from each number below N to the next is
\* true at N.
LEMMA UpTo ==
  ASSUME NEW N \in Nat, NEW Q, 0 \in Q, \A n \in 0 .. N - 1 : n \in Q => n + 1 \in Q
  PROVE  \A n \in 0 .. N : n \in Q
<1> DEFINE P == {n \in Nat : n =< N => n \in Q}
<1>1. 0 \in P
  OBVIOUS
<1>2. \A n \in Nat : n \in P => n + 1 \in P
  OBVIOUS
<1>3. \A n \in Nat : n \in P
  <2> HIDE DEF P
  <2> QED BY <1>1, <1>2, CountsUp
<1> QED BY <1>3

QtyOf(book) == [n \in DOMAIN book |-> book[n].qty]

\* The quantities of some lots, summed over a table.
LEMMA QtySum ==
  ASSUME NEW book, NEW S
  PROVE  MapThenSumSet(LAMBDA n : book[n].qty, S) = SumFunctionOnSet([n \in S |-> book[n].qty], S)
BY DEF SumFunctionOnSet, MapThenSumSet, FoldFunctionOnSet, MapThenFoldSet

\* The shares of a book are the sum of its lots.
LEMMA QuantityIsSum ==
  ASSUME NEW book, DOMAIN book = 1 .. Len(book)
  PROVE  Quantity(book) = SumFunctionOnSet(QtyOf(book), 1 .. Len(book))
BY QtySum DEF Quantity, QtyOf

\* The basis of some lots, summed over a table.
LEMMA KrwSum ==
  ASSUME NEW book, NEW S
  PROVE  MapThenSumSet(LAMBDA n : book[n].qty * book[n].cost, S) = SumFunctionOnSet([n \in S |-> book[n].qty * book[n].cost], S)
BY DEF SumFunctionOnSet, MapThenSumSet, FoldFunctionOnSet, MapThenFoldSet
\* What a reverse split drops of some lots, summed over a table.
LEMMA RestSum ==
  ASSUME NEW book, NEW k, NEW S
  PROVE  MapThenSumSet(LAMBDA n : book[n].qty % k, S) = SumFunctionOnSet([n \in S |-> book[n].qty % k], S)
BY DEF SumFunctionOnSet, MapThenSumSet, FoldFunctionOnSet, MapThenFoldSet
\* A sum over a function, summed over a table.
LEMMA FnSum ==
  ASSUME NEW f, NEW S
  PROVE  MapThenSumSet(LAMBDA n : f[n], S) = SumFunctionOnSet(f, S)
BY DEF SumFunctionOnSet, MapThenSumSet, FoldFunctionOnSet, MapThenFoldSet

-----------------------------------------------------------------------------
(* The lot book *)

\* A lot that may have been sold out.
AnyLot == [qty : Nat, cost : Nat]

\* A lot that holds shares is a lot.
LEMMA LotIsAny == ASSUME NEW book \in Seq(Lot) PROVE book \in Seq(AnyLot)
<1>1. Lot \subseteq AnyLot
  BY DEF Lot, AnyLot
<1> QED BY <1>1

\* A book of lots has a length and a lot at every place.
LEMMA BookFacts ==
  ASSUME NEW book \in Seq(AnyLot)
  PROVE  /\ Len(book) \in Nat /\ DOMAIN book = 1 .. Len(book) /\ IsFiniteSet(1 .. Len(book))
         /\ \A n \in 1 .. Len(book) : book[n] \in AnyLot /\ book[n].qty \in Nat /\ book[n].cost \in Nat
<1>1. Len(book) \in Nat /\ DOMAIN book = 1 .. Len(book)
  OBVIOUS
<1>2. IsFiniteSet(1 .. Len(book))
  BY <1>1, Interval
<1>3. \A n \in 1 .. Len(book) : book[n] \in AnyLot
  BY <1>1
<1> QED BY <1>1, <1>2, <1>3 DEF AnyLot

\* Shares of the n oldest lots.
UpToLot(book, n) == SumFunctionOnSet(QtyOf(book), 1 .. n)

\* The shares of the first lots grow lot by lot.
LEMMA UpToLotFacts ==
  ASSUME NEW book \in Seq(AnyLot)
  PROVE  /\ UpToLot(book, 0) = 0
         /\ \A n \in 0 .. Len(book) : UpToLot(book, n) \in Nat
         /\ \A n \in 0 .. Len(book) - 1 : UpToLot(book, n + 1) = UpToLot(book, n) + book[n + 1].qty
<1> DEFINE f == QtyOf(book)
<1>1. /\ Len(book) \in Nat /\ DOMAIN book = 1 .. Len(book)
      /\ \A n \in 1 .. Len(book) : book[n].qty \in Nat
  BY BookFacts
<1>2. \A n \in 1 .. Len(book) : f[n] = book[n].qty /\ f[n] \in Nat
  BY <1>1 DEF QtyOf
<1> HIDE DEF f
<1>3. UpToLot(book, 0) = 0
  BY SumUpToNone DEF UpToLot
<1>4. ASSUME NEW n \in 0 .. Len(book) PROVE UpToLot(book, n) \in Nat
  <2>1. n \in Nat /\ \A i \in 1 .. n : f[i] \in Nat
    BY <1>1, <1>2
  <2>2. IsFiniteSet(1 .. n)
    BY <2>1, Interval
  <2> QED BY <2>1, <2>2, SumIsNat DEF UpToLot, f
<1>5. ASSUME NEW n \in 0 .. Len(book) - 1 PROVE UpToLot(book, n + 1) = UpToLot(book, n) + book[n + 1].qty
  <2>1. n \in Nat /\ (\A i \in 1 .. n + 1 : f[i] \in Int) /\ f[n + 1] = book[n + 1].qty
    BY <1>1, <1>2
  <2>2. SumFunctionOnSet(f, 1 .. n + 1) = SumFunctionOnSet(f, 1 .. n) + f[n + 1]
    BY <2>1, SumUpToNext
  <2> QED BY <2>1, <2>2 DEF UpToLot, f
<1> QED BY <1>3, <1>4, <1>5

\* The shares of a book are those of all its lots.
LEMMA QuantityIsUpTo ==
  ASSUME NEW book \in Seq(AnyLot)
  PROVE  Quantity(book) = UpToLot(book, Len(book)) /\ Quantity(book) \in Nat
BY BookFacts, QuantityIsSum, UpToLotFacts DEF UpToLot

\* The shares of a piece are no more than those of a longer one.
LEMMA UpToLotGrows ==
  ASSUME NEW book \in Seq(AnyLot), NEW n \in 0 .. Len(book), NEW m \in 0 .. n
  PROVE  UpToLot(book, m) =< UpToLot(book, n)
<1> DEFINE N == Len(book)
           Q == {k \in 0 .. N : \A i \in 0 .. k : UpToLot(book, i) =< UpToLot(book, k)}
<1>0. N \in Nat /\ \A k \in 1 .. N : book[k].qty \in Nat
  BY BookFacts
<1>1. \A k \in 0 .. N : UpToLot(book, k) \in Nat
  BY UpToLotFacts
<1>2. 0 \in Q
  BY <1>0, <1>1
<1>3. ASSUME NEW k \in 0 .. N - 1, k \in Q PROVE k + 1 \in Q
  <2>1. UpToLot(book, k + 1) = UpToLot(book, k) + book[k + 1].qty /\ book[k + 1].qty \in Nat
    BY <1>0, UpToLotFacts
  <2>2. k \in 0 .. N /\ k + 1 \in 0 .. N
    BY <1>0
  <2>3. \A i \in 0 .. k + 1 : i = k + 1 \/ i \in 0 .. k
    OBVIOUS
  <2>4. \A i \in 0 .. k : UpToLot(book, i) =< UpToLot(book, k) /\ i \in 0 .. N
    BY <1>3, <2>2
  <2>5. \A i \in 0 .. k + 1 : UpToLot(book, i) =< UpToLot(book, k + 1)
    BY <1>1, <2>1, <2>2, <2>3, <2>4
  <2> QED BY <2>2, <2>5
<1>4. n \in Q
  BY <1>0, <1>2, <1>3, UpTo, Zenon
<1> QED BY <1>4

\* A disposal reaches a lot with what the older ones leave.
LEMMA TakenBySum ==
  ASSUME NEW book, NEW q, NEW n
  PROVE  Taken(book, q, n) =
           Max({0, Min({book[n].qty, q - SumFunctionOnSet([m \in 1 .. n - 1 |-> book[m].qty], 1 .. n - 1)})})
BY QtySum DEF Taken

\* A disposal takes nothing from a lot that starts beyond it, all of one that
\* ends within it, and the rest from the one in between.
LEMMA TakenIs ==
  ASSUME NEW book \in Seq(AnyLot), NEW q \in Nat, NEW n \in 0 .. Len(book) - 1
  PROVE  Taken(book, q, n + 1) =
           IF q =< UpToLot(book, n) THEN 0
           ELSE IF q >= UpToLot(book, n + 1) THEN book[n + 1].qty ELSE q - UpToLot(book, n)
<1> DEFINE s == UpToLot(book, n)
           t == book[n + 1].qty
<1>1. Len(book) \in Nat /\ DOMAIN book = 1 .. Len(book) /\ t \in Nat /\ n \in 0 .. Len(book) /\ n \in Nat
  BY BookFacts
<1>2. s \in Nat /\ UpToLot(book, n + 1) = s + t
  BY <1>1, UpToLotFacts
<1>3. SumFunctionOnSet([m \in 1 .. n |-> book[m].qty], 1 .. n) = s
  <2>1. IsFiniteSet(1 .. n) /\ \A m \in 1 .. n : [k \in 1 .. n |-> book[k].qty][m] = QtyOf(book)[m]
    BY <1>1, Interval DEF QtyOf
  <2>2. SumFunctionOnSet([m \in 1 .. n |-> book[m].qty], 1 .. n) = SumFunctionOnSet(QtyOf(book), 1 .. n)
    BY <2>1, SumOfEqual
  <2> QED BY <2>2 DEF UpToLot
<1>4. Taken(book, q, n + 1) = Max({0, Min({t, q - s})})
  <2>1. PICK k : k = n + 1
    OBVIOUS
  <2>2. k - 1 = n
    BY <1>1, <2>1
  <2>3. Taken(book, q, k) =
          Max({0, Min({book[k].qty, q - SumFunctionOnSet([m \in 1 .. k - 1 |-> book[m].qty], 1 .. k - 1)})})
    BY TakenBySum
  <2>4. Taken(book, q, k) = Max({0, Min({book[k].qty, q - SumFunctionOnSet([m \in 1 .. n |-> book[m].qty], 1 .. n)})})
    BY <2>2, <2>3, Zenon
  <2> QED BY <1>3, <2>1, <2>4, Zenon
<1> HIDE DEF s, t
<1>5. Min({t, q - s}) = IF t =< q - s THEN t ELSE q - s
  BY <1>1, <1>2, MinOfTwo
<1>6. Min({t, q - s}) \in Int
  BY <1>1, <1>2, <1>5
<1>7. Max({0, Min({t, q - s})}) = IF 0 >= Min({t, q - s}) THEN 0 ELSE Min({t, q - s})
  <2>1. PICK k : k = Min({t, q - s})
    OBVIOUS
  <2>2. k \in Int /\ 0 \in Int
    BY <1>6, <2>1
  <2>3. Max({0, k}) = IF 0 >= k THEN 0 ELSE k
    BY <2>2, MaxOfTwo
  <2> QED BY <2>1, <2>3
<1>8. Taken(book, q, n + 1) = IF q =< s THEN 0 ELSE IF q >= s + t THEN t ELSE q - s
  BY <1>1, <1>2, <1>4, <1>5, <1>7
<1> QED BY <1>2, <1>8 DEF s, t

\* A disposal takes at most a lot from a lot.
LEMMA TakenFacts ==
  ASSUME NEW book \in Seq(AnyLot), NEW q \in Nat
  PROVE  \A n \in 1 .. Len(book) : Taken(book, q, n) \in Nat /\ Taken(book, q, n) =< book[n].qty
<1> TAKE n \in 1 .. Len(book)
<1>1. Len(book) \in Nat /\ book[n].qty \in Nat /\ n - 1 \in 0 .. Len(book) - 1 /\ n - 1 \in 0 .. Len(book) /\ n \in 0 .. Len(book) /\ n - 1 + 1 = n
  BY BookFacts
<1>2. /\ UpToLot(book, n - 1) \in Nat /\ UpToLot(book, n) \in Nat
      /\ UpToLot(book, n) = UpToLot(book, n - 1) + book[n].qty
  BY <1>1, UpToLotFacts
<1>3. Taken(book, q, n - 1 + 1) = IF q =< UpToLot(book, n - 1) THEN 0
           ELSE IF q >= UpToLot(book, n - 1 + 1) THEN book[n - 1 + 1].qty ELSE q - UpToLot(book, n - 1)
  BY <1>1, TakenIs
<1> QED BY <1>1, <1>2, <1>3

TakenOf(book, q) == [n \in DOMAIN book |-> Taken(book, q, n)]

\* A disposal of shares the book has takes exactly that many.
LEMMA TakenAddsUp ==
  ASSUME NEW book \in Seq(AnyLot), NEW q \in 0 .. Quantity(book)
  PROVE  SumFunctionOnSet(TakenOf(book, q), 1 .. Len(book)) = q
<1> DEFINE N == Len(book)
           f == TakenOf(book, q)
           P(n) == UpToLot(book, n)
           T(n) == SumFunctionOnSet(f, 1 .. n)
           Q == {n \in 0 .. N : T(n) = IF q =< P(n) THEN q ELSE P(n)}
<1>1. N \in Nat /\ DOMAIN book = 1 .. N /\ \A k \in 1 .. N : book[k].qty \in Nat
  BY BookFacts
<1>2. q \in Nat /\ q =< P(N)
  BY QuantityIsUpTo
<1>3. \A n \in 1 .. N : f[n] = Taken(book, q, n) /\ f[n] \in Nat
  BY <1>1, <1>2, TakenFacts DEF TakenOf
<1>4. /\ P(0) = 0 /\ (\A n \in 0 .. N : P(n) \in Nat)
      /\ \A n \in 0 .. N - 1 : P(n + 1) = P(n) + book[n + 1].qty
  BY UpToLotFacts
<1> HIDE DEF f
<1>5. 0 \in Q
  <2>1. T(0) = 0
    BY SumUpToNone
  <2> QED BY <1>1, <1>2, <1>4, <2>1
<1>6. ASSUME NEW n \in 0 .. N - 1, n \in Q PROVE n + 1 \in Q
  <2>1. n \in Nat /\ n + 1 \in 1 .. N /\ n + 1 \in 0 .. N /\ n \in 0 .. N
    BY <1>1
  <2>2. \A i \in 1 .. n + 1 : f[i] \in Int
    BY <1>3, <2>1
  <2>3. T(n + 1) = T(n) + f[n + 1]
    BY <2>1, <2>2, SumUpToNext
  <2>4. f[n + 1] = IF q =< P(n) THEN 0 ELSE IF q >= P(n + 1) THEN book[n + 1].qty ELSE q - P(n)
    BY <1>2, <1>3, <2>1, TakenIs
  <2>5. T(n) = IF q =< P(n) THEN q ELSE P(n)
    BY <1>6
  <2>6. P(n) \in Nat /\ P(n + 1) = P(n) + book[n + 1].qty /\ book[n + 1].qty \in Nat
    BY <1>1, <1>4, <2>1
  <2> HIDE DEF P, T
  <2>7. T(n + 1) = IF q =< P(n + 1) THEN q ELSE P(n + 1)
    BY <1>2, <2>3, <2>4, <2>5, <2>6
  <2> QED BY <2>1, <2>7 DEF P, T
<1>7. N \in Q
  <2> HIDE DEF Q
  <2>1. \A k \in 0 .. N : k \in Q
    BY <1>1, <1>5, <1>6, UpTo
  <2> QED BY <1>1, <2>1
<1> QED BY <1>1, <1>2, <1>7 DEF f

-----------------------------------------------------------------------------
(* Loops over a book *)

\* The values of a loop over 1 .. N: one step for each pass.
LoopRuns(N, R, start, step, g) ==
  g \in [0 .. N -> R] /\ g[0] = start /\ \A n \in 1 .. N : g[n] = step[n][g[n - 1]]
IsStep(N, R, step) == step \in [1 .. N -> [R -> R]]

\* A loop over 1 .. N has a value after each pass.
LEMMA LoopExists ==
  ASSUME NEW N \in Nat, NEW R, NEW start \in R, NEW step, IsStep(N, R, step)
  PROVE  \E g : LoopRuns(N, R, start, step, g)
<1> USE DEF IsStep
<1> DEFINE Runs(g, m) == g \in [0 .. m -> R] /\ g[0] = start /\ \A n \in 1 .. m : g[n] = step[n][g[n - 1]]
           Q == {m \in 0 .. N : \E g : Runs(g, m)}
<1>1. 0 \in Q
  <2>1. Runs([n \in 0 .. 0 |-> start], 0)
    OBVIOUS
  <2> HIDE DEF Runs
  <2> QED BY <2>1
<1>2. ASSUME NEW m \in 0 .. N - 1, m \in Q PROVE m + 1 \in Q
  <2>1. PICK g : Runs(g, m)
    BY <1>2
  <2> DEFINE h == [n \in 0 .. m + 1 |-> IF n = m + 1 THEN step[m + 1][g[m]] ELSE g[n]]
  <2>2. m \in Nat /\ m + 1 \in 1 .. N /\ m \in 0 .. m /\ g[m] \in R /\ step[m + 1] \in [R -> R]
    BY <2>1
  <2>3. step[m + 1][g[m]] \in R
    BY <2>2
  <2>4. h \in [0 .. m + 1 -> R]
    <3>1. \A n \in 0 .. m + 1 : n = m + 1 \/ n \in 0 .. m
      OBVIOUS
    <3>2. \A n \in 0 .. m + 1 : h[n] \in R
      BY <2>1, <2>3, <3>1
    <3> QED BY <3>2
  <2>5. h[0] = start
    BY <2>1, <2>2
  <2>6. ASSUME NEW n \in 1 .. m + 1 PROVE h[n] = step[n][h[n - 1]]
    <3>1. n - 1 \in 0 .. m /\ n - 1 \in 0 .. m + 1 /\ n - 1 # m + 1 /\ n \in 0 .. m + 1
      BY <2>2
    <3>2. h[n - 1] = g[n - 1]
      BY <3>1
    <3>3. CASE n = m + 1
      BY <2>2, <3>1, <3>2, <3>3
    <3>4. CASE n # m + 1
      BY <3>1, <3>4, <2>1, <3>2
    <3> QED BY <3>3, <3>4
  <2>7. Runs(h, m + 1)
    <3> HIDE DEF h
    <3> QED BY <2>4, <2>5, <2>6
  <2> HIDE DEF Runs, h
  <2> QED BY <2>2, <2>7
<1>3. N \in Q
  <2> HIDE DEF Q
  <2>1. \A k \in 0 .. N : k \in Q
    BY <1>1, <1>2, UpTo
  <2> QED BY <2>1
<1> QED BY <1>3 DEF LoopRuns

PositiveLoop(book) ==
  LET kept[n \in 0 .. Len(book)] ==
        IF n = 0 THEN <<>>
        ELSE IF book[n].qty > 0 THEN Append(kept[n - 1], book[n]) ELSE kept[n - 1]
  IN kept

\* Dropping the empty lots is a loop over the book.
LEMMA PositiveLoopRuns ==
  ASSUME NEW book \in Seq(AnyLot)
  PROVE  LET g == PositiveLoop(book) IN
         /\ Positive(book) = g[Len(book)]
         /\ g[0] = <<>>
         /\ \A n \in 1 .. Len(book) :
              g[n] = IF book[n].qty > 0 THEN Append(g[n - 1], book[n]) ELSE g[n - 1]
<1> DEFINE N == Len(book)
           R == Seq(AnyLot)
           body(k, n) == IF n = 0 THEN <<>>
                         ELSE IF book[n].qty > 0 THEN Append(k[n - 1], book[n]) ELSE k[n - 1]
           step == [n \in 1 .. N |-> [r \in R |-> IF book[n].qty > 0 THEN Append(r, book[n]) ELSE r]]
           g == PositiveLoop(book)
<1>1. N \in Nat /\ <<>> \in R /\ \A n \in 1 .. N : book[n] \in AnyLot
  BY BookFacts
<1>2. step \in [1 .. N -> [R -> R]]
  BY <1>1
<1>3. PICK k : LoopRuns(N, R, <<>>, step, k)
  <2>1. IsStep(N, R, step)
    BY <1>2 DEF IsStep
  <2> HIDE DEF step, R, N
  <2> QED BY <1>1, <2>1, LoopExists
<1> USE DEF LoopRuns
<1>4. ASSUME NEW n \in 0 .. N PROVE k[n] = body(k, n)
  <2>1. CASE n = 0
    BY <1>3, <2>1
  <2>2. CASE n # 0
    <3>1. n \in 1 .. N /\ n - 1 \in 0 .. N /\ k[n - 1] \in R
      BY <1>1, <1>3, <2>2
    <3>2. k[n] = step[n][k[n - 1]]
      BY <1>3, <3>1
    <3> QED BY <2>2, <3>1, <3>2
  <2> QED BY <2>1, <2>2
<1>5. k = [n \in 0 .. N |-> body(k, n)]
  <2> HIDE DEF body
  <2> QED BY <1>3, <1>4
<1>6. \E f : f = [n \in 0 .. N |-> body(f, n)]
  <2> HIDE DEF body, step
  <2> QED BY <1>5
<1>7. g = [n \in 0 .. N |-> body(g, n)]
  BY <1>6 DEF PositiveLoop
<1> HIDE DEF g
<1>8. \A n \in 0 .. N : g[n] = body(g, n)
  <2> HIDE DEF body
  <2> QED BY <1>7
<1>9. Positive(book) = g[Len(book)]
  BY DEF Positive, PositiveLoop, g
<1>10. g[0] = <<>>
  BY <1>1, <1>8
<1>11. \A n \in 1 .. N : g[n] = IF book[n].qty > 0 THEN Append(g[n - 1], book[n]) ELSE g[n - 1]
  BY <1>1, <1>8
<1> QED BY <1>9, <1>10, <1>11 DEF g

\* A lot more at the young end.
LEMMA AppendedLot ==
  ASSUME NEW book \in Seq(AnyLot), NEW lot \in AnyLot
  PROVE  Append(book, lot) \in Seq(AnyLot) /\ Quantity(Append(book, lot)) = Quantity(book) + lot.qty
<1> DEFINE N == Len(book)
           more == Append(book, lot)
<1>1. N \in Nat /\ DOMAIN book = 1 .. N /\ \A n \in 1 .. N : book[n].qty \in Nat
  BY BookFacts
<1>2. /\ more \in Seq(AnyLot) /\ Len(more) = N + 1 /\ DOMAIN more = 1 .. N + 1
      /\ \A n \in 1 .. N : more[n] = book[n]
      /\ more[N + 1] = lot
  BY <1>1
<1> HIDE DEF more
<1>3. UpToLot(more, N + 1) = UpToLot(more, N) + lot.qty
  <2>1. N \in 0 .. Len(more) - 1
    BY <1>1, <1>2
  <2> QED BY <1>2, <2>1, UpToLotFacts
<1>4. UpToLot(more, N) = UpToLot(book, N)
  <2>1. IsFiniteSet(1 .. N) /\ \A n \in 1 .. N : n \in 1 .. N + 1
    BY <1>1, Interval
  <2>2. \A n \in 1 .. N : QtyOf(more)[n] = QtyOf(book)[n]
    BY <1>1, <1>2, <2>1 DEF QtyOf
  <2>3. SumFunctionOnSet(QtyOf(more), 1 .. N) = SumFunctionOnSet(QtyOf(book), 1 .. N)
    BY <2>1, <2>2, SumOfEqual
  <2> QED BY <2>3 DEF UpToLot
<1>5. Quantity(book) = UpToLot(book, N) /\ Quantity(more) = UpToLot(more, N + 1)
  BY <1>2, QuantityIsUpTo
<1> QED BY <1>2, <1>3, <1>4, <1>5 DEF more

\* A book without lots holds no share.
LEMMA EmptyBook == <<>> \in Seq(Lot) /\ <<>> \in Seq(AnyLot) /\ Quantity(<<>>) = 0
<1>1. <<>> \in Seq(Lot) /\ <<>> \in Seq(AnyLot) /\ Len(<<>>) = 0
  OBVIOUS
<1> QED BY <1>1, QuantityIsUpTo, UpToLotFacts

\* Dropping the sold out lots keeps every share.
LEMMA PositiveKeeps ==
  ASSUME NEW book \in Seq(AnyLot)
  PROVE  Positive(book) \in Seq(Lot) /\ Quantity(Positive(book)) = Quantity(book)
<1> DEFINE N == Len(book)
           g == PositiveLoop(book)
           Q == {n \in 0 .. N : g[n] \in Seq(Lot) /\ Quantity(g[n]) = UpToLot(book, n)}
<1>1. N \in Nat /\ \A n \in 1 .. N : book[n] \in AnyLot /\ book[n].qty \in Nat /\ book[n].cost \in Nat
  BY BookFacts
<1>2. /\ Positive(book) = g[N] /\ g[0] = <<>>
      /\ \A n \in 1 .. N : g[n] = IF book[n].qty > 0 THEN Append(g[n - 1], book[n]) ELSE g[n - 1]
  BY PositiveLoopRuns
<1> HIDE DEF g
<1>3. 0 \in Q
  <2>1. UpToLot(book, 0) = 0 /\ 0 \in 0 .. N
    BY <1>1, UpToLotFacts
  <2> QED BY <1>2, <2>1, EmptyBook
<1>4. ASSUME NEW n \in 0 .. N - 1, n \in Q PROVE n + 1 \in Q
  <2>1. n \in Nat /\ n + 1 \in 1 .. N /\ n + 1 \in 0 .. N /\ n + 1 - 1 = n
    BY <1>1
  <2>2. g[n] \in Seq(Lot) /\ g[n] \in Seq(AnyLot) /\ Quantity(g[n]) = UpToLot(book, n)
    BY <1>4, LotIsAny
  <2>3. UpToLot(book, n + 1) = UpToLot(book, n) + book[n + 1].qty /\ UpToLot(book, n) \in Nat
    BY <2>1, UpToLotFacts
  <2>4. CASE book[n + 1].qty > 0
    <3>1. PICK k \in 1 .. N : k = n + 1 /\ k - 1 = n
      BY <2>1
    <3>6. book[k].qty > 0
      BY <2>4, <3>1
    <3>7. g[k] = Append(g[k - 1], book[k])
      BY <1>2, <3>6
    <3>5. g[n + 1] = Append(g[n], book[n + 1])
      BY <3>1, <3>7
    <3>2. book[n + 1] \in Lot
      BY <1>1, <2>1, <2>4 DEF Lot, AnyLot
    <3>3. g[n + 1] \in Seq(Lot)
      BY <2>2, <3>5, <3>2
    <3>4. Quantity(Append(g[n], book[n + 1])) = Quantity(g[n]) + book[n + 1].qty
      BY <1>1, <2>1, <2>2, AppendedLot
    <3> QED BY <2>1, <2>2, <2>3, <3>5, <3>3, <3>4
  <2>5. CASE ~ (book[n + 1].qty > 0)
    <3>1. g[n + 1] = g[n] /\ book[n + 1].qty = 0
      BY <1>1, <1>2, <2>1, <2>5
    <3> QED BY <2>1, <2>2, <2>3, <3>1
  <2> QED BY <2>4, <2>5
<1>5. N \in Q
  <2> HIDE DEF Q
  <2>1. \A k \in 0 .. N : k \in Q
    BY <1>1, <1>3, <1>4, UpTo
  <2> QED BY <1>1, <2>1
<1> QED BY <1>2, <1>5, QuantityIsUpTo

-----------------------------------------------------------------------------
(* What the operations leave *)

\* A table of lots is a book.
LEMMA TableIsBook ==
  ASSUME NEW N \in Nat, NEW T, NEW f \in [1 .. N -> T]
  PROVE  f \in Seq(T) /\ Len(f) = N /\ DOMAIN f = 1 .. N
OBVIOUS

\* A purchase adds its shares to the book.
LEMMA BuyIs ==
  ASSUME NEW book \in Seq(Lot), NEW q \in Nat, NEW cost \in Nat
  PROVE  Buy(book, q, cost) \in Seq(Lot) /\ Quantity(Buy(book, q, cost)) = Quantity(book) + q
<1>0. book \in Seq(AnyLot) /\ Quantity(book) \in Nat
  BY LotIsAny, QuantityIsUpTo
<1>1. CASE q = 0
  BY <1>0, <1>1 DEF Buy
<1>2. CASE q # 0
  <2>1. PICK lot : lot = [qty |-> q, cost |-> cost]
    OBVIOUS
  <2>2. lot \in Lot /\ lot \in AnyLot /\ lot.qty = q
    BY <1>2, <2>1 DEF Lot, AnyLot
  <2>3. Buy(book, q, cost) = Append(book, lot)
    BY <1>2, <2>1 DEF Buy
  <2>4. Quantity(Append(book, lot)) = Quantity(book) + lot.qty
    BY <1>0, <2>2, AppendedLot
  <2>5. Append(book, lot) \in Seq(Lot)
    BY <2>2
  <2> QED BY <2>2, <2>3, <2>4, <2>5
<1> QED BY <1>1, <1>2

\* A sale takes its shares from the book and leaves lots that hold shares.
LEMMA SellIs ==
  ASSUME NEW book \in Seq(Lot), NEW q \in 0 .. Quantity(book)
  PROVE  Sell(book, q) \in Seq(Lot) /\ Quantity(Sell(book, q)) = Quantity(book) - q
<1> DEFINE N == Len(book)
           rest == [n \in DOMAIN book |-> [book[n] EXCEPT !.qty = @ - Taken(book, q, n)]]
<1>0. book \in Seq(AnyLot) /\ Quantity(book) \in Nat /\ q \in Nat
  BY LotIsAny, QuantityIsUpTo
<1>1. /\ N \in Nat /\ DOMAIN book = 1 .. N /\ IsFiniteSet(1 .. N)
      /\ \A n \in 1 .. N : book[n] \in AnyLot /\ book[n].qty \in Nat
  BY <1>0, BookFacts
<1>2. \A n \in 1 .. N : Taken(book, q, n) \in Nat /\ Taken(book, q, n) =< book[n].qty
  BY <1>0, TakenFacts
<1>3. ASSUME NEW n \in 1 .. N
      PROVE  rest[n] \in AnyLot /\ rest[n].qty = book[n].qty - Taken(book, q, n)
  <2>1. rest[n] = [book[n] EXCEPT !.qty = @ - Taken(book, q, n)]
    BY <1>1
  <2>2. book[n].qty - Taken(book, q, n) \in Nat
    BY <1>1, <1>2
  <2>3. book[n] \in [qty : Nat, cost : Nat]
    BY <1>1 DEF AnyLot
  <2> QED BY <2>1, <2>2, <2>3 DEF AnyLot
<1>4. rest \in Seq(AnyLot) /\ Len(rest) = N /\ DOMAIN rest = 1 .. N
  <2>1. rest \in [1 .. N -> AnyLot]
    BY <1>1, <1>3
  <2> HIDE DEF rest
  <2> QED BY <1>1, <2>1, TableIsBook
<1>5. Quantity(rest) = Quantity(book) - q
  <2>1. \A n \in 1 .. N : /\ QtyOf(rest)[n] = rest[n].qty
                          /\ QtyOf(book)[n] = book[n].qty
                          /\ TakenOf(book, q)[n] = Taken(book, q, n)
    BY <1>1, <1>4 DEF QtyOf, TakenOf
  <2>2. \A n \in 1 .. N : /\ QtyOf(book)[n] \in Int /\ TakenOf(book, q)[n] \in Int
                          /\ QtyOf(rest)[n] = QtyOf(book)[n] - TakenOf(book, q)[n]
    <3> HIDE DEF rest
    <3> TAKE n \in 1 .. N
    <3>1. /\ QtyOf(rest)[n] = book[n].qty - Taken(book, q, n)
          /\ QtyOf(book)[n] = book[n].qty /\ TakenOf(book, q)[n] = Taken(book, q, n)
      BY <1>3, <2>1
    <3>2. book[n].qty \in Int /\ Taken(book, q, n) \in Int
      BY <1>1, <1>2
    <3> QED BY <3>1, <3>2
  <2>3. SumFunctionOnSet(QtyOf(rest), 1 .. N)
          = SumFunctionOnSet(QtyOf(book), 1 .. N) - SumFunctionOnSet(TakenOf(book, q), 1 .. N)
    BY <1>1, <2>2, SumSubtracts
  <2>4. SumFunctionOnSet(TakenOf(book, q), 1 .. N) = q
    BY <1>0, TakenAddsUp
  <2>5. Quantity(rest) = UpToLot(rest, N) /\ Quantity(book) = UpToLot(book, N)
    BY <1>0, <1>4, QuantityIsUpTo
  <2> QED BY <2>3, <2>4, <2>5 DEF UpToLot
<1>6. Sell(book, q) = Positive(rest)
  BY DEF Sell
<1> HIDE DEF rest
<1> QED BY <1>4, <1>5, <1>6, PositiveKeeps

\* A forward split leaves lots that hold shares.
LEMMA SplitForwardIs ==
  ASSUME NEW book \in Seq(Lot), NEW k \in Nat \ {0}
  PROVE  SplitForward(book, k) \in Seq(Lot)
<1> DEFINE N == Len(book)
           f == SplitForward(book, k)
<1>1. N \in Nat /\ DOMAIN book = 1 .. N /\ \A n \in 1 .. N : book[n] \in Lot
  OBVIOUS
<1>2. ASSUME NEW n \in 1 .. N PROVE f[n] \in Lot
  <2>1. f[n] = [qty |-> book[n].qty * k, cost |-> book[n].cost \div k]
    BY <1>1 DEF SplitForward
  <2>2. book[n].qty \in Nat \ {0} /\ book[n].cost \in Nat
    BY <1>1 DEF Lot
  <2>3. book[n].qty * k \in Nat \ {0}
    BY <2>2
  <2>4. book[n].cost \div k \in Nat
    BY <2>2, Quotient
  <2> QED BY <2>1, <2>3, <2>4 DEF Lot
<1>3. f \in [1 .. N -> Lot]
  BY <1>1, <1>2 DEF SplitForward
<1> HIDE DEF f
<1>4. f \in Seq(Lot)
  BY <1>1, <1>3, TableIsBook
<1> QED BY <1>4 DEF f

\* A reverse split leaves lots that hold shares.
LEMMA SplitReverseIs ==
  ASSUME NEW book \in Seq(Lot), NEW k \in Nat \ {0}
  PROVE  SplitReverse(book, k) \in Seq(Lot)
<1> DEFINE N == Len(book)
           f == [n \in DOMAIN book |-> [qty |-> book[n].qty \div k, cost |-> book[n].cost * k]]
<1>1. N \in Nat /\ DOMAIN book = 1 .. N /\ \A n \in 1 .. N : book[n] \in Lot
  OBVIOUS
<1>2. ASSUME NEW n \in 1 .. N PROVE f[n] \in AnyLot
  <2>1. book[n].qty \in Nat /\ book[n].cost \in Nat
    BY <1>1 DEF Lot
  <2>2. book[n].qty \div k \in Nat /\ book[n].cost * k \in Nat
    BY <2>1, Quotient
  <2> QED BY <1>1, <2>2 DEF AnyLot
<1>3. f \in [1 .. N -> AnyLot]
  BY <1>1, <1>2
<1>4. SplitReverse(book, k) = Positive(f)
  BY DEF SplitReverse
<1> HIDE DEF f
<1>5. f \in Seq(AnyLot)
  BY <1>1, <1>3, TableIsBook
<1> QED BY <1>4, <1>5, PositiveKeeps

\* The shares a reverse split cashes out are counted.
LEMMA RemainderIsNat ==
  ASSUME NEW book \in Seq(Lot), NEW k \in Nat \ {0}
  PROVE  Remainder(book, k) \in Nat
<1> DEFINE f == [n \in 1 .. Len(book) |-> book[n].qty % k]
<1>1. IsFiniteSet(1 .. Len(book)) /\ \A n \in 1 .. Len(book) : book[n].qty \in Nat
  BY LotIsAny, BookFacts
<1>2. \A n \in 1 .. Len(book) : f[n] \in Nat
  BY <1>1
<1>3. Remainder(book, k) = SumFunctionOnSet(f, 1 .. Len(book))
  BY RestSum DEF Remainder
<1> HIDE DEF f
<1> QED BY <1>1, <1>2, <1>3, SumIsNat

\* The basis of a book is an amount.
LEMMA BasisIsNat ==
  ASSUME NEW book \in Seq(Lot)
  PROVE  BasisKrw(book) \in Nat
<1> DEFINE f == [n \in 1 .. Len(book) |-> book[n].qty * book[n].cost]
<1>1. IsFiniteSet(1 .. Len(book)) /\ \A n \in 1 .. Len(book) : book[n].qty \in Nat /\ book[n].cost \in Nat
  BY LotIsAny, BookFacts
<1>2. \A n \in 1 .. Len(book) : f[n] \in Nat
  BY <1>1, ProductIsNat
<1>3. BasisKrw(book) = SumFunctionOnSet(f, 1 .. Len(book))
  BY KrwSum DEF BasisKrw
<1> HIDE DEF f
<1> QED BY <1>1, <1>2, <1>3, SumIsNat

\* The basis a disposal takes with it, lot by lot.
BasisOf(book, q) == [n \in 1 .. Len(book) |-> Taken(book, q, n) * book[n].cost]

\* The basis of a disposal is summed lot by lot.
LEMMA DisposedIs ==
  ASSUME NEW book \in Seq(AnyLot), NEW q \in Nat
  PROVE  /\ DisposedBasis(book, q) = SumFunctionOnSet(BasisOf(book, q), 1 .. Len(book))
         /\ DisposedBasis(book, q) \in Nat
<1> DEFINE f(n) == Taken(book, q, n) * book[n].cost
           S == 1 .. Len(book)
<1>1. IsFiniteSet(S) /\ \A n \in S : Taken(book, q, n) \in Nat /\ book[n].cost \in Nat
  BY BookFacts, TakenFacts
<1>2. \A n \in S : BasisOf(book, q)[n] \in Nat
  BY <1>1, ProductIsNat DEF BasisOf
<1>3. DisposedBasis(book, q) = SumFunctionOnSet(BasisOf(book, q), S)
  <2>1. MapThenSumSet(f, S) = SumFunctionOnSet([n \in S |-> f(n)], S)
    <3> HIDE DEF f, S
    <3> QED BY DEF SumFunctionOnSet, MapThenSumSet, FoldFunctionOnSet, MapThenFoldSet
  <2> QED BY <2>1 DEF DisposedBasis, BasisOf
<1> HIDE DEF S
<1>4. SumFunctionOnSet(BasisOf(book, q), S) \in Nat
  BY <1>1, <1>2, SumIsNat
<1> QED BY <1>3, <1>4 DEF S

-----------------------------------------------------------------------------
(* The harvest *)

\* What a disposal of q shares at a price of p KRW gains.
GainOf(book, p, q) == q * p - DisposedBasis(book, q)
GainsOf(book, p, q) == [n \in 1 .. Len(book) |-> Taken(book, q, n) * (p - book[n].cost)]

\* The gain of a disposal is summed lot by lot.
LEMMA GainIsSum ==
  ASSUME NEW book \in Seq(AnyLot), NEW p \in Int, NEW q \in 0 .. Quantity(book)
  PROVE  /\ GainOf(book, p, q) = SumFunctionOnSet(GainsOf(book, p, q), 1 .. Len(book))
         /\ GainOf(book, p, q) \in Int
<1> DEFINE S == 1 .. Len(book)
           T == TakenOf(book, q)
           B == BasisOf(book, q)
           G == GainsOf(book, p, q)
           W == [n \in S |-> p * T[n]]
<1>1. q \in Nat
  BY QuantityIsUpTo
<1>2. /\ IsFiniteSet(S) /\ DOMAIN book = S
      /\ \A n \in S : Taken(book, q, n) \in Nat /\ book[n].cost \in Nat
  BY <1>1, BookFacts, TakenFacts
<1>3. \A n \in S : /\ T[n] = Taken(book, q, n) /\ B[n] = Taken(book, q, n) * book[n].cost
                   /\ G[n] = Taken(book, q, n) * (p - book[n].cost)
  BY <1>2 DEF TakenOf, BasisOf, GainsOf
<1>4. SumFunctionOnSet(T, S) = q
  BY TakenAddsUp
<1>5. DisposedBasis(book, q) = SumFunctionOnSet(B, S) /\ DisposedBasis(book, q) \in Nat
  BY <1>1, DisposedIs
<1> HIDE DEF S, T, B, G
<1>6. \A n \in S : T[n] \in Int /\ W[n] = p * T[n]
  BY <1>2, <1>3
<1> HIDE DEF W
<1>7. SumFunctionOnSet(W, S) = p * SumFunctionOnSet(T, S)
  BY <1>2, <1>6, SumScaled
<1>8. \A n \in S : W[n] \in Int /\ B[n] \in Int /\ G[n] = W[n] - B[n]
  <2> TAKE n \in S
  <2>1. ASSUME NEW t \in Nat, NEW c \in Nat PROVE t * (p - c) = p * t - t * c /\ t * c \in Int /\ p * t \in Int
    OBVIOUS
  <2>2. Taken(book, q, n) \in Nat /\ book[n].cost \in Nat
    BY <1>2
  <2>3. Taken(book, q, n) * (p - book[n].cost) = p * Taken(book, q, n) - Taken(book, q, n) * book[n].cost
    BY <2>1, <2>2
  <2>4. Taken(book, q, n) * book[n].cost \in Int /\ p * Taken(book, q, n) \in Int
    BY <2>1, <2>2
  <2> QED BY <1>3, <1>6, <2>3, <2>4
<1>9. SumFunctionOnSet(G, S) = SumFunctionOnSet(W, S) - SumFunctionOnSet(B, S)
  BY <1>2, <1>8, SumSubtracts
<1>10. p * q = q * p /\ p * q \in Int
  BY <1>1
<1>11. GainOf(book, p, q) = SumFunctionOnSet(G, S)
  BY <1>4, <1>5, <1>7, <1>9, <1>10 DEF GainOf
<1>12. GainOf(book, p, q) \in Int
  BY <1>5, <1>10 DEF GainOf
<1> QED BY <1>11, <1>12 DEF S, G

\* As long as every lot it reaches gains, a larger disposal gains more: one
\* share, one KRW at least.
LEMMA GainGrows ==
  ASSUME NEW book \in Seq(AnyLot), NEW p \in Int, NEW K \in 0 .. Len(book),
         \A m \in 1 .. K : book[m].cost < p,
         NEW q \in Nat, NEW r \in Nat, q =< r, r =< UpToLot(book, K)
  PROVE  GainOf(book, p, q) + (r - q) =< GainOf(book, p, r)
<1> DEFINE N == Len(book)
           S == 1 .. N
           Tq == TakenOf(book, q)
           Tr == TakenOf(book, r)
           Gq == GainsOf(book, p, q)
           Gr == GainsOf(book, p, r)
           D == [n \in S |-> Tr[n] - Tq[n]]
           M == [n \in S |-> Gq[n] + D[n]]
<1>0. N \in Nat /\ K \in 0 .. N /\ N \in 0 .. N /\ IsFiniteSet(S) /\ DOMAIN book = S
  BY BookFacts
<1>1. UpToLot(book, K) =< Quantity(book) /\ Quantity(book) \in Nat /\ UpToLot(book, K) \in Nat
  BY <1>0, UpToLotGrows, QuantityIsUpTo, UpToLotFacts
<1>2. q \in 0 .. Quantity(book) /\ r \in 0 .. Quantity(book)
  BY <1>1
<1>3. \A n \in S : /\ Taken(book, q, n) \in Nat /\ Taken(book, r, n) \in Nat /\ book[n].cost \in Nat /\ book[n].qty \in Nat
  BY BookFacts, TakenFacts
<1>4. \A n \in S : /\ Tq[n] = Taken(book, q, n) /\ Tr[n] = Taken(book, r, n)
                   /\ Gq[n] = Taken(book, q, n) * (p - book[n].cost)
                   /\ Gr[n] = Taken(book, r, n) * (p - book[n].cost)
  BY <1>0 DEF TakenOf, GainsOf
<1>5. ASSUME NEW n \in S
      PROVE  /\ Taken(book, q, n) =< Taken(book, r, n)
             /\ n > K => Taken(book, r, n) = 0
  <2>1. PICK i \in 0 .. N - 1 : i + 1 = n /\ i \in 0 .. N /\ i + 1 \in 0 .. N
    BY <1>0
  <2>2. UpToLot(book, i) \in Nat /\ UpToLot(book, n) = UpToLot(book, i) + book[n].qty
    BY <2>1, UpToLotFacts
  <2>3. /\ Taken(book, q, n) = IF q =< UpToLot(book, i) THEN 0
             ELSE IF q >= UpToLot(book, n) THEN book[n].qty ELSE q - UpToLot(book, i)
        /\ Taken(book, r, n) = IF r =< UpToLot(book, i) THEN 0
             ELSE IF r >= UpToLot(book, n) THEN book[n].qty ELSE r - UpToLot(book, i)
    BY <2>1, TakenIs
  <2>4. n > K => UpToLot(book, K) =< UpToLot(book, i)
    <3> HAVE n > K
    <3>1. K \in 0 .. i
      BY <1>0, <2>1
    <3> QED BY <2>1, <3>1, UpToLotGrows
  <2>5. PICK b : b = UpToLot(book, i)
    OBVIOUS
  <2>6. PICK t : t = book[n].qty
    OBVIOUS
  <2>7. b \in Nat /\ t \in Nat
    BY <1>3, <2>2, <2>5, <2>6
  <2>8. /\ Taken(book, q, n) = IF q =< b THEN 0 ELSE IF q >= b + t THEN t ELSE q - b
        /\ Taken(book, r, n) = IF r =< b THEN 0 ELSE IF r >= b + t THEN t ELSE r - b
    BY <2>2, <2>3, <2>5, <2>6
  <2>9. Taken(book, q, n) =< Taken(book, r, n)
    BY <2>7, <2>8
  <2>10. n > K => r =< b
    BY <1>1, <2>4, <2>5, <2>7
  <2> QED BY <2>8, <2>9, <2>10
<1> HIDE DEF S, N, Tq, Tr, Gq, Gr
<1>6. \A n \in S : /\ Tq[n] \in Int /\ Tr[n] \in Int /\ Gq[n] \in Int /\ Gr[n] \in Int
                   /\ D[n] = Tr[n] - Tq[n] /\ D[n] \in Int
                   /\ M[n] = Gq[n] + D[n] /\ M[n] \in Int
  <2> TAKE n \in S
  <2>1. ASSUME NEW t \in Nat, NEW c \in Nat PROVE t * (p - c) \in Int
    OBVIOUS
  <2>2. Tq[n] \in Int /\ Tr[n] \in Int /\ Gq[n] \in Int /\ Gr[n] \in Int
    <3>1. Taken(book, q, n) \in Nat /\ Taken(book, r, n) \in Nat /\ book[n].cost \in Nat
      BY <1>3
    <3>2. Taken(book, q, n) * (p - book[n].cost) \in Int
      BY <2>1, <3>1
    <3>3. Taken(book, r, n) * (p - book[n].cost) \in Int
      BY <2>1, <3>1
    <3> QED BY <1>4, <3>1, <3>2, <3>3, SMTT(40)
  <2> QED BY <2>2
<1>7. \A n \in S : M[n] =< Gr[n]
  <2> TAKE n \in S
  <2>1. CASE n > K
    <3>1. Taken(book, r, n) = 0 /\ Taken(book, q, n) = 0
      BY <1>3, <1>5, <2>1
    <3>2. Gq[n] = 0 /\ Gr[n] = 0 /\ D[n] = 0
      <4>1. p - book[n].cost \in Int
        BY <1>3
      <4>2. 0 * (p - book[n].cost) = 0
        BY <4>1
      <4> QED BY <1>4, <1>6, <3>1, <4>2
    <3> QED BY <1>6, <3>2
  <2>2. CASE ~ (n > K)
    <3>1. n \in 1 .. K
      BY <1>0, <2>2 DEF S
    <3>2. ASSUME NEW t \in Nat, NEW u \in Nat, t =< u, NEW c \in Int, c > 0 PROVE t * c + (u - t) =< u * c
      BY <3>2, ProductIsMonotone
    <3>3. p - book[n].cost \in Int /\ p - book[n].cost > 0
      BY <1>3, <3>1
    <3>4. Taken(book, q, n) * (p - book[n].cost) + (Taken(book, r, n) - Taken(book, q, n))
            =< Taken(book, r, n) * (p - book[n].cost)
      BY <1>3, <1>5, <3>2, <3>3
    <3> QED BY <1>4, <1>6, <3>4
  <2> QED BY <2>1, <2>2
<1> HIDE DEF D, M
<1>8. SumFunctionOnSet(M, S) =< SumFunctionOnSet(Gr, S)
  BY <1>0, <1>6, <1>7, SumIsMonotone
<1>9. SumFunctionOnSet(M, S) = SumFunctionOnSet(Gq, S) + SumFunctionOnSet(D, S)
  BY <1>0, <1>6, SumAdds
<1>10. SumFunctionOnSet(D, S) = SumFunctionOnSet(Tr, S) - SumFunctionOnSet(Tq, S)
  BY <1>0, <1>6, SumSubtracts
<1>11. SumFunctionOnSet(Tr, S) = r /\ SumFunctionOnSet(Tq, S) = q
  BY <1>2, TakenAddsUp DEF Tr, Tq, S, N
<1>12. /\ GainOf(book, p, q) = SumFunctionOnSet(Gq, S) /\ GainOf(book, p, q) \in Int
       /\ GainOf(book, p, r) = SumFunctionOnSet(Gr, S) /\ GainOf(book, p, r) \in Int
  BY <1>2, GainIsSum DEF Gr, Gq, S, N
<1> QED BY <1>8, <1>9, <1>10, <1>11, <1>12

\* What a disposal takes from a lot, by the shares of the older lots.
LEMMA TakenFrom ==
  ASSUME NEW book \in Seq(AnyLot), NEW q \in Nat, NEW i \in 1 .. Len(book)
  PROVE  \E b, t \in Nat : /\ b = UpToLot(book, i - 1) /\ t = book[i].qty /\ b + t = UpToLot(book, i)
                           /\ Taken(book, q, i) = IF q =< b THEN 0 ELSE IF q >= b + t THEN t ELSE q - b
<1>1. PICK j \in 0 .. Len(book) - 1 : j + 1 = i /\ j \in 0 .. Len(book) /\ j = i - 1
  <2>1. i - 1 \in 0 .. Len(book) - 1 /\ i - 1 + 1 = i /\ i - 1 \in 0 .. Len(book)
    BY BookFacts
  <2> QED BY <2>1
<1>2. UpToLot(book, j) \in Nat /\ UpToLot(book, j + 1) = UpToLot(book, j) + book[j + 1].qty
  BY <1>1, UpToLotFacts
<1>3. Taken(book, q, j + 1) = IF q =< UpToLot(book, j) THEN 0
             ELSE IF q >= UpToLot(book, j + 1) THEN book[j + 1].qty ELSE q - UpToLot(book, j)
  BY <1>1, TakenIs
<1>4. book[i].qty \in Nat
  BY BookFacts
<1> QED BY <1>1, <1>2, <1>3, <1>4

\* Shares taken from one lot gain by its cost alone.
LEMMA GainOfLot ==
  ASSUME NEW book \in Seq(AnyLot), NEW p \in Int, NEW a \in 1 .. Len(book),
         NEW s, s = UpToLot(book, a - 1),
         NEW r \in Nat, r =< book[a].qty, NEW u, u = s + r
  PROVE  GainOf(book, p, u) = GainOf(book, p, s) + r * (p - book[a].cost)
<1> DEFINE N == Len(book)
           S == 1 .. N
           F == GainsOf(book, p, s)
           G == GainsOf(book, p, u)
<1>0. /\ N \in Nat /\ IsFiniteSet(S) /\ DOMAIN book = S
      /\ \A i \in S : book[i].cost \in Nat /\ book[i].qty \in Nat
  BY BookFacts
<1>1. s \in Nat /\ u \in Nat /\ UpToLot(book, a) = s + book[a].qty
  <2>1. a - 1 \in 0 .. N
    BY <1>0
  <2>2. s \in Nat
    BY <2>1, UpToLotFacts
  <2>3. \E b, t \in Nat : /\ b = UpToLot(book, a - 1) /\ t = book[a].qty /\ b + t = UpToLot(book, a)
                           /\ Taken(book, 0, a) = IF 0 =< b THEN 0 ELSE IF 0 >= b + t THEN t ELSE 0 - b
    <3>1. PICK none \in Nat : none = 0
      OBVIOUS
    <3>2. \E b, t \in Nat : /\ b = UpToLot(book, a - 1) /\ t = book[a].qty /\ b + t = UpToLot(book, a)
                           /\ Taken(book, none, a) = IF none =< b THEN 0 ELSE IF none >= b + t THEN t ELSE none - b
      BY TakenFrom
    <3> QED BY <3>1, <3>2
  <2>4. UpToLot(book, a) = s + book[a].qty
    BY <2>3
  <2> QED BY <2>2, <2>4
<1>2. UpToLot(book, a) =< Quantity(book) /\ Quantity(book) \in Nat /\ UpToLot(book, a) \in Nat
  <2>1. N \in 0 .. N /\ a \in 0 .. N
    BY <1>0
  <2>2. UpToLot(book, a) =< UpToLot(book, N)
    BY <2>1, UpToLotGrows
  <2>3. UpToLot(book, a) \in Nat
    BY <2>1, UpToLotFacts
  <2> QED BY <2>2, <2>3, QuantityIsUpTo
<1>3. s \in 0 .. Quantity(book) /\ u \in 0 .. Quantity(book)
  BY <1>0, <1>1, <1>2
<1>4. ASSUME NEW i \in S, i # a PROVE Taken(book, s, i) = Taken(book, u, i)
  <2>1. PICK b, t \in Nat : /\ b = UpToLot(book, i - 1) /\ t = book[i].qty /\ b + t = UpToLot(book, i)
                            /\ Taken(book, s, i) = IF s =< b THEN 0 ELSE IF s >= b + t THEN t ELSE s - b
    BY <1>1, TakenFrom
  <2>2. Taken(book, u, i) = IF u =< b THEN 0 ELSE IF u >= b + t THEN t ELSE u - b
    <3>1. PICK c, d \in Nat : /\ c = UpToLot(book, i - 1) /\ d = book[i].qty /\ c + d = UpToLot(book, i)
                              /\ Taken(book, u, i) = IF u =< c THEN 0 ELSE IF u >= c + d THEN d ELSE u - c
      BY <1>1, TakenFrom, ZenonT(60)
    <3>2. c = b /\ d = t
      BY <2>1, <3>1
    <3> QED BY <3>1, <3>2
  <2>3. CASE i < a
    <3>1. i \in 0 .. a - 1 /\ a - 1 \in 0 .. N
      BY <1>0, <2>3
    <3>2. b + t =< s
      BY <2>1, <3>1, UpToLotGrows
    <3> QED BY <1>1, <2>1, <2>2, <3>2, SMTT(40)
  <2>4. CASE i > a
    <3>1. a \in 0 .. i - 1 /\ i - 1 \in 0 .. N
      BY <1>0, <2>4
    <3>2. UpToLot(book, a) =< b
      BY <2>1, <3>1, UpToLotGrows
    <3>3. book[a].qty \in Nat
      BY <1>0
    <3>4. s =< b /\ u =< b
      BY <1>1, <3>2, <3>3
    <3> QED BY <1>1, <2>1, <2>2, <3>4
  <2> QED BY <1>0, <1>4, <2>3, <2>4
<1>5. Taken(book, s, a) = 0 /\ Taken(book, u, a) = r
  <2>1. PICK b, t \in Nat : /\ b = UpToLot(book, a - 1) /\ t = book[a].qty /\ b + t = UpToLot(book, a)
                            /\ Taken(book, s, a) = IF s =< b THEN 0 ELSE IF s >= b + t THEN t ELSE s - b
    BY <1>1, TakenFrom
  <2>2. Taken(book, u, a) = IF u =< b THEN 0 ELSE IF u >= b + t THEN t ELSE u - b
    <3>1. PICK c, d \in Nat : /\ c = UpToLot(book, a - 1) /\ d = book[a].qty /\ c + d = UpToLot(book, a)
                              /\ Taken(book, u, a) = IF u =< c THEN 0 ELSE IF u >= c + d THEN d ELSE u - c
      BY <1>1, TakenFrom
    <3>2. c = b /\ d = t
      BY <2>1, <3>1
    <3> QED BY <3>1, <3>2
  <2> QED BY <1>1, <2>1, <2>2
<1>6. \A i \in S : Taken(book, s, i) \in Nat /\ Taken(book, u, i) \in Nat
  BY <1>1, TakenFacts
<1>7. \A i \in S : F[i] = Taken(book, s, i) * (p - book[i].cost) /\ G[i] = Taken(book, u, i) * (p - book[i].cost)
  BY DEF GainsOf
<1>12. /\ GainOf(book, p, s) = SumFunctionOnSet(F, S) /\ GainOf(book, p, s) \in Int
       /\ GainOf(book, p, u) = SumFunctionOnSet(G, S)
  BY <1>3, GainIsSum
<1>13. a \in S
  OBVIOUS
<1> HIDE DEF S, N, F, G
<1>8. \A i \in S : F[i] \in Int /\ G[i] \in Int
  <2> TAKE i \in S
  <2>1. ASSUME NEW t \in Nat, NEW c \in Nat PROVE t * (p - c) \in Int
    OBVIOUS
  <2>2. Taken(book, s, i) \in Nat /\ Taken(book, u, i) \in Nat /\ book[i].cost \in Nat
    BY <1>0, <1>6
  <2>3. Taken(book, s, i) * (p - book[i].cost) \in Int
    BY <2>1, <2>2
  <2>4. Taken(book, u, i) * (p - book[i].cost) \in Int
    BY <2>1, <2>2
  <2> QED BY <1>7, <2>3, <2>4
<1>9. \A i \in S : i # a => G[i] = F[i]
  BY <1>4, <1>7
<1>10. SumFunctionOnSet(G, S) = SumFunctionOnSet(F, S) - F[a] + G[a]
  <2>1. IsFiniteSet(S)
    BY <1>0
  <2>2. DiffersAt(S, F, G, a)
    BY <2>1, <1>8, <1>9, <1>13 DEF DiffersAt
  <2> QED BY <2>2, SumThatDiffers
<1>11. F[a] = 0 /\ G[a] = r * (p - book[a].cost) /\ G[a] \in Int
  <2>1. p - book[a].cost \in Int
    BY <1>0, <1>13
  <2>2. 0 * (p - book[a].cost) = 0
    BY <2>1
  <2> QED BY <1>5, <1>7, <1>8, <1>13, <2>2
<1> QED BY <1>10, <1>11, <1>12

-----------------------------------------------------------------------------
(* The harvest walk finds the largest disposal *)

WalkStart(budget) == [qty |-> 0, gain |-> 0, open |-> budget > 0]
WalkStep(lot, netKrw, budget, before) ==
  LET gain == netKrw - lot.cost
      take == Min({lot.qty, (budget - before.gain) \div gain})
  IN IF ~before.open \/ gain <= 0
       THEN [before EXCEPT !.open = FALSE]
       ELSE [qty  |-> before.qty + take,
             gain |-> before.gain + take * gain,
             open |-> take = lot.qty /\ before.gain + take * gain < budget]
WalkLoop(book, netKrw, budget) ==
  LET walk[n \in 0 .. Len(book)] ==
        IF n = 0 THEN WalkStart(budget) ELSE WalkStep(book[n], netKrw, budget, walk[n - 1])
  IN walk
WalkState == [qty : Int, gain : Int, open : BOOLEAN]

\* The lots a walk may sell are the oldest ones, up to some K.
LEMMA LeadIs ==
  ASSUME NEW book \in Seq(AnyLot), NEW p \in Int
  PROVE  \E K \in 0 .. Len(book) :
           /\ LeadingGain(book, p) = 1 .. K
           /\ \A m \in 1 .. K : book[m].cost < p
           /\ K < Len(book) => ~ (book[K + 1].cost < p)
<1> DEFINE N == Len(book)
           Bad == {n \in 1 .. N : ~ (book[n].cost < p)}
<1>1. N \in Nat /\ DOMAIN book = 1 .. N
  BY BookFacts
<1>2. CASE Bad = {}
  <2>1. LeadingGain(book, p) = 1 .. N
    BY <1>1, <1>2 DEF LeadingGain
  <2>2. \A m \in 1 .. N : book[m].cost < p
    BY <1>2
  <2>3. N \in 0 .. N /\ ~ (N < N)
    BY <1>1
  <2> QED BY <2>1, <2>2, <2>3
<1>3. CASE Bad # {}
  <2>1. PICK j \in Bad : \A n \in Bad : j =< n
    <3>1. Bad \subseteq Nat
      BY <1>1
    <3> HIDE DEF Bad
    <3> QED BY <1>3, <3>1, LeastNatural
  <2>2. j - 1 \in 0 .. N /\ j - 1 < N /\ j - 1 + 1 = j /\ ~ (book[j].cost < p)
    BY <1>1, <2>1
  <2>3. \A m \in 1 .. j - 1 : book[m].cost < p
    BY <1>1, <2>2, <2>1
  <2>4. LeadingGain(book, p) = 1 .. j - 1
    <3>1. ASSUME NEW n \in LeadingGain(book, p) PROVE n \in 1 .. j - 1
      BY <1>1, <2>2, <2>1 DEF LeadingGain
    <3>2. ASSUME NEW n \in 1 .. j - 1 PROVE n \in LeadingGain(book, p)
      <4>1. n \in 1 .. N /\ \A m \in 1 .. n : m \in 1 .. j - 1
        BY <1>1, <2>1
      <4>2. \A m \in 1 .. n : book[m].cost < p
        BY <2>3, <4>1
      <4> QED BY <1>1, <4>1, <4>2 DEF LeadingGain
    <3> QED BY <3>1, <3>2
  <2>5. PICK K \in 0 .. N : K = j - 1 /\ K + 1 = j
    BY <2>2
  <2> QED BY <2>2, <2>3, <2>4, <2>5
<1> QED BY <1>2, <1>3

\* A step of the harvest's walk leaves a quantity and a gain.
LEMMA WalkStepType ==
  ASSUME NEW lot \in AnyLot, NEW p \in Int, NEW budget \in Nat, NEW r \in WalkState
  PROVE  WalkStep(lot, p, budget, r) \in WalkState
<1> DEFINE gain == p - lot.cost
           take == Min({lot.qty, (budget - r.gain) \div gain})
<1>1. r.qty \in Int /\ r.gain \in Int /\ r.open \in BOOLEAN /\ gain \in Int /\ lot.qty \in Nat
  BY DEF WalkState, AnyLot
<1>2. CASE ~ r.open \/ gain <= 0
  BY <1>2 DEF WalkStep, WalkState
<1>3. CASE ~ (~ r.open \/ gain <= 0)
  <2>1. (budget - r.gain) \div gain \in Int
    BY <1>1, <1>3, Quotient
  <2>2. take \in Int
    BY <2>1, <1>1, MinOfTwo
  <2>3. WalkStep(lot, p, budget, r)
          = [qty |-> r.qty + take, gain |-> r.gain + take * gain,
             open |-> take = lot.qty /\ r.gain + take * gain < budget]
    BY <1>3 DEF WalkStep
  <2> HIDE DEF gain, take
  <2> QED BY <1>1, <2>2, <2>3 DEF WalkState
<1> QED BY <1>2, <1>3

\* The harvest walks over the lots from the oldest.
LEMMA WalkRuns ==
  ASSUME NEW book \in Seq(AnyLot), NEW p \in Int, NEW budget \in Nat
  PROVE  LET w == WalkLoop(book, p, budget) IN
         /\ HarvestableQuantity(book, p, budget) = w[Len(book)].qty
         /\ w[0] = WalkStart(budget)
         /\ \A n \in 1 .. Len(book) : w[n] = WalkStep(book[n], p, budget, w[n - 1])
<1> DEFINE N == Len(book)
           start == WalkStart(budget)
           body(k, n) == IF n = 0 THEN start ELSE WalkStep(book[n], p, budget, k[n - 1])
           step == [n \in 1 .. N |-> [r \in WalkState |-> WalkStep(book[n], p, budget, r)]]
           w == WalkLoop(book, p, budget)
<1>1. N \in Nat /\ \A n \in 1 .. N : book[n] \in AnyLot
  BY BookFacts
<1>2. start \in WalkState
  BY DEF WalkStart, WalkState
<1>3. ASSUME NEW n \in 1 .. N, NEW r \in WalkState PROVE WalkStep(book[n], p, budget, r) \in WalkState
  BY <1>1, WalkStepType
<1>4. IsStep(N, WalkState, step)
  BY <1>3 DEF IsStep
<1>5. PICK k : LoopRuns(N, WalkState, start, step, k)
  <2> HIDE DEF step, N, start
  <2> QED BY <1>1, <1>2, <1>4, LoopExists
<1> USE DEF LoopRuns
<1>6. ASSUME NEW n \in 0 .. N PROVE k[n] = body(k, n)
  <2>1. CASE n = 0
    BY <1>5, <2>1
  <2>2. CASE n # 0
    <3>1. n \in 1 .. N /\ n - 1 \in 0 .. N /\ k[n - 1] \in WalkState
      BY <1>1, <1>5, <2>2
    <3>2. k[n] = step[n][k[n - 1]]
      BY <1>5, <3>1
    <3> QED BY <2>2, <3>1, <3>2
  <2> QED BY <2>1, <2>2
<1>7. k = [n \in 0 .. N |-> body(k, n)]
  <2> HIDE DEF body
  <2> QED BY <1>5, <1>6
<1>8. \E f : f = [n \in 0 .. N |-> body(f, n)]
  <2> HIDE DEF body, step
  <2> QED BY <1>7
<1>9. w = [n \in 0 .. N |-> body(w, n)]
  BY <1>8 DEF WalkLoop
<1>10. HarvestableQuantity(book, p, budget) = w[N].qty
  BY DEF HarvestableQuantity, WalkLoop, WalkStart, WalkStep
<1> HIDE DEF w
<1>11. \A n \in 0 .. N : w[n] = body(w, n)
  <2> HIDE DEF body
  <2> QED BY <1>9
<1>12. w[0] = start
  BY <1>1, <1>11
<1>13. \A n \in 1 .. N : w[n] = WalkStep(book[n], p, budget, w[n - 1])
  BY <1>1, <1>11
<1> QED BY <1>10, <1>12, <1>13 DEF w, start

\* q is the largest disposal out of `reach` shares that stays in the budget.
IsLargest(book, p, budget, reach, q) ==
  /\ q \in 0 .. reach /\ GainOf(book, p, q) =< budget
  /\ \A r \in 0 .. reach : r > q => GainOf(book, p, r) > budget

\* Where the walk stops before lot K + 1, it has found the largest quantity up to there.
LEMMA WalkIsLargest ==
  ASSUME NEW book \in Seq(AnyLot), NEW p \in Int, NEW budget \in Nat, NEW K \in 0 .. Len(book),
         \A m \in 1 .. K : book[m].cost < p,
         K < Len(book) => ~ (book[K + 1].cost < p)
  PROVE  IsLargest(book, p, budget, UpToLot(book, K), HarvestableQuantity(book, p, budget))
<1> DEFINE N == Len(book)
           w == WalkLoop(book, p, budget)
           reach == UpToLot(book, K)
           Open(n, v) == v.open /\ n =< K /\ v.qty = UpToLot(book, n) /\ v.gain < budget
           Shut(n, v) == ~ v.open /\ IsLargest(book, p, budget, reach, v.qty)
           Good(n, v) == /\ v \in WalkState /\ v.qty \in Nat /\ v.gain \in Int /\ v.gain = GainOf(book, p, v.qty)
                         /\ Open(n, v) \/ Shut(n, v)
           Q == {n \in 0 .. N : Good(n, w[n])}
<1>0. N \in Nat /\ K \in Nat /\ \A n \in 1 .. N : book[n] \in AnyLot /\ book[n].qty \in Nat /\ book[n].cost \in Nat
  BY BookFacts
<1>1. /\ HarvestableQuantity(book, p, budget) = w[N].qty
      /\ w[0] = WalkStart(budget)
      /\ \A n \in 1 .. N : w[n] = WalkStep(book[n], p, budget, w[n - 1])
  BY WalkRuns
<1> HIDE DEF w
<1>2. reach \in Nat /\ reach =< Quantity(book) /\ Quantity(book) \in Nat
  BY <1>0, UpToLotGrows, UpToLotFacts, QuantityIsUpTo
\* What stops the walk at q shares that gain the budget or nearly so.
<1>3. ASSUME NEW q \in 0 .. reach, GainOf(book, p, q) =< budget,
             NEW r \in Nat, r > q, r =< reach => GainOf(book, p, r) > budget,
             \A m \in q + 1 .. r - 1 : FALSE
      PROVE  IsLargest(book, p, budget, reach, q)
  <2> SUFFICES ASSUME NEW m \in 0 .. reach, m > q PROVE GainOf(book, p, m) > budget
    BY <1>3 DEF IsLargest
  <2>1. r =< m
    <3>1. r = q + 1
      <4>1. ~ (r - 1 \in q + 1 .. r - 1)
        BY <1>3
      <4> QED BY <1>2, <1>3, <4>1
    <3> QED BY <1>2, <3>1
  <2>2. m \in Nat /\ m =< reach /\ r =< reach
    BY <1>2, <2>1
  <2>3. GainOf(book, p, r) + (m - r) =< GainOf(book, p, m)
    BY <2>1, <2>2, GainGrows
  <2>4. r \in 0 .. Quantity(book) /\ m \in 0 .. Quantity(book)
    BY <1>2, <2>2
  <2>5. GainOf(book, p, r) \in Int /\ GainOf(book, p, m) \in Int
    BY <2>4, GainIsSum
  <2> QED BY <1>3, <2>1, <2>2, <2>3, <2>5
<1>4. UpToLot(book, 0) = 0 /\ 0 \in 0 .. Quantity(book)
  BY <1>2, UpToLotFacts
<1>5. GainOf(book, p, 0) = 0
  <2>1. IsFiniteSet(1 .. N) /\ \A n \in 1 .. N : GainsOf(book, p, 0)[n] = 0
    <3>1. IsFiniteSet(1 .. N)
      BY BookFacts
    <3> SUFFICES ASSUME NEW n \in 1 .. N PROVE GainsOf(book, p, 0)[n] = 0
      BY <3>1
    <3>2. PICK none \in Nat : none = 0
      OBVIOUS
    <3>3. PICK b, t \in Nat : Taken(book, none, n) = IF none =< b THEN 0 ELSE IF none >= b + t THEN t ELSE none - b
      BY TakenFrom, ZenonT(60)
    <3>4. Taken(book, 0, n) = 0
      BY <3>2, <3>3
    <3>5. p - book[n].cost \in Int
      BY <1>0
    <3>6. 0 * (p - book[n].cost) = 0
      BY <3>5
    <3> QED BY <3>4, <3>6 DEF GainsOf
  <2>2. SumFunctionOnSet(GainsOf(book, p, 0), 1 .. N) = 0
    BY <2>1, SumOfZeros
  <2>3. PICK none \in 0 .. Quantity(book) : none = 0
    BY <1>4
  <2>4. GainOf(book, p, none) = SumFunctionOnSet(GainsOf(book, p, none), 1 .. N)
    BY GainIsSum
  <2> QED BY <2>2, <2>3, <2>4
<1>6. 0 \in Q
  <2>1. w[0].qty = 0 /\ w[0].gain = 0 /\ w[0].open = (budget > 0)
    BY <1>1 DEF WalkStart
  <2>4. w[0] \in WalkState /\ 0 \in 0 .. N
    BY <1>0, <1>1 DEF WalkStart, WalkState
  <2>2. CASE budget > 0
    <3>2. w[0].open
      BY <2>1, <2>2
    <3>3. w[0].qty = UpToLot(book, 0) /\ w[0].gain < budget /\ 0 =< K
      BY <1>0, <1>4, <2>1, <2>2
    <3>1. Open(0, w[0])
      BY <3>2, <3>3
    <3> QED BY <1>5, <2>1, <2>4, <3>1
  <2>3. CASE ~ (budget > 0)
    <3>1. budget = 0
      BY <2>3
    <3>2. 1 =< reach => GainOf(book, p, 1) > budget
      <4> HAVE 1 =< reach
      <4>1. GainOf(book, p, 0) + (1 - 0) =< GainOf(book, p, 1)
        <5>1. PICK a, b \in Nat : a = 0 /\ b = 1
          OBVIOUS
        <5>2. GainOf(book, p, a) + (b - a) =< GainOf(book, p, b)
          BY <5>1, GainGrows
        <5> QED BY <5>1, <5>2
      <4>2. PICK b \in 0 .. Quantity(book) : b = 1
        BY <1>2
      <4>3. GainOf(book, p, 1) \in Int
        BY <4>2, GainIsSum
      <4> QED BY <1>5, <3>1, <4>1, <4>3
    <3>3. PICK a \in 0 .. reach, b \in Nat : a = 0 /\ b = 1
      BY <1>2
    <3>4. IsLargest(book, p, budget, reach, a)
      BY <1>3, <1>5, <3>1, <3>2, <3>3
    <3>5. Shut(0, w[0])
      BY <2>1, <2>3, <3>3, <3>4
    <3> QED BY <1>5, <2>1, <2>4, <3>5
  <2> QED BY <2>2, <2>3
<1>7. ASSUME NEW n \in 0 .. N - 1, n \in Q PROVE n + 1 \in Q
  <2>1. PICK i \in 1 .. N : i = n + 1 /\ i - 1 = n /\ i \in 0 .. N /\ n \in 0 .. N
    BY <1>0
  <2>2. PICK v : v = w[n] /\ Good(n, v)
    BY <1>7
  <2>3. PICK u : u = w[i] /\ u = WalkStep(book[i], p, budget, v)
    BY <1>1, <2>1, <2>2
  <2> DEFINE gain == p - book[i].cost
             take == Min({book[i].qty, (budget - v.gain) \div gain})
  <2>4. gain \in Int /\ book[i].qty \in Nat /\ v \in WalkState /\ v.qty \in Nat /\ v.gain \in Int
    BY <1>0, <2>2
  <2>5. u \in WalkState
    BY <1>0, <2>3, <2>4, WalkStepType
  <2> SUFFICES Good(i, u)
    BY <2>1, <2>3
  <2>6. ASSUME u = [v EXCEPT !.open = FALSE]
        PROVE  u.qty = v.qty /\ u.gain = v.gain /\ ~ u.open
    BY <2>4, <2>6 DEF WalkState
  <2>7. CASE Shut(n, v)
    BY <2>3, <2>7, <2>2, <2>5, <2>6, Zenon DEF WalkStep
  <2>8. CASE Open(n, v) /\ gain <= 0
    <3>1. u = [v EXCEPT !.open = FALSE]
      BY <2>3, <2>8 DEF WalkStep
    <3>2. ~ (i \in 1 .. K)
      <4>1. ~ (book[i].cost < p)
        BY <1>0, <2>8
      <4> QED BY <4>1
    <3>3. n = K
      BY <1>0, <2>1, <2>8, <3>2
    <3>4. v.qty = reach
      BY <2>8, <3>3
    <3>5. GainOf(book, p, reach) =< budget
      BY <2>2, <2>8, <3>4
    <3>6. IsLargest(book, p, budget, reach, v.qty)
      BY <1>2, <3>4, <3>5 DEF IsLargest
    <3> QED BY <2>2, <2>5, <2>6, <3>1, <3>6
  <2>9. CASE Open(n, v) /\ ~ (gain <= 0)
    <3>1. /\ v.open /\ v.qty = UpToLot(book, n) /\ v.gain < budget /\ n =< K
          /\ v.gain = GainOf(book, p, v.qty) /\ gain \in Nat \ {0}
      BY <2>2, <2>4, <2>9
    <3>2. u = [qty  |-> v.qty + take, gain |-> v.gain + take * gain,
               open |-> take = book[i].qty /\ v.gain + take * gain < budget]
      BY <2>3, <2>9 DEF WalkStep
    <3> HIDE DEF gain
    <3>3. PICK d \in Nat : d = (budget - v.gain) \div gain
      <4>1. budget - v.gain \in Nat
        BY <2>4, <3>1
      <4> QED BY <3>1, <4>1, Quotient
    <3>4. gain * d =< budget - v.gain /\ budget - v.gain < gain * d + gain
      <4>1. budget - v.gain \in Int
        BY <2>4
      <4> QED BY <3>1, <3>3, <4>1, Quotient
    <3>5. take = IF book[i].qty =< d THEN book[i].qty ELSE d
      <4>1. Min({book[i].qty, d}) = IF book[i].qty =< d THEN book[i].qty ELSE d
        BY <2>4, MinOfTwo
      <4> QED BY <3>3, <4>1
    <3> HIDE DEF take
    <3>6. take \in Nat /\ take =< book[i].qty /\ take =< d
      BY <2>4, <3>5
    <3>7. PICK s, q : s = UpToLot(book, i - 1) /\ s = v.qty /\ q = s + take
      BY <2>1, <3>1
    <3>8. s \in Nat /\ q \in Nat
      BY <2>4, <3>6, <3>7
    <3>9. GainOf(book, p, q) = v.gain + take * gain
      <4>1. GainOf(book, p, q) = GainOf(book, p, s) + take * (p - book[i].cost)
        BY <3>6, <3>7, GainOfLot
      <4> QED BY <3>1, <3>7, <4>1 DEF gain
    <3>10. take * gain =< gain * d /\ take * gain \in Nat
      BY <3>1, <3>6, ProductIsMonotone
    <3>11. GainOf(book, p, q) =< budget /\ GainOf(book, p, q) \in Int
      <4>1. gain * d \in Int
        BY <3>1
      <4> QED BY <2>4, <3>4, <3>9, <3>10, <4>1
    <3>12. UpToLot(book, i) = s + book[i].qty /\ UpToLot(book, i) =< reach /\ i =< K
      <4>1. i =< K
        <5>1. n < K
          <6>1. ASSUME n = K PROVE FALSE
            <7>1. K < N /\ K + 1 = i
              BY <1>0, <2>1, <6>1
            <7>2. ~ (book[i].cost < p)
              BY <7>1
            <7>3. gain <= 0
              BY <1>0, <7>2 DEF gain
            <7> QED BY <3>1, <7>3
          <6> QED BY <1>0, <3>1, <6>1
        <5> QED BY <1>0, <2>1, <5>1
      <4>2. i \in 0 .. K
        BY <2>1, <4>1
      <4>3. UpToLot(book, i) =< reach
        BY <4>2, UpToLotGrows
      <4>4. PICK none \in Nat : none = 0
        OBVIOUS
      <4>5. PICK b, t \in Nat : b = UpToLot(book, i - 1) /\ t = book[i].qty /\ b + t = UpToLot(book, i)
                                /\ Taken(book, none, i) = IF none =< b THEN 0 ELSE IF none >= b + t THEN t ELSE none - b
        BY TakenFrom
      <4> QED BY <3>7, <4>1, <4>3, <4>5
    <3>13. q \in 0 .. reach
      BY <1>2, <2>4, <3>6, <3>7, <3>8, <3>12
    <3>14. u.qty = q /\ u.gain = GainOf(book, p, q) /\ u.open = (take = book[i].qty /\ GainOf(book, p, q) < budget)
      BY <3>2, <3>7, <3>9
    <3>15. CASE u.open
      <4>1. Open(i, u)
        BY <3>7, <3>12, <3>14, <3>15
      <4> QED BY <2>5, <3>8, <3>11, <3>14, <4>1
    <3>16. CASE ~ u.open
      <4>1. PICK r \in Nat : r = q + 1
        BY <3>8
      <4>2. r =< reach => GainOf(book, p, r) > budget
        <5> HAVE r =< reach
        <5>1. r \in 0 .. Quantity(book)
          BY <1>2
        <5>2. GainOf(book, p, r) \in Int
          BY <5>1, GainIsSum
        <5>3. CASE take = book[i].qty
          <6>1. GainOf(book, p, q) = budget
            <7>1. ~ (GainOf(book, p, q) < budget)
              BY <3>14, <3>16, <5>3
            <7> QED BY <3>11, <7>1
          <6>2. GainOf(book, p, q) + (r - q) =< GainOf(book, p, r)
            <7>1. q =< r /\ r =< UpToLot(book, K)
              BY <3>8, <4>1
            <7> QED BY <3>8, <7>1, GainGrows
          <6> QED BY <3>8, <4>1, <5>2, <6>1, <6>2
        <5>4. CASE take # book[i].qty
          <6>1. take = d /\ d + 1 =< book[i].qty
            BY <2>4, <3>5, <5>4
          <6>2. PICK e \in Nat : e = d + 1
            OBVIOUS
          <6>3. GainOf(book, p, r) = GainOf(book, p, s) + e * (p - book[i].cost)
            <7>1. e =< book[i].qty /\ r = s + e
              BY <3>7, <3>8, <4>1, <6>1, <6>2
            <7> QED BY <3>7, <7>1, GainOfLot
          <6>4. GainOf(book, p, r) = v.gain + e * gain
            BY <3>1, <3>7, <6>3 DEF gain
          <6>5. e * gain = gain * d + gain /\ gain * d \in Int
            BY <3>1, <6>2
          <6>6. PICK x \in Int : x = gain * d
            BY <6>5
          <6>7. budget - v.gain < x + gain /\ e * gain = x + gain
            BY <3>4, <6>5, <6>6
          <6>8. v.gain + (x + gain) > budget
            BY <2>4, <3>1, <6>7
          <6> QED BY <6>4, <6>7, <6>8
        <5> QED BY <5>3, <5>4
      <4>3. r > q /\ \A m \in q + 1 .. r - 1 : FALSE
        BY <3>8, <4>1
      <4>4. IsLargest(book, p, budget, reach, q)
        BY <1>3, <3>11, <3>13, <4>2, <4>3
      <4> QED BY <2>5, <3>8, <3>11, <3>14, <3>16, <4>4
    <3> QED BY <3>15, <3>16
  <2> QED BY <2>2, <2>7, <2>8, <2>9
<1>8. N \in Q
  <2> HIDE DEF Q
  <2>1. \A k \in 0 .. N : k \in Q
    BY <1>0, <1>6, <1>7, UpTo
  <2> QED BY <1>0, <2>1
<1>9. Good(N, w[N])
  BY <1>8
<1>10. CASE Shut(N, w[N])
  BY <1>1, <1>10
<1>11. CASE Open(N, w[N])
  <2>1. K = N /\ w[N].qty = reach /\ GainOf(book, p, reach) =< budget
    BY <1>0, <1>9, <1>11
  <2> QED BY <1>1, <1>2, <2>1 DEF IsLargest
<1> QED BY <1>9, <1>10, <1>11

\* harvestable_quantity keeps the promise of its docstring on every lot book.
THEOREM HarvestIsLargest ==
  ASSUME NEW book \in Seq(Lot), NEW netKrw \in Int, NEW budget \in Nat
  PROVE  HarvestableQuantity(book, netKrw, budget) = LargestWithin(book, netKrw, budget)
<1>0. book \in Seq(AnyLot)
  BY LotIsAny
<1>1. PICK K \in 0 .. Len(book) :
           /\ LeadingGain(book, netKrw) = 1 .. K
           /\ \A m \in 1 .. K : book[m].cost < netKrw
           /\ K < Len(book) => ~ (book[K + 1].cost < netKrw)
  BY <1>0, LeadIs
<1>2. PICK h : h = HarvestableQuantity(book, netKrw, budget) /\ IsLargest(book, netKrw, budget, UpToLot(book, K), h)
  BY <1>0, <1>1, WalkIsLargest
<1>3. PICK reach : reach = MapThenSumSet(LAMBDA n : book[n].qty, LeadingGain(book, netKrw))
  OBVIOUS
<1>4. reach = UpToLot(book, K) /\ reach \in Nat
  <2>1. reach = SumFunctionOnSet([n \in 1 .. K |-> book[n].qty], 1 .. K)
    BY <1>1, <1>3, QtySum
  <2>2. IsFiniteSet(1 .. K) /\ \A n \in 1 .. K : [m \in 1 .. K |-> book[m].qty][n] = QtyOf(book)[n]
    <3>1. Len(book) \in Nat /\ DOMAIN book = 1 .. Len(book) /\ K \in Nat
      BY <1>0, BookFacts
    <3>2. IsFiniteSet(1 .. K)
      BY <3>1, Interval
    <3> QED BY <3>1, <3>2 DEF QtyOf
  <2>3. SumFunctionOnSet([n \in 1 .. K |-> book[n].qty], 1 .. K) = SumFunctionOnSet(QtyOf(book), 1 .. K)
    BY <2>2, SumOfEqual
  <2> QED BY <1>0, <2>1, <2>3, UpToLotFacts DEF UpToLot
<1> DEFINE S == {0} \cup {q \in 0 .. reach : q * netKrw - DisposedBasis(book, q) <= budget}
<1>5. LargestWithin(book, netKrw, budget) = Max(S)
  BY <1>3 DEF LargestWithin
<1>6. h \in S /\ h \in Nat
  <2>1. h \in 0 .. reach /\ h * netKrw - DisposedBasis(book, h) <= budget
    BY <1>2, <1>4 DEF IsLargest, GainOf
  <2> QED BY <2>1
<1>7. \A y \in S : h >= y
  <2> SUFFICES ASSUME NEW y \in 0 .. reach, y * netKrw - DisposedBasis(book, y) <= budget PROVE h >= y
    BY <1>6
  <2>1. GainOf(book, netKrw, y) <= budget
    BY DEF GainOf
  <2>2. y \in 0 .. Quantity(book)
    <3>1. Len(book) \in 0 .. Len(book)
      BY <1>0, BookFacts
    <3>2. UpToLot(book, K) =< UpToLot(book, Len(book))
      BY <1>0, <3>1, UpToLotGrows
    <3> QED BY <1>0, <1>4, <3>2, QuantityIsUpTo
  <2>3. GainOf(book, netKrw, y) \in Int
    BY <1>0, <2>2, GainIsSum
  <2>4. ~ (y > h)
    BY <1>2, <1>4, <2>1, <2>3 DEF IsLargest
  <2> QED BY <1>4, <1>6, <2>4
<1>8. S \subseteq Int
  BY <1>4
<1> HIDE DEF S
<1>9. Max(S) = h
  BY <1>6, <1>7, <1>8, MaxIs
<1> QED BY <1>2, <1>5, <1>9

-----------------------------------------------------------------------------
(* Money shared out *)

\* Marking the elements of a subset with ones adds up to its size.
LEMMA SumOfMarks ==
  ASSUME NEW S, IsFiniteSet(S), NEW up \in SUBSET S, NEW f, \A s \in S : f[s] = IF s \in up THEN 1 ELSE 0
  PROVE  SumFunctionOnSet(f, S) = Cardinality(up)
<1> DEFINE Q == {u \in SUBSET S : SumFunctionOnSet([s \in S |-> IF s \in u THEN 1 ELSE 0], S) = Cardinality(u)}
<1>1. ASSUME NEW U \in SUBSET up, \A x \in U : U \ {x} \in Q PROVE U \in Q
  <2> DEFINE g == [s \in S |-> IF s \in U THEN 1 ELSE 0]
  <2>0. U \in SUBSET S /\ IsFiniteSet(U)
    BY FS_Subset
  <2>1. CASE U = {}
    BY <2>1, SumOfZeros, FS_EmptySet, <2>0
  <2>2. CASE U # {}
    <3>1. PICK x \in U : x \in S
      BY <2>0, <2>2
    <3> DEFINE h == [s \in S |-> IF s \in U \ {x} THEN 1 ELSE 0]
    <3>2. SumFunctionOnSet(h, S) = Cardinality(U \ {x})
      BY <1>1, <3>1
    <3>3. Cardinality(U \ {x}) = Cardinality(U) - 1 /\ Cardinality(U) \in Nat
      BY <2>0, <3>1, FS_RemoveElement, FS_CardinalityType
    <3>4. DiffersAt(S, h, g, x)
      BY <3>1 DEF DiffersAt
    <3>5. h[x] = 0 /\ g[x] = 1
      BY <3>1
    <3> HIDE DEF g, h
    <3>6. SumFunctionOnSet(g, S) = SumFunctionOnSet(h, S) - h[x] + g[x]
      BY <3>4, SumThatDiffers
    <3>7. SumFunctionOnSet(g, S) = Cardinality(U)
      BY <3>2, <3>3, <3>5, <3>6
    <3> QED BY <2>0, <3>7 DEF g
  <2> QED BY <2>1, <2>2
<1>2. up \in Q
  <2>1. IsFiniteSet(up)
    BY FS_Subset
  <2>2. \A U \in SUBSET up : (\A x \in U : U \ {x} \in Q) => U \in Q
    BY <1>1
  <2> HIDE DEF Q
  <2> QED BY <2>1, <2>2, SubsetInduction
<1> DEFINE m == [s \in S |-> IF s \in up THEN 1 ELSE 0]
<1>3. SumFunctionOnSet(m, S) = Cardinality(up)
  BY <1>2
<1>4. \A s \in S : f[s] = m[s]
  OBVIOUS
<1> HIDE DEF m
<1>5. SumFunctionOnSet(f, S) = SumFunctionOnSet(m, S)
  BY <1>4, SumOfEqual
<1> QED BY <1>3, <1>5

\* What is shared out is shared out completely, in non-negative parts.
LEMMA SplitsAddUp ==
  ASSUME NEW S, IsFiniteSet(S), NEW amount \in Nat, NEW share \in [S -> Nat], NEW out \in Splits(amount, share)
  PROVE  /\ out \in [S -> Nat]
         /\ SumFunctionOnSet(share, S) # 0 => SumFunctionOnSet(out, S) = amount
         /\ SumFunctionOnSet(share, S) = 0 => out = share
<1>0. DOMAIN share = S /\ \A s \in S : share[s] \in Nat
  OBVIOUS
<1> DEFINE total == SumFunction(share)
<1>1. total \in Nat /\ total = SumFunctionOnSet(share, S)
  BY <1>0, SumIsNat DEF SumFunction
<1>3. CASE total = 0
  <2>1. out = share
    BY <1>3 DEF Splits
  <2> QED BY <1>1, <1>3, <2>1
<1>4. CASE total # 0
  <2> USE <1>1
  <2> DEFINE part == [s \in DOMAIN share |-> (amount * share[s]) \div total]
             rounded == {s \in DOMAIN share : (amount * share[s]) % total # 0}
             parts == {[s \in DOMAIN share |-> part[s] + IF s \in up THEN 1 ELSE 0] :
                         up \in kSubset(amount - SumFunction(part), rounded)}
  <2>0. Splits(amount, share) = parts
    BY <1>4 DEF Splits
  <2> HIDE DEF total
  <2>1. PICK up \in kSubset(amount - SumFunction(part), rounded) :
           out = [s \in S |-> part[s] + IF s \in up THEN 1 ELSE 0]
    BY <2>0, <1>0
  <2>2. \A s \in S : part[s] \in Nat
    BY <1>0, ProductIsNat, <1>4
  <2>3. DOMAIN part = S
    BY <1>0
  <2>4. up \in SUBSET S
    BY <1>0, <2>1 DEF kSubset
  <2> DEFINE mark == [s \in S |-> IF s \in up THEN 1 ELSE 0]
  <2>5. \A s \in S : mark[s] \in Int /\ mark[s] = IF s \in up THEN 1 ELSE 0
    OBVIOUS
  <2>6. \A s \in S : out[s] = part[s] + mark[s]
    BY <2>1
  <2>7. out \in [S -> Nat]
    BY <2>1, <2>2
  <2>8. Cardinality(up) = amount - SumFunctionOnSet(part, S)
    BY <2>1, <2>3 DEF kSubset, SumFunction
  <2> HIDE DEF part, mark
  <2>9. SumFunctionOnSet(mark, S) = Cardinality(up)
    BY <2>4, <2>5, SumOfMarks
  <2>10. SumFunctionOnSet(out, S) = SumFunctionOnSet(part, S) + SumFunctionOnSet(mark, S)
    BY <2>2, <2>5, <2>6, SumAdds
  <2>11. SumFunctionOnSet(part, S) \in Int
    BY <2>2, SumIsInt
  <2> QED BY <1>1, <1>4, <2>7, <2>8, <2>9, <2>10, <2>11
<1> QED BY <1>3, <1>4

-----------------------------------------------------------------------------
(* Taxes *)

\* A year's tax is an amount.
LEMMA TaxIsNat == ASSUME NEW gain \in Int PROVE Tax(gain) \in Nat
<1>1. Deduction \in Nat /\ RatePercent \in Nat
  BY MoneyAssumption
<1>2. PICK d \in Int : d = gain - Deduction
  BY <1>1
<1>3. PICK m \in Nat : m = Max({0, gain - Deduction})
  BY MaxOfTwo, <1>2
<1>4. RatePercent * m \in Nat
  BY <1>1, ProductIsNat
<1>5. 100 \in Nat \ {0}
  OBVIOUS
<1>6. (RatePercent * m) \div 100 \in Nat
  BY <1>4, <1>5, Quotient
<1> QED BY <1>3, <1>6 DEF Tax

NetIsTyped == DOMAIN net \subseteq Years /\ \A y \in DOMAIN net : net[y] \in Int

\* Booking a gain changes the net gain of its year alone.
LEMMA RealizedIs ==
  ASSUME NetIsTyped, NEW y \in Years, NEW quantity, NEW gain \in Int,
         NEW after, after = Realized(y, quantity, gain)
  PROVE  /\ DOMAIN after \subseteq Years /\ \A z \in DOMAIN after : after[z] \in Int
         /\ DOMAIN net \subseteq DOMAIN after /\ DOMAIN after \subseteq DOMAIN net \cup {y}
         /\ \A z \in DOMAIN net : z # y => after[z] = net[z]
         /\ IF y \in DOMAIN after
              THEN after[y] = NetOf(y) + IF quantity = 0 THEN 0 ELSE gain
              ELSE quantity = 0 /\ y \notin DOMAIN net
<1>1. \A z \in DOMAIN net : net[z] \in Int /\ NetOf(z) = net[z]
  BY DEF NetIsTyped, NetOf
<1>2. NetOf(y) \in Int
  BY <1>1 DEF NetOf
<1>3. CASE quantity = 0
  <2>1. after = net
    BY <1>3 DEF Realized
  <2>2. y \in DOMAIN net => NetOf(y) = NetOf(y) + 0
    BY <1>2
  <2> QED BY <1>1, <1>3, <2>1, <2>2 DEF NetIsTyped
<1>4. CASE quantity # 0
  <2>1. after = [z \in DOMAIN net \cup {y} |-> NetOf(z) + IF z = y THEN gain ELSE 0]
    BY <1>4 DEF Realized
  <2>2. DOMAIN after = DOMAIN net \cup {y}
    BY <2>1
  <2>3. after[y] = NetOf(y) + gain
    BY <2>1
  <2>4. ASSUME NEW z \in DOMAIN net, z # y PROVE after[z] = net[z]
    <3>1. after[z] = NetOf(z) + 0
      BY <2>1, <2>4
    <3> QED BY <1>1, <3>1
  <2>5. \A z \in DOMAIN after : after[z] \in Int
    BY <1>1, <1>2, <2>2, <2>3, <2>4
  <2> QED BY <1>4, <2>2, <2>3, <2>4, <2>5 DEF NetIsTyped
<1> QED BY <1>3, <1>4

-----------------------------------------------------------------------------
(* The inductive invariant *)

\* The market of a session that has begun is a day of the calendar.
QuoteReal ==
  /\ month > 0 /\ quote.fx > 0 /\ quote.settleFx > 0
  /\ \A t \in Tickers : quote.price[t] > Commission
  /\ quote.settleYear \in Years /\ quote.settleYear >= YearOf(month)

LedgerShape ==
  /\ TypeOK
  /\ lots \in [Tickers -> Seq(Lot)]
  /\ quote \in [price : [Tickers -> Nat], fx : Nat, settleFx : Nat, settleYear : Nat]
  /\ phase # "idle" => QuoteReal
  /\ phase \in {"rebalance", "harvest", "harvesting", "fill", "verify"} => SumFunction(weights) # 0
  /\ harvest \in [budget : Int, realized : Int, todo : SUBSET Tickers]

FlowKept == phase \notin {"idle", "aborted"} => SumFunction(earmark) = flow.before + flow.in - flow.out
\* The taxes of a set of years.
TaxesOf(book, S) == SumFunctionOnSet([y \in S |-> Tax(book[y])], S)

AssessedBefore == IF phase \in {"actions", "settle", "assess"} THEN YearOf(Max({1, month - 1})) ELSE YearOf(month)
BilledSoFar ==
  phase # "aborted" =>
    /\ assessed = {y \in DOMAIN net : y < AssessedBefore}
    /\ taxPayable + taxesPaid = TaxesOf(net, assessed)
CashKept ==
  /\ phase # "convert" => cash = 0
  /\ phase = "convert" /\ cash > 0 => \A y \in Due : pending[y] = 0
HarvestKept ==
  phase = "harvesting" =>
    /\ quote.settleYear = YearOf(month)
    /\ NetOf(YearOf(month)) = Deduction - harvest.budget + harvest.realized
    /\ quote.settleFx <= quote.fx => harvest.realized <= harvest.budget
    /\ harvest.todo # {} => harvest.realized < harvest.budget
LedgerInv == LedgerShape /\ FlowKept /\ PayableReconciles /\ BilledSoFar /\ CashKept /\ HarvestKept

-----------------------------------------------------------------------------
(* The calendar *)

\* The year a month falls in.
LEMMA YearIs ==
  ASSUME NEW m \in Nat
  PROVE  /\ YearOf(m) \in Int
         /\ m >= 1 => YearOf(m) >= 1
         /\ m = 0 => YearOf(m) =< 1
         /\ m = 1 => YearOf(m) = 1
BY CalendarAssumption, Quotient, QuotientIsMonotone DEF YearOf

\* A later month falls in no earlier year.
LEMMA YearsGrow ==
  ASSUME NEW m \in Nat, NEW n \in Nat, m =< n
  PROVE  YearOf(m) =< YearOf(n)
<1>1. MonthsPerYear \in Nat \ {0}
  BY CalendarAssumption
<1>2. PICK j, k \in Int : j = m - 1 /\ k = n - 1
  OBVIOUS
<1>3. j \div MonthsPerYear =< k \div MonthsPerYear /\ j \div MonthsPerYear \in Int /\ k \div MonthsPerYear \in Int
  BY <1>2, <1>1
<1> QED BY <1>2, <1>3 DEF YearOf

\* The years of the months up to the horizon, and the ones they are due in.
LEMMA YearsAre ==
  ASSUME NEW m \in 1 .. Horizon
  PROVE  YearOf(m) \in Years /\ YearOf(m) + 1 \in Years /\ YearOf(Horizon) \in Nat
<1>1. Horizon \in Nat /\ m \in Nat /\ m =< Horizon /\ m >= 1 /\ Horizon >= 1
  BY CalendarAssumption
<1>2. YearOf(m) =< YearOf(Horizon)
  BY <1>1, YearsGrow
<1>3. YearOf(m) \in Int /\ YearOf(m) >= 1
  BY <1>1, YearIs
<1>4. YearOf(Horizon) \in Int /\ YearOf(Horizon) >= 1
  BY <1>1, YearIs
<1> QED BY <1>2, <1>3, <1>4 DEF Years

\* The years of a run are finitely many numbers.
LEMMA YearsFinite == IsFiniteSet(Years) /\ Years \subseteq Nat
BY CalendarAssumption, YearsAre, Interval DEF Years

\* The sleeves are finitely many, and their dollars add up.
LEMMA SleevesFinite == IsFiniteSet(Sleeves) /\ IsFiniteSet(Tickers) /\ Cash \notin Tickers /\ Cash \in Sleeves /\ Tickers \subseteq Sleeves
<1>1. IsFiniteSet(Tickers) /\ Cash \notin Tickers
  BY SleeveAssumption
<1>2. IsFiniteSet(Tickers \cup {Cash})
  BY <1>1, FS_AddElement
<1> QED BY <1>1, <1>2 DEF Sleeves

\* The earmarked dollars add up.
LEMMA EarmarkSum ==
  ASSUME NEW e \in [Sleeves -> Nat]
  PROVE  SumFunction(e) = SumFunctionOnSet(e, Sleeves) /\ SumFunction(e) \in Nat
<1>1. SumFunction(e) = SumFunctionOnSet(e, Sleeves)
  BY DEF SumFunction
<1>2. \A s \in Sleeves : e[s] \in Nat
  OBVIOUS
<1> QED BY <1>1, <1>2, SumIsNat, SleevesFinite

\* The months between which an event falls.
LEMMA EventYearsAre ==
  ASSUME month \in 1 .. Horizon
  PROVE  /\ YearOf(Max({1, month - 1})) \in Int /\ YearOf(Max({1, month - 1})) =< YearOf(month)
         /\ \A y \in EventYears : y \in Years /\ y >= YearOf(Max({1, month - 1}))
<1>1. PICK k \in Nat : k = Max({1, month - 1}) /\ 1 =< k /\ k =< month
  BY MaxOfTwo
<1>2. month \in Nat
  OBVIOUS
<1>3. YearOf(k) =< YearOf(month)
  BY <1>1, <1>2, YearsGrow
<1>4. YearOf(k) \in Int /\ YearOf(k) >= 1
  BY <1>1, YearIs
<1>5. YearOf(month) \in Years
  BY YearsAre
<1>6. ASSUME NEW y \in EventYears PROVE y \in Years /\ y >= YearOf(k)
  <2>1. y \in YearOf(k) .. YearOf(month)
    BY <1>1 DEF EventYears
  <2>2. Horizon \in 1 .. Horizon
    BY CalendarAssumption
  <2>3. YearOf(Horizon) \in Nat
    BY <2>2, YearsAre
  <2> QED BY <1>4, <1>5, <2>1, <2>3 DEF Years
<1> QED BY <1>1, <1>3, <1>4, <1>6

-----------------------------------------------------------------------------
(* Opening and closing a session *)

\* An empty ledger is sound.
LEMMA InitLedger == Init => LedgerInv
<1> SUFFICES ASSUME Init PROVE LedgerInv
  OBVIOUS
<1> USE DEF Init
<1>1. Horizon \in Nat /\ MaxEvents \in Nat
  BY CalendarAssumption, MoneyAssumption
<1>2. <<>> \in Seq(Lot) /\ DOMAIN net = {} /\ DOMAIN <<>> = {}
  OBVIOUS
<1>3. earmark \in [Sleeves -> Nat] /\ pending \in [Years -> Nat]
  OBVIOUS
<1>4. SumFunction(pending) = 0
  <2>1. \A y \in Years : pending[y] = 0
    OBVIOUS
  <2>2. DOMAIN pending = Years
    OBVIOUS
  <2>3. SumFunctionOnSet(pending, Years) = 0
    BY <2>1, YearsFinite, SumOfZeros
  <2> QED BY <2>2, <2>3 DEF SumFunction
<1>5. TypeOK
  <2>1. weights \in [Sleeves -> Nat]
    BY DEF NoWeights
  <2>2. flow \in [before : Nat, in : Nat, out : Nat]
    BY DEF NoFlow
  <2>3. harvest.todo \subseteq Tickers
    BY DEF NoHarvest
  <2>4. \A t \in Tickers : lots[t] \in Seq(Lot)
    BY <1>2
  <2>5. DOMAIN net \subseteq Years /\ \A y \in DOMAIN net : net[y] \in Int
    BY <1>2
  <2> QED BY <1>1, <1>3, <2>1, <2>2, <2>3, <2>4, <2>5 DEF TypeOK
<1>6. LedgerShape
  <2>1. quote \in [price : [Tickers -> Nat], fx : Nat, settleFx : Nat, settleYear : Nat]
    BY DEF NoQuote
  <2>2. harvest \in [budget : Int, realized : Int, todo : SUBSET Tickers]
    BY DEF NoHarvest
  <2>3. lots \in [Tickers -> Seq(Lot)]
    BY <1>2
  <2> QED BY <1>5, <2>1, <2>2, <2>3 DEF LedgerShape
<1>7. BilledSoFar
  <2>1. assessed = {y \in DOMAIN net : y < AssessedBefore}
    BY <1>2
  <2>3. TaxesOf(net, {}) = 0
    BY SumOfNone DEF TaxesOf
  <2> QED BY <2>1, <2>3 DEF BilledSoFar
<1> QED BY <1>4, <1>6, <1>7 DEF LedgerInv, FlowKept, PayableReconciles, CashKept, HarvestKept

\* The taxes of some years, summed over a table.
LEMMA TaxSum ==
  ASSUME NEW book, NEW S
  PROVE  MapThenSumSet(LAMBDA y : Tax(book[y]), S) = TaxesOf(book, S)
<1> DEFINE f(y) == Tax(book[y])
<1>1. MapThenSumSet(f, S) = SumFunctionOnSet([y \in S |-> f(y)], S)
  <2> HIDE DEF f
  <2> QED BY DEF SumFunctionOnSet, MapThenSumSet, FoldFunctionOnSet, MapThenFoldSet
<1> QED BY <1>1 DEF TaxesOf

\* Opening a month's session keeps the ledger sound.
LEMMA OpenKeeps == ASSUME LedgerInv, OpenSession PROVE LedgerInv'
<1> USE DEF LedgerInv
<1>1. /\ phase = "idle" /\ month < Horizon /\ month' = month + 1 /\ phase' = "actions"
      /\ flow' = [NoFlow EXCEPT !.before = SumFunction(earmark)]
      /\ UNCHANGED <<mode, listed, events, earmark, cash, lots, net, assessed, pending, taxPayable, taxesPaid, weights, harvest>>
  BY DEF OpenSession, taxes
<1>2. PICK q \in Quotes, late \in BOOLEAN :
         quote' = [price |-> q.price, fx |-> q.fx, settleFx |-> q.settleFx,
                   settleYear |-> YearOf(month + 1) + (IF late THEN 1 ELSE 0)]
  BY DEF OpenSession
<1>3. TypeOK /\ LedgerShape
  BY DEF LedgerShape
<1>4. month \in Nat /\ month' \in 1 .. Horizon /\ month' \in 0 .. Horizon
  BY <1>1, <1>3, CalendarAssumption DEF TypeOK
<1>5. YearOf(month') \in Years /\ YearOf(month') + 1 \in Years /\ YearOf(month') \in Nat
  BY <1>4, YearsAre, YearsFinite
<1>6. /\ quote'.settleYear \in Years /\ quote'.settleYear >= YearOf(month')
      /\ quote' \in [price : [Tickers -> Nat], fx : Nat, settleFx : Nat, settleYear : Nat]
      /\ quote'.fx > 0 /\ quote'.settleFx > 0 /\ \A t \in Tickers : quote'.price[t] > Commission
  <2>1. q \in [price : [Tickers -> Nat], fx : Nat \ {0}, settleFx : Nat \ {0}] /\ \A t \in Tickers : q.price[t] > Commission
    BY SleeveAssumption
  <2>2. YearOf(month + 1) + (IF late THEN 1 ELSE 0) \in Years /\ YearOf(month + 1) + (IF late THEN 1 ELSE 0) \in Nat
    BY <1>1, <1>5
  <2>3. YearOf(month + 1) + (IF late THEN 1 ELSE 0) >= YearOf(month')
    BY <1>1, <1>5
  <2> QED BY <1>2, <2>1, <2>2, <2>3
<1>7. SumFunction(earmark) \in Nat
  BY <1>3, EarmarkSum DEF TypeOK
<1>8. flow' \in [before : Nat, in : Nat, out : Nat] /\ flow'.before = SumFunction(earmark) /\ flow'.in = 0 /\ flow'.out = 0
  BY <1>1, <1>7 DEF NoFlow
<1>9. TypeOK'
  BY <1>1, <1>3, <1>4, <1>8 DEF TypeOK
<1>10. LedgerShape'
  BY <1>1, <1>3, <1>4, <1>6, <1>9 DEF LedgerShape, QuoteReal
<1>11. FlowKept'
  BY <1>1, <1>7, <1>8 DEF FlowKept
<1>12. BilledSoFar'
  <2>1. /\ assessed = {y \in DOMAIN net : y < YearOf(month)}
        /\ taxPayable + taxesPaid = TaxesOf(net, assessed)
    BY <1>1 DEF BilledSoFar, AssessedBefore
  <2>2. {y \in DOMAIN net : y < YearOf(Max({1, month' - 1}))} = {y \in DOMAIN net : y < YearOf(month)}
    <3>1. Max({1, month}) = IF 1 >= month THEN 1 ELSE month
      BY <1>4, MaxOfTwo
    <3>2. month' - 1 = month
      BY <1>1, <1>4
    <3>3. CASE month >= 1
      <4>1. Max({1, month' - 1}) = Max({1, month})
        BY <3>2, Zenon
      <4>2. Max({1, month}) = month
        BY <1>4, <3>1, <3>3
      <4>3. YearOf(Max({1, month' - 1})) = YearOf(month)
        BY <4>1, <4>2, Zenon
      <4> QED BY <4>3
    <3>4. CASE month = 0
      <4>1. YearOf(Max({1, month' - 1})) = 1 /\ YearOf(month) =< 1 /\ YearOf(month) \in Int
        BY <3>1, <3>2, <3>4, YearIs
      <4>2. \A y \in DOMAIN net : ~ (y < 1) /\ y \in Int
        BY <1>3 DEF TypeOK, Years
      <4> QED BY <4>1, <4>2
    <3> QED BY <1>4, <3>3, <3>4
  <2>3. assessed' = {y \in DOMAIN net' : y < YearOf(Max({1, month' - 1}))}
    BY <1>1, <2>1, <2>2
  <2>5. taxPayable' + taxesPaid' = TaxesOf(net', assessed')
    BY <1>1, <2>1
  <2> QED BY <1>1, <2>3, <2>5 DEF BilledSoFar, AssessedBefore
<1> QED BY <1>1, <1>10, <1>11, <1>12 DEF PayableReconciles, CashKept, HarvestKept

\* Closing a session keeps the ledger sound.
LEMMA CloseKeeps == ASSUME LedgerInv, CloseSession PROVE LedgerInv'
<1> USE DEF LedgerInv
<1>1. /\ phase = "verify" /\ phase' = "idle" /\ quote' = NoQuote /\ weights' = NoWeights /\ flow' = NoFlow
      /\ UNCHANGED <<mode, month, listed, events, earmark, cash, lots, net, assessed, pending, taxPayable, taxesPaid, harvest>>
  BY DEF CloseSession, taxes
<1>2. weights' \in [Sleeves -> Nat] /\ flow' \in [before : Nat, in : Nat, out : Nat]
  BY <1>1 DEF NoWeights, NoFlow
<1>3. quote' \in [price : [Tickers -> Nat], fx : Nat, settleFx : Nat, settleYear : Nat]
  BY <1>1 DEF NoQuote
<1>4. TypeOK'
  BY <1>1, <1>2 DEF LedgerShape, TypeOK
<1>5. LedgerShape'
  BY <1>1, <1>3, <1>4 DEF LedgerShape
<1>6. BilledSoFar'
  BY <1>1 DEF BilledSoFar, AssessedBefore
<1> QED BY <1>1, <1>5, <1>6 DEF FlowKept, PayableReconciles, CashKept, HarvestKept

\* A delisting keeps the ledger sound.
LEMMA DelistKeeps == ASSUME LedgerInv, NEW t \in Tickers, Delist(t) PROVE LedgerInv'
<1> USE DEF LedgerInv
<1>1. /\ phase = "idle" /\ listed' = listed \ {t} /\ events' = events + 1 /\ events < MaxEvents
      /\ UNCHANGED <<mode, month, phase, quote, earmark, cash, lots, net, assessed, pending, taxPayable, taxesPaid, flow, weights, harvest>>
  BY DEF Delist, taxes
<1>2. events' \in 0 .. MaxEvents
  BY <1>1, MoneyAssumption DEF LedgerShape, TypeOK
<1>3. TypeOK'
  BY <1>1, <1>2 DEF LedgerShape, TypeOK
<1>4. LedgerShape'
  BY <1>1, <1>3 DEF LedgerShape, QuoteReal
<1>5. BilledSoFar'
  BY <1>1 DEF BilledSoFar, AssessedBefore
<1> QED BY <1>1, <1>4, <1>5 DEF FlowKept, PayableReconciles, CashKept, HarvestKept

\* Aborting the run keeps the ledger sound.
LEMMA AbortKeeps == ASSUME LedgerInv, Abort PROVE LedgerInv'
<1> USE DEF LedgerInv
<1>1. /\ phase \in {"actions", "settle", "rebalance", "harvesting", "fill"} /\ phase' = "aborted"
      /\ UNCHANGED <<mode, month, quote, listed, events, earmark, cash, lots, net, assessed, pending, taxPayable, taxesPaid, flow, weights, harvest>>
  BY DEF Abort, taxes, market
<1>3. TypeOK'
  BY <1>1 DEF LedgerShape, TypeOK
<1>4. LedgerShape'
  BY <1>1, <1>3 DEF LedgerShape, QuoteReal
<1> QED BY <1>1, <1>4 DEF FlowKept, PayableReconciles, CashKept, HarvestKept, BilledSoFar

\* Skipping the rebalance keeps the ledger sound.
LEMMA SkipKeeps == ASSUME LedgerInv, SkipRebalance PROVE LedgerInv'
<1> USE DEF LedgerInv
<1>1. /\ phase = "rebalance" /\ phase' = "harvest"
      /\ UNCHANGED <<mode, month, quote, listed, events, earmark, cash, lots, net, assessed, pending, taxPayable, taxesPaid, flow, weights, harvest>>
  BY DEF SkipRebalance, taxes, market
<1>3. TypeOK'
  BY <1>1 DEF LedgerShape, TypeOK
<1>4. LedgerShape'
  BY <1>1, <1>3 DEF LedgerShape, QuoteReal
<1>5. BilledSoFar'
  BY <1>1 DEF BilledSoFar, AssessedBefore
<1> QED BY <1>1, <1>4, <1>5 DEF FlowKept, PayableReconciles, CashKept, HarvestKept

\* The net gain of a year, booked or not, is a number.
LEMMA NetOfIsInt == ASSUME NetIsTyped, NEW y PROVE NetOf(y) \in Int
BY DEF NetIsTyped, NetOf

\* Setting the budget of a harvest keeps the ledger sound.
LEMMA StartKeeps == ASSUME LedgerInv, StartHarvest PROVE LedgerInv'
<1> USE DEF LedgerInv
<1>1. /\ phase = "harvest"
      /\ UNCHANGED <<mode, month, quote, listed, events, earmark, cash, lots, net, assessed, pending, taxPayable, taxesPaid, flow, weights>>
  BY DEF StartHarvest, taxes, market
<1>2. NetIsTyped /\ Deduction \in Nat /\ HarvestBudget \in Int /\ NetOf(YearOf(month)) \in Int
  <2>1. NetIsTyped
    BY DEF LedgerShape, TypeOK, NetIsTyped
  <2> QED BY <2>1, NetOfIsInt, MoneyAssumption DEF HarvestBudget
<1>3. CASE HarvestSeason /\ HarvestBudget > 0
  <2>1. phase' = "harvesting" /\ harvest' = [budget |-> HarvestBudget, realized |-> 0, todo |-> {t \in Held : weights[t] > 0}]
    BY <1>3 DEF StartHarvest
  <2>2. harvest' \in [budget : Int, realized : Int, todo : SUBSET Tickers]
    BY <1>2, <2>1 DEF Held
  <2>3. TypeOK'
    BY <1>1, <2>1, <2>2 DEF LedgerShape, TypeOK
  <2>4. LedgerShape'
    BY <1>1, <2>1, <2>2, <2>3 DEF LedgerShape, QuoteReal
  <2>5. BilledSoFar'
    BY <1>1, <2>1 DEF BilledSoFar, AssessedBefore
  <2>6. HarvestKept'
    <3>1. harvest'.budget = HarvestBudget /\ harvest'.realized = 0
      BY <2>1
    <3>2. quote.settleYear = YearOf(month) /\ HarvestBudget = Deduction - NetOf(YearOf(month))
      BY <1>3 DEF HarvestSeason, HarvestBudget
    <3>3. NetOf(YearOf(month))' = NetOf(YearOf(month))
      BY <1>1 DEF NetOf, YearOf
    <3>4. quote' = quote /\ YearOf(month)' = YearOf(month)
      BY <1>1
    <3>5. NetOf(YearOf(month)) = Deduction - HarvestBudget + 0
      BY <1>2, <3>2
    <3> QED BY <1>2, <1>3, <3>1, <3>2, <3>3, <3>4, <3>5 DEF HarvestKept
  <2> QED BY <1>1, <2>1, <2>4, <2>5, <2>6 DEF FlowKept, PayableReconciles, CashKept
<1>4. CASE ~ (HarvestSeason /\ HarvestBudget > 0)
  <2>1. phase' = "fill" /\ harvest' = harvest
    BY <1>4 DEF StartHarvest
  <2>3. TypeOK'
    BY <1>1, <2>1 DEF LedgerShape, TypeOK
  <2>4. LedgerShape'
    BY <1>1, <2>1, <2>3 DEF LedgerShape, QuoteReal
  <2>5. BilledSoFar'
    BY <1>1, <2>1 DEF BilledSoFar, AssessedBefore
  <2> QED BY <1>1, <2>1, <2>4, <2>5 DEF FlowKept, PayableReconciles, CashKept, HarvestKept
<1> QED BY <1>3, <1>4

\* Ending a harvest keeps the ledger sound.
LEMMA EndKeeps == ASSUME LedgerInv, EndHarvest PROVE LedgerInv'
<1> USE DEF LedgerInv
<1>1. /\ phase = "harvesting" /\ phase' = "fill" /\ harvest' = NoHarvest
      /\ UNCHANGED <<mode, month, quote, listed, events, earmark, cash, lots, net, assessed, pending, taxPayable, taxesPaid, flow, weights>>
  BY DEF EndHarvest, taxes, market
<1>2. harvest' \in [budget : Int, realized : Int, todo : SUBSET Tickers]
  BY <1>1 DEF NoHarvest
<1>3. TypeOK'
  BY <1>1, <1>2 DEF LedgerShape, TypeOK
<1>4. LedgerShape'
  BY <1>1, <1>2, <1>3 DEF LedgerShape, QuoteReal
<1>5. BilledSoFar'
  BY <1>1 DEF BilledSoFar, AssessedBefore
<1> QED BY <1>1, <1>4, <1>5 DEF FlowKept, PayableReconciles, CashKept, HarvestKept

-----------------------------------------------------------------------------
(* Corporate actions *)

\* A credit reaches the earmarks and the conservation record alike.
LEMMA CreditIs ==
  ASSUME LedgerShape, FlowKept, phase \notin {"idle", "aborted"},
         NEW s \in Sleeves, NEW usd \in Nat, Credit(s, usd)
  PROVE  /\ earmark' \in [Sleeves -> Nat] /\ flow' \in [before : Nat, in : Nat, out : Nat]
         /\ SumFunction(earmark') = flow'.before + flow'.in - flow'.out
<1>1. earmark \in [Sleeves -> Nat] /\ flow \in [before : Nat, in : Nat, out : Nat]
  BY DEF LedgerShape, TypeOK
<1>2. earmark' = [earmark EXCEPT ![s] = @ + usd] /\ flow' = [flow EXCEPT !.in = @ + usd]
  BY DEF Credit
<1>3. earmark' \in [Sleeves -> Nat] /\ flow' \in [before : Nat, in : Nat, out : Nat]
  BY <1>1, <1>2
<1>4. SumFunctionOnSet(earmark', Sleeves) = SumFunctionOnSet(earmark, Sleeves) - earmark[s] + earmark'[s]
  <2>1. DiffersAt(Sleeves, earmark, earmark', s)
    BY <1>1, <1>2, <1>3, SleevesFinite DEF DiffersAt
  <2> QED BY <2>1, SumThatDiffers
<1>5. earmark'[s] = earmark[s] + usd /\ earmark[s] \in Nat
  BY <1>1, <1>2
<1>6. /\ SumFunction(earmark) = SumFunctionOnSet(earmark, Sleeves) /\ SumFunction(earmark) \in Nat
      /\ SumFunction(earmark') = SumFunctionOnSet(earmark', Sleeves)
  BY <1>1, <1>3, EarmarkSum
<1>7. /\ flow'.in = flow.in + usd /\ flow'.before = flow.before /\ flow'.out = flow.out
      /\ flow.in \in Nat /\ flow.before \in Nat /\ flow.out \in Nat
  BY <1>1, <1>2
<1>8. SumFunction(earmark) = flow.before + flow.in - flow.out
  BY DEF FlowKept
<1> QED BY <1>3, <1>4, <1>5, <1>6, <1>7, <1>8

\* A dividend keeps the ledger sound.
LEMMA DividendKeeps == ASSUME LedgerInv, NEW t \in Tickers, PayDividend(t) PROVE LedgerInv'
<1> USE DEF LedgerInv
<1>1. /\ phase = "actions" /\ events < MaxEvents /\ events' = events + 1
      /\ UNCHANGED <<mode, month, phase, quote, listed, cash, lots, net, assessed, pending, taxPayable, taxesPaid, weights, harvest>>
  BY DEF PayDividend, CorporateAction, taxes, market
<1>2. PICK usd \in Dividends : Credit(t, Quantity(lots[t]) * usd)
  BY DEF PayDividend
<1>3. Quantity(lots[t]) * usd \in Nat
  <2>1. lots[t] \in Seq(Lot) /\ usd \in Nat
    BY MoneyAssumption DEF LedgerShape
  <2>2. Quantity(lots[t]) \in Nat
    BY <2>1, LotIsAny, QuantityIsUpTo
  <2> QED BY <2>1, <2>2, ProductIsNat
<1>4. /\ earmark' \in [Sleeves -> Nat] /\ flow' \in [before : Nat, in : Nat, out : Nat]
      /\ SumFunction(earmark') = flow'.before + flow'.in - flow'.out
  BY <1>1, <1>2, <1>3, SleevesFinite, CreditIs
<1>5. events' \in 0 .. MaxEvents
  BY <1>1, MoneyAssumption, SMTT(40) DEF LedgerShape, TypeOK
<1>6. TypeOK'
  BY <1>1, <1>4, <1>5 DEF LedgerShape, TypeOK
<1>7. LedgerShape'
  BY <1>1, <1>6 DEF LedgerShape, QuoteReal
<1>8. BilledSoFar'
  BY <1>1 DEF BilledSoFar, AssessedBefore
<1> QED BY <1>1, <1>4, <1>7, <1>8 DEF FlowKept, PayableReconciles, CashKept, HarvestKept

\* Accruing the taxes of finished years keeps the ledger sound.
LEMMA AccrueKeeps == ASSUME LedgerInv, Accrue PROVE LedgerInv'
<1> USE DEF LedgerInv
<1>1. /\ phase = "actions" /\ phase' = "settle"
      /\ UNCHANGED <<mode, month, quote, listed, events, cash, lots, net, assessed, pending, taxPayable, taxesPaid, weights, harvest>>
  BY DEF Accrue, taxes, market
<1>2. PICK usd \in Nat : Credit(Cash, usd)
  BY MoneyAssumption DEF Accrue
<1>4. /\ earmark' \in [Sleeves -> Nat] /\ flow' \in [before : Nat, in : Nat, out : Nat]
      /\ SumFunction(earmark') = flow'.before + flow'.in - flow'.out
  BY <1>1, <1>2, SleevesFinite, CreditIs
<1>6. TypeOK'
  BY <1>1, <1>4 DEF LedgerShape, TypeOK
<1>7. LedgerShape'
  BY <1>1, <1>6 DEF LedgerShape, QuoteReal
<1>8. BilledSoFar'
  BY <1>1 DEF BilledSoFar, AssessedBefore
<1> QED BY <1>1, <1>4, <1>7, <1>8 DEF FlowKept, PayableReconciles, CashKept, HarvestKept

\* A forward split keeps the ledger sound.
LEMMA ForwardKeeps == ASSUME LedgerInv, NEW t \in Tickers, ForwardSplit(t) PROVE LedgerInv'
<1> USE DEF LedgerInv
<1>1. /\ phase = "actions" /\ events < MaxEvents /\ events' = events + 1
      /\ UNCHANGED <<mode, month, phase, quote, listed, earmark, flow, cash, net, assessed, pending, taxPayable, taxesPaid, weights, harvest>>
  BY DEF ForwardSplit, CorporateAction, taxes, market
<1>2. PICK k \in SplitFactors : lots' = [lots EXCEPT ![t] = SplitForward(@, k)]
  BY DEF ForwardSplit
<1>3. lots \in [Tickers -> Seq(Lot)] /\ k \in Nat \ {0}
  BY MoneyAssumption DEF LedgerShape
<1>4. SplitForward(lots[t], k) \in Seq(Lot)
  BY <1>3, SplitForwardIs
<1>5. lots' \in [Tickers -> Seq(Lot)]
  BY <1>2, <1>3, <1>4
<1>6. events' \in 0 .. MaxEvents
  BY <1>1, MoneyAssumption, SMTT(40) DEF LedgerShape, TypeOK
<1>7. TypeOK'
  BY <1>1, <1>5, <1>6 DEF LedgerShape, TypeOK
<1>8. LedgerShape'
  BY <1>1, <1>5, <1>7 DEF LedgerShape, QuoteReal
<1>9. BilledSoFar'
  BY <1>1 DEF BilledSoFar, AssessedBefore
<1> QED BY <1>1, <1>8, <1>9 DEF FlowKept, PayableReconciles, CashKept, HarvestKept

\* A gain that settles in a year not assessed yet leaves the assessed years and
\* their taxes as they are.
LEMMA LateGain ==
  ASSUME NetIsTyped, NEW y \in Years, NEW quantity, NEW gain \in Int,
         NEW after, after = Realized(y, quantity, gain),
         NEW before \in Int, before =< y, assessed = {z \in DOMAIN net : z < before}
  PROVE  /\ {z \in DOMAIN after : z < before} = assessed
         /\ TaxesOf(after, assessed) = TaxesOf(net, assessed)
<1>1. /\ DOMAIN net \subseteq DOMAIN after /\ DOMAIN after \subseteq DOMAIN net \cup {y}
      /\ \A z \in DOMAIN net : z # y => after[z] = net[z]
      /\ DOMAIN after \subseteq Years
  BY RealizedIs
<1>2. Years \subseteq Nat /\ IsFiniteSet(Years)
  BY YearsFinite
<1>3. ~ (y < before)
  BY <1>2
<1>4. {z \in DOMAIN after : z < before} = assessed
  BY <1>1, <1>3
<1>5. assessed \subseteq Years /\ \A z \in assessed : z # y /\ after[z] = net[z]
  BY <1>1, <1>3
<1>6. IsFiniteSet(assessed)
  BY <1>2, <1>5, FS_Subset
<1> DEFINE f == [z \in assessed |-> Tax(after[z])]
           g == [z \in assessed |-> Tax(net[z])]
<1>7. \A z \in assessed : f[z] = g[z]
  BY <1>5
<1> HIDE DEF f, g
<1>8. SumFunctionOnSet(f, assessed) = SumFunctionOnSet(g, assessed)
  BY <1>6, <1>7, SumOfEqual
<1> QED BY <1>4, <1>8 DEF f, g, TaxesOf

\* Booking a gain leaves numbers for years.
LEMMA NetStaysTyped ==
  ASSUME LedgerShape, NEW y \in Years, NEW quantity, NEW gain \in Int, net' = Realized(y, quantity, gain)
  PROVE  NetIsTyped /\ DOMAIN net' \subseteq Years /\ \A z \in DOMAIN net' : net'[z] \in Int
<1>1. NetIsTyped
  BY DEF LedgerShape, TypeOK, NetIsTyped
<1> QED BY <1>1, RealizedIs

\* A reverse split and its cash in lieu keep the ledger sound.
LEMMA ReverseKeeps == ASSUME LedgerInv, NEW t \in Tickers, ReverseSplit(t) PROVE LedgerInv'
<1> USE DEF LedgerInv
<1>1. /\ phase = "actions" /\ events < MaxEvents /\ events' = events + 1
      /\ UNCHANGED <<mode, month, phase, quote, listed, cash, assessed, pending, taxPayable, taxesPaid, weights, harvest>>
  BY DEF ReverseSplit, CorporateAction, taxes, market
<1>2. PICK k \in SplitFactors, q \in Quotes, y \in EventYears :
         LET cut     == Remainder(lots[t], k)
             usd     == (cut * q.price[t]) \div k
             after   == SplitReverse(lots[t], k)
             removed == BasisKrw(lots[t]) - BasisKrw(after)
         IN /\ lots' = [lots EXCEPT ![t] = after]
            /\ Credit(t, usd)
            /\ net' = Realized(y, cut, usd * q.fx - removed)
  BY DEF ReverseSplit
<1> DEFINE after == SplitReverse(lots[t], k)
<1>3. lots \in [Tickers -> Seq(Lot)] /\ k \in Nat \ {0} /\ q.price[t] \in Nat /\ q.fx \in Nat
  <2>1. q \in [price : [Tickers -> Nat], fx : Nat \ {0}, settleFx : Nat \ {0}]
    BY SleeveAssumption
  <2> QED BY <2>1, MoneyAssumption DEF LedgerShape
<1>4. lots[t] \in Seq(Lot) /\ after \in Seq(Lot)
  BY <1>3, SplitReverseIs
<1>5. PICK cut \in Nat : cut = Remainder(lots[t], k)
  BY <1>3, <1>4, RemainderIsNat
<1>6. PICK usd \in Nat : usd = (cut * q.price[t]) \div k
  <2>1. cut * q.price[t] \in Nat
    BY <1>3, ProductIsNat
  <2> QED BY <1>3, <2>1, Quotient
<1>7. PICK gain \in Int : gain = usd * q.fx - (BasisKrw(lots[t]) - BasisKrw(after))
  BY <1>3, ProductIsNat, <1>4, BasisIsNat
<1>8. lots' = [lots EXCEPT ![t] = after] /\ Credit(t, usd) /\ net' = Realized(y, cut, gain)
  BY <1>2, <1>5, <1>6, <1>7
<1> HIDE DEF after
<1>9. lots' \in [Tickers -> Seq(Lot)]
  BY <1>3, <1>4, <1>8
<1>10. /\ earmark' \in [Sleeves -> Nat] /\ flow' \in [before : Nat, in : Nat, out : Nat]
       /\ SumFunction(earmark') = flow'.before + flow'.in - flow'.out
  BY <1>1, <1>8, SleevesFinite, CreditIs
<1>11. month \in 1 .. Horizon
  BY <1>1 DEF LedgerShape, TypeOK, QuoteReal
<1> DEFINE before == YearOf(Max({1, month - 1}))
<1>12. y \in Years /\ before \in Int /\ before =< y
  BY <1>11, EventYearsAre, YearsFinite
<1>13. NetIsTyped /\ DOMAIN net' \subseteq Years /\ \A z \in DOMAIN net' : net'[z] \in Int
  BY <1>8, <1>12, NetStaysTyped
<1>14. events' \in 0 .. MaxEvents
  BY <1>1, MoneyAssumption, SMTT(40) DEF LedgerShape, TypeOK
<1>15. TypeOK'
  BY <1>1, <1>9, <1>10, <1>13, <1>14 DEF LedgerShape, TypeOK
<1>16. LedgerShape'
  BY <1>1, <1>9, <1>15 DEF LedgerShape, QuoteReal
<1>17. BilledSoFar'
  <2>1. assessed = {z \in DOMAIN net : z < before} /\ taxPayable + taxesPaid = TaxesOf(net, assessed)
    BY <1>1 DEF BilledSoFar, AssessedBefore
  <2> HIDE DEF before
  <2>2. {z \in DOMAIN net' : z < before} = assessed /\ TaxesOf(net', assessed) = TaxesOf(net, assessed)
    BY <1>8, <1>12, <1>13, <2>1, LateGain
  <2>3. AssessedBefore' = before
    BY <1>1 DEF AssessedBefore, before
  <2> QED BY <1>1, <2>1, <2>2, <2>3 DEF BilledSoFar
<1> QED BY <1>1, <1>10, <1>16, <1>17 DEF FlowKept, PayableReconciles, CashKept, HarvestKept

\* What is nonzero only on a part adds up to the sum over the part.
LEMMA SumOfPart ==
  ASSUME NEW S, IsFiniteSet(S), NEW T \in SUBSET S, NEW f, NEW g,
         \A x \in T : f[x] \in Int, \A x \in S : g[x] = IF x \in T THEN f[x] ELSE 0
  PROVE  SumFunctionOnSet(g, S) = SumFunctionOnSet(f, T)
<1>1. IsFiniteSet(T) /\ IsFiniteSet(S \ T) /\ T \cap (S \ T) = {} /\ T \cup (S \ T) = S
  BY FS_Subset
<1>2. \A x \in T \cup (S \ T) : g[x] \in Int
  OBVIOUS
<1>3. SumFunctionOnSet(g, T \cup (S \ T)) = SumFunctionOnSet(g, T) + SumFunctionOnSet(g, S \ T)
  <2>1. PICK U : U = S \ T
    OBVIOUS
  <2>2. SumFunctionOnSet(g, T \cup U) = SumFunctionOnSet(g, T) + SumFunctionOnSet(g, U)
    <3>1. T \cap U = {} /\ IsFiniteSet(U) /\ \A x \in T \cup U : g[x] \in Int
      BY <1>1, <1>2, <2>1
    <3> QED BY <1>1, <3>1, SumOfUnion
  <2> QED BY <2>1, <2>2
<1>4. SumFunctionOnSet(g, T) = SumFunctionOnSet(f, T)
  BY <1>1, SumOfEqual
<1>5. SumFunctionOnSet(g, S \ T) = 0
  <2>1. \A x \in S \ T : g[x] = 0
    OBVIOUS
  <2> QED BY <1>1, <2>1, SumOfZeros
<1>6. SumFunctionOnSet(f, T) \in Int
  BY <1>1, SumIsInt
<1> QED BY <1>1, <1>3, <1>4, <1>5, <1>6

\* Moving the dollars of some tickers to CASH, with the proceeds of a sale.
MovesToCash(e, gone, proceeds, after) ==
  after = [s \in Sleeves |-> IF s \in gone THEN 0
             ELSE IF s = Cash THEN e[s] + proceeds + SumFunctionOnSet(e, gone) ELSE e[s]]

\* Moving the dollars of delisted tickers to cash loses none of them.
LEMMA MovedToCash ==
  ASSUME NEW e \in [Sleeves -> Nat], NEW gone \in SUBSET Tickers, NEW proceeds \in Nat, NEW after,
         MovesToCash(e, gone, proceeds, after)
  PROVE  after \in [Sleeves -> Nat] /\ SumFunction(after) = SumFunction(e) + proceeds
<1>1. /\ IsFiniteSet(Sleeves) /\ IsFiniteSet(gone) /\ gone \in SUBSET Sleeves
      /\ Cash \in Sleeves /\ Cash \notin gone
  BY SleevesFinite, FS_Subset
<1> USE DEF MovesToCash
<1>2. PICK stranded \in Nat : stranded = SumFunctionOnSet(e, gone)
  BY <1>1, SumIsNat
<1>3. after \in [Sleeves -> Nat]
  BY <1>2
<1> DEFINE held == [s \in Sleeves |-> IF s \in gone THEN e[s] ELSE 0]
           kept == [s \in Sleeves |-> IF s \in gone THEN 0 ELSE e[s]]
<1>4. /\ \A s \in Sleeves : held[s] = IF s \in gone THEN e[s] ELSE 0
      /\ \A s \in Sleeves : e[s] \in Int /\ held[s] \in Int /\ kept[s] \in Nat /\ kept[s] = e[s] - held[s]
  OBVIOUS
<1>5. DiffersAt(Sleeves, kept, after, Cash)
  BY <1>1, <1>3 DEF DiffersAt
<1>6. kept[Cash] = e[Cash] /\ after[Cash] = e[Cash] + proceeds + stranded /\ e[Cash] \in Nat
  BY <1>1, <1>2
<1> HIDE DEF held, kept
<1>7. SumFunctionOnSet(held, Sleeves) = stranded
  BY <1>1, <1>2, <1>4, SumOfPart
<1>8. SumFunctionOnSet(kept, Sleeves) = SumFunctionOnSet(e, Sleeves) - stranded
  BY <1>1, <1>4, SumSubtracts, <1>7
<1>9. SumFunctionOnSet(after, Sleeves) = SumFunctionOnSet(kept, Sleeves) - kept[Cash] + after[Cash]
  BY <1>5, SumThatDiffers
<1>10. SumFunction(after) = SumFunctionOnSet(after, Sleeves) /\ SumFunction(e) = SumFunctionOnSet(e, Sleeves) /\ SumFunction(e) \in Nat
  BY <1>3, EarmarkSum
<1> QED BY <1>2, <1>3, <1>6, <1>8, <1>9, <1>10

\* What the sale of every delisted holding yields, and its gain.
SaleOf(q) == [t \in Held \ listed |-> Quantity(lots[t]) * (q.price[t] - Commission)]
GainOfSale(q) == [t \in Held \ listed |-> Quantity(lots[t]) * (q.price[t] - Commission) * q.settleFx - BasisKrw(lots[t])]
DelistedAt(q, y) ==
  LET gone == Held \ listed
      proceeds == SumFunctionOnSet(SaleOf(q), gone)
  IN /\ earmark' = [s \in Sleeves |->
            IF s \in gone THEN 0
            ELSE IF s = Cash THEN earmark[s] + proceeds + SumFunctionOnSet(earmark, gone) ELSE earmark[s]]
     /\ net' = Realized(y, Cardinality(gone), SumFunctionOnSet(GainOfSale(q), gone))
     /\ flow' = [flow EXCEPT !.in = @ + proceeds]

\* What settling the delisted tickers changes.
LEMMA SettleIs ==
  ASSUME SettleDelisted
  PROVE  \E q \in Quotes, y \in EventYears : DelistedAt(q, y)
<1> DEFINE gone == Held \ listed
<1>1. PICK q \in Quotes, y \in EventYears :
          LET usd(t)   == Quantity(lots[t]) * (q.price[t] - Commission)
              proceeds == MapThenSumSet(usd, gone)
              stranded == MapThenSumSet(LAMBDA t : earmark[t], gone)
              gain(t)  == usd(t) * q.settleFx - BasisKrw(lots[t])
          IN /\ earmark' = [s \in Sleeves |->
                  IF s \in gone THEN 0
                  ELSE IF s = Cash THEN earmark[s] + proceeds + stranded ELSE earmark[s]]
             /\ net' = Realized(y, Cardinality(gone), MapThenSumSet(gain, gone))
             /\ flow' = [flow EXCEPT !.in = @ + proceeds]
  BY Zenon DEF SettleDelisted
<1> DEFINE usd(t)   == Quantity(lots[t]) * (q.price[t] - Commission)
           gain(t)  == usd(t) * q.settleFx - BasisKrw(lots[t])
<1>2. MapThenSumSet(usd, gone) = SumFunctionOnSet([t \in gone |-> usd(t)], gone)
  <2> HIDE DEF usd, gone
  <2> QED BY DEF SumFunctionOnSet, MapThenSumSet, FoldFunctionOnSet, MapThenFoldSet
<1>3. MapThenSumSet(gain, gone) = SumFunctionOnSet([t \in gone |-> gain(t)], gone)
  <2> HIDE DEF gain, gone
  <2> QED BY DEF SumFunctionOnSet, MapThenSumSet, FoldFunctionOnSet, MapThenFoldSet
<1>4. MapThenSumSet(LAMBDA t : earmark[t], gone) = SumFunctionOnSet(earmark, gone)
  BY FnSum
<1>5. DelistedAt(q, y)
  BY <1>1, <1>2, <1>3, <1>4, Zenon DEF DelistedAt, SaleOf, GainOfSale
<1> QED BY <1>5

\* Settling the delisted tickers keeps the ledger sound.
LEMMA SettleKeeps == ASSUME LedgerInv, SettleDelisted PROVE LedgerInv'
<1> USE DEF LedgerInv
<1> DEFINE gone == Held \ listed
<1>1. /\ phase = "settle" /\ phase' = "assess"
      /\ lots' = [t \in Tickers |-> IF t \in gone THEN <<>> ELSE lots[t]]
      /\ UNCHANGED <<mode, month, quote, listed, events, cash, assessed, pending, taxPayable, taxesPaid, weights, harvest>>
  BY DEF SettleDelisted, taxes, market
<1>2. PICK q \in Quotes, y \in EventYears : DelistedAt(q, y)
  BY SettleIs
<1>3. lots \in [Tickers -> Seq(Lot)] /\ earmark \in [Sleeves -> Nat] /\ flow \in [before : Nat, in : Nat, out : Nat]
  BY DEF LedgerShape, TypeOK
<1>4. gone \in SUBSET Tickers /\ IsFiniteSet(gone)
  <2>1. gone \in SUBSET Tickers
    BY DEF Held
  <2> QED BY <2>1, SleevesFinite, FS_Subset
<1>5. ASSUME NEW t \in gone
      PROVE  SaleOf(q)[t] \in Nat /\ GainOfSale(q)[t] \in Int
  <2>1. q.price[t] \in Nat /\ q.price[t] > Commission /\ q.settleFx \in Nat /\ Commission \in Nat
    <3>1. q \in [price : [Tickers -> Nat], fx : Nat \ {0}, settleFx : Nat \ {0}] /\ \A u \in Tickers : q.price[u] > Commission
      BY SleeveAssumption
    <3> QED BY <1>4, <3>1, MoneyAssumption
  <2>2. lots[t] \in Seq(Lot)
    BY <1>3, <1>4
  <2>3. Quantity(lots[t]) \in Nat /\ BasisKrw(lots[t]) \in Nat
    BY <2>2, LotIsAny, QuantityIsUpTo, BasisIsNat
  <2>4. PICK n \in Nat : n = q.price[t] - Commission
    BY <2>1
  <2>5. PICK usd \in Nat : usd = Quantity(lots[t]) * (q.price[t] - Commission)
    BY <2>3, <2>4, ProductIsNat
  <2>6. usd * q.settleFx \in Nat
    BY <2>1, ProductIsNat
  <2>7. SaleOf(q)[t] = usd /\ GainOfSale(q)[t] = usd * q.settleFx - BasisKrw(lots[t])
    BY <2>5 DEF SaleOf, GainOfSale
  <2> QED BY <2>3, <2>6, <2>7
<1> HIDE DEF gone
<1>6. PICK proceeds \in Nat : proceeds = SumFunctionOnSet(SaleOf(q), gone)
  BY <1>4, <1>5, SumIsNat
<1>7. PICK gain \in Int : gain = SumFunctionOnSet(GainOfSale(q), gone)
  BY <1>4, <1>5, SumIsInt
<1>8. /\ earmark' = [s \in Sleeves |-> IF s \in gone THEN 0
            ELSE IF s = Cash THEN earmark[s] + proceeds + SumFunctionOnSet(earmark, gone) ELSE earmark[s]]
      /\ net' = Realized(y, Cardinality(gone), gain)
      /\ flow' = [flow EXCEPT !.in = @ + proceeds]
  BY <1>2, <1>6, <1>7 DEF DelistedAt, gone
<1>9. lots' \in [Tickers -> Seq(Lot)]
  BY <1>1, <1>3, EmptyBook
<1>10. earmark' \in [Sleeves -> Nat] /\ SumFunction(earmark') = SumFunction(earmark) + proceeds
  <2>1. MovesToCash(earmark, gone, proceeds, earmark')
    BY <1>8 DEF MovesToCash
  <2> QED BY <1>3, <1>4, <2>1, MovedToCash
<1>11. /\ flow' \in [before : Nat, in : Nat, out : Nat]
       /\ SumFunction(earmark') = flow'.before + flow'.in - flow'.out
  <2>1. SumFunction(earmark) = flow.before + flow.in - flow.out
    BY <1>1 DEF FlowKept
  <2>2. flow.before \in Nat /\ flow.in \in Nat /\ flow.out \in Nat
    BY <1>3
  <2>3. flow' \in [before : Nat, in : Nat, out : Nat] /\ flow'.before = flow.before /\ flow'.in = flow.in + proceeds /\ flow'.out = flow.out
    BY <1>3, <1>8
  <2> QED BY <1>10, <2>1, <2>2, <2>3
<1>12. month \in 1 .. Horizon
  BY <1>1 DEF LedgerShape, TypeOK, QuoteReal
<1> DEFINE before == YearOf(Max({1, month - 1}))
<1>13. y \in Years /\ before \in Int /\ before =< y
  BY <1>12, EventYearsAre, YearsFinite
<1>14. NetIsTyped /\ DOMAIN net' \subseteq Years /\ \A z \in DOMAIN net' : net'[z] \in Int
  BY <1>8, <1>13, NetStaysTyped
<1>15. TypeOK'
  BY <1>1, <1>9, <1>10, <1>11, <1>14 DEF LedgerShape, TypeOK
<1>16. LedgerShape'
  BY <1>1, <1>9, <1>15 DEF LedgerShape, QuoteReal
<1>17. BilledSoFar'
  <2>1. assessed = {z \in DOMAIN net : z < before} /\ taxPayable + taxesPaid = TaxesOf(net, assessed)
    BY <1>1 DEF BilledSoFar, AssessedBefore
  <2> HIDE DEF before
  <2>2. {z \in DOMAIN net' : z < before} = assessed /\ TaxesOf(net', assessed) = TaxesOf(net, assessed)
    BY <1>8, <1>13, <1>14, <2>1, LateGain
  <2>3. AssessedBefore' = before
    BY <1>1 DEF AssessedBefore, before
  <2> QED BY <1>1, <2>1, <2>2, <2>3 DEF BilledSoFar
<1> QED BY <1>1, <1>11, <1>16, <1>17 DEF FlowKept, PayableReconciles, CashKept, HarvestKept

\* Assessing: the years that ended since the last assessment are billed.
LEMMA AssessKeeps == ASSUME LedgerInv, AssessYears PROVE LedgerInv'
<1> USE DEF LedgerInv
<1> DEFINE A == Assessable
           bill == [y \in Years |-> IF y \in A THEN Tax(net[y]) ELSE 0]
<1>1. /\ phase = "assess" /\ phase' = "pay"
      /\ assessed' = assessed \cup A
      /\ pending' = [y \in Years |-> pending[y] + bill[y]]
      /\ taxPayable' = taxPayable + SumFunction(bill)
      /\ UNCHANGED <<mode, month, quote, listed, events, earmark, cash, lots, net, taxesPaid, flow, weights, harvest>>
  BY DEF AssessYears, taxes, market
<1>2. NetIsTyped /\ pending \in [Years -> Nat] /\ taxPayable \in Nat /\ taxesPaid \in Nat /\ assessed \subseteq Years
  BY DEF LedgerShape, TypeOK, NetIsTyped
<1>3. A \in SUBSET Years /\ assessed \cap A = {} /\ A \subseteq DOMAIN net
  BY <1>2 DEF Assessable, NetIsTyped
<1>4. /\ IsFiniteSet(Years) /\ IsFiniteSet(A) /\ IsFiniteSet(assessed)
  BY <1>2, <1>3, YearsFinite, FS_Subset
<1> DEFINE due == [y \in A |-> Tax(net[y])]
<1>5. /\ \A y \in A : due[y] \in Nat
      /\ \A y \in Years : bill[y] \in Nat /\ bill[y] = IF y \in A THEN due[y] ELSE 0
  BY <1>2, <1>3, TaxIsNat DEF NetIsTyped
<1>6. DOMAIN bill = Years
  OBVIOUS
<1> HIDE DEF A, bill, due
<1>7. PICK total \in Nat : total = SumFunctionOnSet(due, A)
  BY <1>4, <1>5, SumIsNat
<1>8. SumFunction(bill) = total
  <2>1. SumFunctionOnSet(bill, Years) = SumFunctionOnSet(due, A)
    BY <1>3, <1>4, <1>5, SumOfPart
  <2> QED BY <1>6, <1>7, <2>1 DEF SumFunction
<1>9. pending' \in [Years -> Nat]
  BY <1>1, <1>2, <1>5
<1>10. SumFunction(pending') = SumFunction(pending) + total
  <2>1. \A y \in Years : pending[y] \in Int /\ bill[y] \in Int /\ pending'[y] = pending[y] + bill[y]
    BY <1>1, <1>2, <1>5
  <2>2. SumFunctionOnSet(pending', Years) = SumFunctionOnSet(pending, Years) + SumFunctionOnSet(bill, Years)
    BY <1>4, <2>1, SumAdds
  <2>3. DOMAIN pending' = Years /\ DOMAIN pending = Years
    BY <1>2, <1>9
  <2> QED BY <1>6, <1>8, <2>2, <2>3 DEF SumFunction
<1>11. PayableReconciles'
  BY <1>1, <1>2, <1>8, <1>10 DEF PayableReconciles
<1>12. assessed' \subseteq Years /\ taxPayable' \in Nat
  BY <1>1, <1>2, <1>3, <1>7, <1>8
<1>13. TypeOK'
  BY <1>1, <1>9, <1>12 DEF LedgerShape, TypeOK
<1>14. LedgerShape'
  BY <1>1, <1>13 DEF LedgerShape, QuoteReal
<1>15. BilledSoFar'
  <2> DEFINE before == YearOf(Max({1, month - 1}))
  <2>1. assessed = {z \in DOMAIN net : z < before} /\ taxPayable + taxesPaid = TaxesOf(net, assessed)
    BY <1>1 DEF BilledSoFar, AssessedBefore
  <2>2. month \in 1 .. Horizon
    BY <1>1 DEF LedgerShape, TypeOK, QuoteReal
  <2>3. before \in Int /\ before =< YearOf(month) /\ YearOf(month) \in Int /\ DOMAIN net \subseteq Int
    <3>1. month \in Nat
      BY <2>2
    <3>2. before \in Int /\ before =< YearOf(month)
      BY <2>2, EventYearsAre
    <3>3. YearOf(month) \in Int
      BY <3>1, YearIs
    <3>4. DOMAIN net \subseteq Int
      <4>1. DOMAIN net \subseteq Years /\ Years \subseteq Nat
        BY <1>2, YearsFinite DEF NetIsTyped
      <4>2. \A z \in Years : z \in Int
        BY <4>1
      <4> QED BY <4>1, <4>2, Zenon
    <3> HIDE DEF before
    <3> QED BY <3>2, <3>3, <3>4
  <2> HIDE DEF before
  <2>4. assessed' = {z \in DOMAIN net : z < YearOf(month)}
    BY <1>1, <2>1, <2>3 DEF A, Assessable
  <2>5. TaxesOf(net, assessed') = TaxesOf(net, assessed) + total
    <3> DEFINE f == [y \in assessed' |-> Tax(net[y])]
               g == [y \in assessed |-> Tax(net[y])]
    <3>1. /\ \A y \in assessed : f[y] = g[y] /\ g[y] \in Int
          /\ \A y \in A : f[y] = due[y] /\ f[y] \in Int
      BY <1>2, <2>1, TaxIsNat, <1>1, <1>5 DEF due, NetIsTyped
    <3> HIDE DEF f, g
    <3>2. \A y \in assessed \cup A : f[y] \in Int
      BY <3>1
    <3>3. SumFunctionOnSet(f, assessed \cup A) = SumFunctionOnSet(f, assessed) + SumFunctionOnSet(f, A)
      BY <1>3, <1>4, <3>2, SumOfUnion
    <3>4. SumFunctionOnSet(f, assessed) = SumFunctionOnSet(g, assessed) /\ SumFunctionOnSet(f, A) = SumFunctionOnSet(due, A)
      BY <1>4, <3>1, SumOfEqual
    <3>5. TaxesOf(net, assessed') = SumFunctionOnSet(f, assessed') /\ TaxesOf(net, assessed) = SumFunctionOnSet(g, assessed)
      BY DEF TaxesOf, f, g
    <3> QED BY <1>1, <1>7, <3>3, <3>4, <3>5
  <2>6. AssessedBefore' = YearOf(month)
    BY <1>1 DEF AssessedBefore
  <2>7. taxPayable' + taxesPaid' = TaxesOf(net, assessed')
    BY <1>1, <1>2, <1>7, <1>8, <2>1, <2>5
  <2> QED BY <1>1, <2>4, <2>6, <2>7 DEF BilledSoFar
<1> QED BY <1>1, <1>11, <1>14, <1>15 DEF FlowKept, CashKept, HarvestKept

\* The due bills as a book: a payment takes the older ones first.
DueBills == [y \in Years |-> [qty |-> IF y \in Due THEN pending[y] ELSE 0, cost |-> 0]]

\* The bills that are due, as a book of lots: the won still owed are its shares.
LEMMA DueBillsAre ==
  ASSUME pending \in [Years -> Nat]
  PROVE  /\ DueBills \in Seq(AnyLot) /\ Years = 1 .. Len(DueBills)
         /\ Quantity(DueBills) = DueNow /\ DueNow \in Nat
         /\ \A y \in Years : DueBills[y].qty = IF y \in Due THEN pending[y] ELSE 0
<1>1. PICK n \in Nat : Years = 1 .. n
  BY CalendarAssumption, YearsAre DEF Years
<1>2. DueBills \in [1 .. n -> AnyLot] /\ \A y \in Years : DueBills[y].qty = IF y \in Due THEN pending[y] ELSE 0
  BY <1>1 DEF DueBills, AnyLot
<1>3. DueBills \in Seq(AnyLot) /\ Len(DueBills) = n /\ DOMAIN DueBills = 1 .. n
  BY <1>1, <1>2, TableIsBook
<1>4. Quantity(DueBills) = SumFunctionOnSet(QtyOf(DueBills), Years) /\ Quantity(DueBills) \in Nat
  <2>1. Quantity(DueBills) = UpToLot(DueBills, n) /\ Quantity(DueBills) \in Nat
    BY <1>3, QuantityIsUpTo
  <2> QED BY <1>1, <2>1 DEF UpToLot
<1>5. SumFunctionOnSet(QtyOf(DueBills), Years) = SumFunctionOnSet(pending, Due)
  <2>1. \A y \in Years : QtyOf(DueBills)[y] = IF y \in Due THEN pending[y] ELSE 0
    BY <1>1, <1>2, <1>3 DEF QtyOf
  <2>2. Due \in SUBSET Years /\ \A y \in Due : pending[y] \in Int
    BY DEF Due
  <2>3. IsFiniteSet(Years)
    BY YearsFinite
  <2>4. PICK f : f = QtyOf(DueBills)
    OBVIOUS
  <2>5. SumFunctionOnSet(f, Years) = SumFunctionOnSet(pending, Due)
    BY <2>1, <2>2, <2>3, <2>4, SumOfPart
  <2> QED BY <2>4, <2>5
<1> QED BY <1>1, <1>2, <1>3, <1>4, <1>5 DEF DueNow

\* A payment takes from a bill what a disposal would take from a lot.
LEMMA SettledIsTaken ==
  ASSUME pending \in [Years -> Nat], NEW paid \in Nat, NEW y \in Years
  PROVE  Settled(paid, y) = Taken(DueBills, paid, y)
<1>1. /\ DueBills \in Seq(AnyLot) /\ Years = 1 .. Len(DueBills) /\ Len(DueBills) \in Nat
      /\ \A z \in Years : DueBills[z].qty = IF z \in Due THEN pending[z] ELSE 0
  BY DueBillsAre, BookFacts
<1> DEFINE T == {z \in Due : z < y}
           S == 1 .. y - 1
           g == [m \in S |-> DueBills[m].qty]
<1>2. y \in Nat /\ y >= 1 /\ S \subseteq Years /\ IsFiniteSet(S)
  <2>1. y \in Nat /\ y >= 1 /\ S \subseteq Years
    BY <1>1
  <2>2. PICK k \in Nat : k = y - 1
    BY <2>1
  <2> QED BY <2>1, <2>2, Interval
<1>3. T \in SUBSET S /\ \A z \in T : z \in Due /\ z \in Years
  BY <1>1 DEF Due
<1>4. \A z \in S : z < y /\ z \in Years
  BY <1>2
<1>5. \A z \in S : g[z] = IF z \in T THEN pending[z] ELSE 0
  BY <1>1, <1>4
<1>6. \A z \in T : pending[z] \in Int
  BY <1>3
<1> HIDE DEF T, S
<1>7. SumFunctionOnSet(g, S) = SumFunctionOnSet(pending, T)
  <2> HIDE DEF g
  <2> QED BY <1>2, <1>3, <1>5, <1>6, SumOfPart, ZenonT(60)
<1>8. Taken(DueBills, paid, y) = Max({0, Min({DueBills[y].qty, paid - SumFunctionOnSet(pending, T)})})
  BY TakenBySum, <1>7 DEF S
<1>9. SumFunctionOnSet(pending, T) \in Int
  <2>1. IsFiniteSet(T)
    BY <1>2, <1>3, FS_Subset
  <2> QED BY <1>6, <2>1, SumIsInt
<1>10. CASE y \in Due
  BY <1>1, <1>10, <1>8, Zenon DEF Settled, T
<1>11. CASE y \notin Due
  <2>1. DueBills[y].qty = 0
    BY <1>1, <1>11
  <2>2. Settled(paid, y) = 0
    BY <1>11 DEF Settled
  <2>3. PICK r \in Int : r = paid - SumFunctionOnSet(pending, T)
    BY <1>9
  <2>4. Taken(DueBills, paid, y) = Max({0, Min({0, r})})
    BY <1>8, <2>1, <2>3
  <2>5. PICK k \in Int : k = Min({0, r}) /\ k =< 0
    BY MinOfTwo
  <2>6. Max({0, k}) = 0
    <3>1. Max({0, k}) = IF 0 >= k THEN 0 ELSE k
      BY MaxOfTwo
    <3> QED BY <2>5, <3>1
  <2> QED BY <2>2, <2>4, <2>5, <2>6
<1> QED BY <1>10, <1>11

\* A payment takes the due bills, the oldest first, as far as the cash goes.
IsPayment(paid, after) ==
  /\ paid = Min({DueNow, cash + Deposit})
  /\ after = [y \in Years |-> pending[y] - Settled(paid, y)]

\* A payment is a disposal from that book: it takes no more than there is,
\* and leaves cash only when no due bill is left.
LEMMA PaymentIs ==
  ASSUME pending \in [Years -> Nat], cash \in Nat, NEW paid, NEW after, IsPayment(paid, after)
  PROVE  /\ paid \in Nat /\ paid =< cash + Deposit
         /\ after \in [Years -> Nat] /\ SumFunction(after) = SumFunction(pending) - paid
         /\ SumFunction(pending) \in Nat /\ SumFunction(after) \in Nat
         /\ cash + Deposit - paid > 0 => \A y \in Due : after[y] = 0
         /\ \A y \in Years \ Due : after[y] = pending[y]
<1> DEFINE N == Len(DueBills)
           taken == TakenOf(DueBills, paid)
           bills == QtyOf(DueBills)
<1>1. /\ DueBills \in Seq(AnyLot) /\ Years = 1 .. N /\ Quantity(DueBills) = DueNow /\ DueNow \in Nat
      /\ \A y \in Years : DueBills[y].qty = IF y \in Due THEN pending[y] ELSE 0
  BY DueBillsAre
<1>2. N \in Nat /\ DOMAIN DueBills = 1 .. N /\ IsFiniteSet(Years)
  BY <1>1, BookFacts, YearsFinite
<1>3. paid \in Nat /\ paid =< cash + Deposit /\ paid \in 0 .. Quantity(DueBills) /\ (paid = DueNow \/ paid = cash + Deposit)
  <2>1. PICK c \in Nat : c = cash + Deposit
    BY MoneyAssumption
  <2>2. Min({DueNow, c}) = IF DueNow =< c THEN DueNow ELSE c
    BY <1>1, <2>1, MinOfTwo
  <2>3. paid = Min({DueNow, c})
    BY <2>1 DEF IsPayment
  <2> QED BY <1>1, <2>1, <2>2, <2>3
<1>4. \A y \in Years : /\ taken[y] = Settled(paid, y) /\ taken[y] \in Nat /\ taken[y] =< bills[y]
                       /\ bills[y] = IF y \in Due THEN pending[y] ELSE 0
  BY <1>1, <1>2, <1>3, SettledIsTaken, TakenFacts DEF TakenOf, QtyOf
<1>5. SumFunctionOnSet(taken, Years) = paid
  BY <1>1, <1>3, TakenAddsUp
<1>6. SumFunctionOnSet(bills, Years) = DueNow
  <2>1. Quantity(DueBills) = UpToLot(DueBills, N)
    BY <1>1, QuantityIsUpTo
  <2> QED BY <1>1, <2>1 DEF UpToLot
<1> HIDE DEF taken, bills, N
<1>7. \A y \in Years : after[y] = pending[y] - taken[y] /\ after[y] \in Nat /\ pending[y] \in Int /\ taken[y] \in Int
  BY <1>4 DEF IsPayment
<1>8. after \in [Years -> Nat]
  BY <1>7 DEF IsPayment
<1>9. SumFunctionOnSet(after, Years) = SumFunctionOnSet(pending, Years) - paid
  <2>1. SumFunctionOnSet(after, Years) = SumFunctionOnSet(pending, Years) - SumFunctionOnSet(taken, Years)
    <3>1. \A y \in Years : pending[y] \in Int /\ taken[y] \in Int /\ after[y] = pending[y] - taken[y]
      BY <1>7
    <3>2. IsFiniteSet(Years)
      BY <1>2
    <3> QED BY <3>1, <3>2, SumSubtracts
  <2> QED BY <1>5, <2>1
<1>10. /\ SumFunction(after) = SumFunctionOnSet(after, Years) /\ SumFunction(pending) = SumFunctionOnSet(pending, Years)
       /\ SumFunctionOnSet(after, Years) \in Nat /\ SumFunctionOnSet(pending, Years) \in Nat
  <2>1. DOMAIN after = Years /\ DOMAIN pending = Years
    BY <1>8
  <2>2. SumFunctionOnSet(after, Years) \in Nat
    BY <1>2, <1>7, SumIsNat
  <2>3. \A y \in Years : pending[y] \in Nat
    OBVIOUS
  <2>4. SumFunctionOnSet(pending, Years) \in Nat
    BY <1>2, <2>3, SumIsNat
  <2> QED BY <2>1, <2>2, <2>4 DEF SumFunction
<1>11. ASSUME cash + Deposit - paid > 0, NEW y \in Due PROVE after[y] = 0
  <2>1. paid = DueNow
    BY MoneyAssumption, <1>3, <1>11
  <2> DEFINE rest == [z \in Years |-> bills[z] - taken[z]]
  <2>2. \A z \in Years : rest[z] \in Nat /\ bills[z] \in Int /\ taken[z] \in Int /\ rest[z] = bills[z] - taken[z]
    BY <1>4
  <2> HIDE DEF rest
  <2>3. SumFunctionOnSet(rest, Years) = SumFunctionOnSet(bills, Years) - SumFunctionOnSet(taken, Years)
    BY <1>2, <2>2, SumSubtracts
  <2>4. y \in Years
    BY DEF Due
  <2>5. rest[y] =< SumFunctionOnSet(rest, Years)
    BY <1>2, <2>2, <2>4, SumBoundsTerms
  <2>6. SumFunctionOnSet(rest, Years) = 0
    BY <1>1, <1>5, <1>6, <2>1, <2>3
  <2>7. rest[y] = 0 /\ bills[y] = pending[y]
    BY <1>4, <2>2, <2>4, <2>5, <2>6
  <2> QED BY <1>7, <2>2, <2>4, <2>7
<1>12. ASSUME NEW y \in Years \ Due PROVE after[y] = pending[y]
  BY <1>4, <1>7
<1> QED BY <1>3, <1>8, <1>9, <1>10, <1>11, <1>12

\* The deposit and the payment of due taxes keep the ledger sound.
LEMMA PayKeeps == ASSUME LedgerInv, DepositAndPay PROVE LedgerInv'
<1> USE DEF LedgerInv
<1>1. PICK paid : paid = Min({DueNow, cash + Deposit})
  OBVIOUS
<1>2. /\ phase = "pay" /\ phase' = "convert"
      /\ cash' = cash + Deposit - paid /\ taxesPaid' = taxesPaid + paid /\ taxPayable' = taxPayable - paid
      /\ pending' = [y \in Years |-> pending[y] - Settled(paid, y)]
      /\ UNCHANGED <<mode, month, quote, listed, events, earmark, lots, net, assessed, flow, weights, harvest>>
  BY <1>1 DEF DepositAndPay, market
<1>3. /\ pending \in [Years -> Nat] /\ cash \in Nat /\ Deposit \in Nat /\ taxPayable \in Nat /\ taxesPaid \in Nat
      /\ taxPayable = SumFunction(pending)
  BY MoneyAssumption DEF LedgerShape, TypeOK, PayableReconciles
<1>4. /\ paid \in Nat /\ paid =< cash + Deposit
      /\ pending' \in [Years -> Nat] /\ SumFunction(pending') = SumFunction(pending) - paid
      /\ SumFunction(pending') \in Nat
      /\ cash + Deposit - paid > 0 => \A y \in Due : pending'[y] = 0
  <2>1. IsPayment(paid, pending')
    BY <1>1, <1>2 DEF IsPayment
  <2> QED BY <1>3, <2>1, PaymentIs
<1>5. cash' \in Nat /\ taxesPaid' \in Nat /\ taxPayable' \in Nat /\ taxPayable' = SumFunction(pending')
  BY <1>2, <1>3, <1>4
<1>6. TypeOK'
  BY <1>2, <1>4, <1>5 DEF LedgerShape, TypeOK
<1>7. LedgerShape'
  BY <1>2, <1>6 DEF LedgerShape, QuoteReal
<1>8. BilledSoFar'
  BY <1>2, <1>3, <1>4 DEF AssessedBefore, BilledSoFar
<1>9. CashKept'
  <2>1. Due' = Due
    BY <1>2 DEF Due
  <2>2. cash' > 0 => \A y \in Due : pending'[y] = 0
    BY <1>2, <1>4
  <2> QED BY <1>2, <2>1, <2>2 DEF CashKept
<1> QED BY <1>2, <1>5, <1>7, <1>8, <1>9 DEF FlowKept, PayableReconciles, HarvestKept

\* There is always a sleeve a session may buy.
LEMMA EligibleIs ==
  ASSUME NEW w \in [Sleeves -> Nat]
  PROVE  EligibleWeights(w) \in [Sleeves -> Nat] /\ SumFunctionOnSet(EligibleWeights(w), Sleeves) # 0
<1> DEFINE kept == [s \in Sleeves |-> IF s = Cash \/ s \in listed THEN w[s] ELSE 0]
           one == [NoWeights EXCEPT ![Cash] = 1]
           e == EligibleWeights(w)
<1>1. kept \in [Sleeves -> Nat] /\ one \in [Sleeves -> Nat] /\ one[Cash] = 1
  BY SleevesFinite DEF NoWeights
<1>2. e = IF \A s \in Sleeves : kept[s] = 0 THEN one ELSE kept
  BY DEF EligibleWeights
<1> HIDE DEF kept, one, e
<1>3. e \in [Sleeves -> Nat] /\ \E s \in Sleeves : e[s] > 0
  BY <1>1, <1>2, SleevesFinite
<1>4. PICK s \in Sleeves : e[s] > 0
  BY <1>3
<1>5. \A u \in Sleeves : e[u] \in Nat
  BY <1>3
<1>6. e[s] =< SumFunctionOnSet(e, Sleeves) /\ SumFunctionOnSet(e, Sleeves) \in Nat
  BY <1>4, <1>5, SleevesFinite, SumBoundsTerms, SumIsNat
<1> QED BY <1>3, <1>4, <1>5, <1>6 DEF e

\* Parts added to the earmarks add their sum.
LEMMA EarmarkGains ==
  ASSUME NEW e \in [Sleeves -> Nat], NEW part \in [Sleeves -> Nat], NEW amount,
         SumFunctionOnSet(part, Sleeves) = amount, NEW after, after = [s \in Sleeves |-> e[s] + part[s]]
  PROVE  after \in [Sleeves -> Nat] /\ SumFunction(after) = SumFunction(e) + amount
<1>1. after \in [Sleeves -> Nat]
  OBVIOUS
<1>2. \A s \in Sleeves : e[s] \in Int /\ part[s] \in Int /\ after[s] = e[s] + part[s]
  OBVIOUS
<1>3. SumFunctionOnSet(after, Sleeves) = SumFunctionOnSet(e, Sleeves) + SumFunctionOnSet(part, Sleeves)
  BY <1>2, SleevesFinite, SumAdds
<1> QED BY <1>1, <1>3, EarmarkSum

\* Converting the cash that is left keeps the ledger sound.
LEMMA ConvertKeeps == ASSUME LedgerInv, Convert PROVE LedgerInv'
<1> USE DEF LedgerInv
<1>0. PICK usd : usd = cash \div quote.fx
  OBVIOUS
<1>1. /\ phase = "convert" /\ phase' = "rebalance" /\ cash' = 0
      /\ flow' = [flow EXCEPT !.in = @ + usd]
      /\ UNCHANGED <<mode, month, quote, listed, events, lots, net, assessed, pending, taxPayable, taxesPaid, harvest>>
  BY <1>0 DEF Convert, market, taxes
<1>2. PICK w \in Targets : weights' = EligibleWeights(w) /\
         \E part \in Splits(usd, EligibleWeights(w)) : earmark' = [s \in Sleeves |-> earmark[s] + part[s]]
  BY <1>0 DEF Convert
<1>3. PICK part \in Splits(usd, weights') : earmark' = [s \in Sleeves |-> earmark[s] + part[s]]
  BY <1>2
<1>4. cash \in Nat /\ quote.fx \in Nat \ {0} /\ earmark \in [Sleeves -> Nat] /\ flow \in [before : Nat, in : Nat, out : Nat]
  BY <1>1 DEF LedgerShape, TypeOK, QuoteReal
<1>5. usd \in Nat
  BY <1>0, <1>4, Quotient
<1>6. weights' \in [Sleeves -> Nat] /\ SumFunctionOnSet(weights', Sleeves) # 0
  <2>1. w \in [Sleeves -> Nat]
    BY SleeveAssumption DEF Sleeves
  <2> QED BY <1>2, <2>1, EligibleIs
<1>7. part \in [Sleeves -> Nat] /\ SumFunctionOnSet(part, Sleeves) = usd
  BY <1>3, <1>5, <1>6, SleevesFinite, SplitsAddUp
<1>8. earmark' \in [Sleeves -> Nat] /\ SumFunction(earmark') = SumFunction(earmark) + usd
  BY <1>3, <1>4, <1>7, EarmarkGains
<1>9. /\ flow' \in [before : Nat, in : Nat, out : Nat]
      /\ SumFunction(earmark') = flow'.before + flow'.in - flow'.out
  BY <1>1, <1>4, <1>5, <1>8 DEF FlowKept
<1>10. TypeOK'
  BY <1>1, <1>6, <1>8, <1>9 DEF LedgerShape, TypeOK
<1>11. SumFunction(weights') # 0
  <2>1. DOMAIN weights' = Sleeves
    BY <1>6
  <2> QED BY <1>6, <2>1 DEF SumFunction
<1>12. LedgerShape'
  BY <1>1, <1>10, <1>11 DEF LedgerShape, QuoteReal
<1>13. BilledSoFar'
  BY <1>1 DEF BilledSoFar, AssessedBefore
<1> QED BY <1>1, <1>9, <1>12, <1>13 DEF FlowKept, PayableReconciles, CashKept, HarvestKept

-----------------------------------------------------------------------------
(* Trading *)

\* Every holding at the session's price.
Marks == [t \in Tickers |-> Quantity(lots[t]) * quote.price[t]]
TradedOf == [t \in Tickers |-> Quantity(lots[t]) + Quantity(lots'[t])]

\* Wealth and shares traded, summed over tables.
LEMMA WealthIs ==
  /\ Wealth = SumFunction(earmark) + SumFunctionOnSet(Marks, Tickers)
  /\ Wealth' = SumFunction(earmark') + SumFunctionOnSet(Marks', Tickers)
  /\ TradedAtMost = SumFunctionOnSet(TradedOf, Tickers)
<1>1. DOMAIN Marks = Tickers /\ DOMAIN Marks' = Tickers /\ DOMAIN TradedOf = Tickers
  BY DEF Marks, TradedOf
<1>2. Wealth = SumFunction(earmark) + SumFunction(Marks) /\ Wealth' = SumFunction(earmark') + SumFunction(Marks')
  BY DEF Wealth, Marks
<1>3. TradedAtMost = SumFunction(TradedOf)
  BY DEF TradedAtMost, TradedOf
<1> QED BY <1>1, <1>2, <1>3 DEF SumFunction

Booked(book) == book \in [Tickers -> Seq(Lot)]
\* What a trade at the session's price does to one ticker: dollars[t] leave the
\* earmarks for the shares gained and for the commission on those traded.
TradeAt(dollars, traded) ==
  \A t \in Tickers :
    /\ traded[t] \in Nat /\ traded[t] =< Quantity(lots[t]) + Quantity(lots'[t])
    /\ dollars[t] = Marks'[t] - Marks[t] + Commission * traded[t]

\* Where the dollars that moved are those of shares bought and sold at the day's net
\* prices, wealth falls by at most the commission of the shares traded.
LEMMA WealthLost ==
  ASSUME Booked(lots), Booked(lots'), quote' = quote, quote.price \in [Tickers -> Nat],
         earmark \in [Sleeves -> Nat], earmark' \in [Sleeves -> Nat],
         NEW dollars, NEW traded, TradeAt(dollars, traded),
         SumFunction(earmark') = SumFunction(earmark) - SumFunctionOnSet(dollars, Tickers)
  PROVE  (Wealth - Wealth') \in 0 .. (Commission * TradedAtMost)
<1>1. /\ IsFiniteSet(Tickers) /\ Commission \in Nat
      /\ SumFunction(earmark) \in Nat /\ SumFunction(earmark') \in Nat
  BY SleevesFinite, MoneyAssumption, EarmarkSum
<1>2. ASSUME NEW t \in Tickers
      PROVE  /\ Marks[t] \in Nat /\ Marks'[t] \in Nat
             /\ TradedOf[t] \in Nat /\ traded[t] \in Nat /\ traded[t] =< TradedOf[t]
             /\ Commission * traded[t] \in Nat
             /\ dollars[t] = Marks'[t] - Marks[t] + Commission * traded[t]
  <2>1. lots[t] \in Seq(Lot) /\ lots'[t] \in Seq(Lot) /\ quote.price[t] \in Nat /\ quote'.price[t] \in Nat
    BY DEF Booked
  <2>2. Quantity(lots[t]) \in Nat /\ Quantity(lots'[t]) \in Nat
    BY <2>1, LotIsAny, QuantityIsUpTo
  <2>3. Marks[t] = Quantity(lots[t]) * quote.price[t] /\ Marks'[t] = Quantity(lots'[t]) * quote'.price[t]
    BY DEF Marks
  <2>4. Marks[t] \in Nat /\ Marks'[t] \in Nat
    BY <2>1, <2>2, <2>3, ProductIsNat
  <2>5. TradedOf[t] = Quantity(lots[t]) + Quantity(lots'[t])
    BY DEF TradedOf
  <2>6. traded[t] \in Nat /\ traded[t] =< Quantity(lots[t]) + Quantity(lots'[t])
        /\ dollars[t] = Marks'[t] - Marks[t] + Commission * traded[t]
    BY DEF TradeAt
  <2>7. Commission * traded[t] \in Nat
    BY <1>1, <2>6, ProductIsNat
  <2> QED BY <2>2, <2>4, <2>5, <2>6, <2>7
<1> DEFINE fee == [t \in Tickers |-> Commission * traded[t]]
           gained == [t \in Tickers |-> Marks'[t] - Marks[t]]
<1>3. \A t \in Tickers : /\ fee[t] = Commission * traded[t] /\ fee[t] \in Int /\ traded[t] \in Int
                         /\ gained[t] = Marks'[t] - Marks[t] /\ gained[t] \in Int
                         /\ Marks[t] \in Int /\ Marks'[t] \in Int
                         /\ dollars[t] = gained[t] + fee[t]
  BY <1>2
<1> HIDE DEF fee, gained
<1>4. PICK after : after = Marks'
  OBVIOUS
<1>5. SumFunctionOnSet(gained, Tickers) = SumFunctionOnSet(after, Tickers) - SumFunctionOnSet(Marks, Tickers)
  <2>1. \A t \in Tickers : after[t] \in Int /\ Marks[t] \in Int /\ gained[t] = after[t] - Marks[t]
    BY <1>3, <1>4
  <2> QED BY <1>1, <2>1, SumSubtracts
<1>6. SumFunctionOnSet(dollars, Tickers) = SumFunctionOnSet(gained, Tickers) + SumFunctionOnSet(fee, Tickers)
  BY <1>1, <1>3, SumAdds
<1>7. SumFunctionOnSet(fee, Tickers) = Commission * SumFunctionOnSet(traded, Tickers)
  <2>1. \A t \in Tickers : traded[t] \in Int /\ fee[t] = Commission * traded[t]
    BY <1>3
  <2> QED BY <1>1, <2>1, SumScaled
<1>8. PICK n, m \in Nat : n = SumFunctionOnSet(traded, Tickers) /\ m = SumFunctionOnSet(TradedOf, Tickers) /\ n =< m
  <2>1. SumFunctionOnSet(traded, Tickers) \in Nat /\ SumFunctionOnSet(TradedOf, Tickers) \in Nat
    <3>1. \A t \in Tickers : traded[t] \in Nat
      BY <1>2
    <3>2. \A t \in Tickers : TradedOf[t] \in Nat
      BY <1>2
    <3> QED BY <1>1, <3>1, <3>2, SumIsNat
  <2>2. SumFunctionOnSet(traded, Tickers) =< SumFunctionOnSet(TradedOf, Tickers)
    <3>1. \A t \in Tickers : traded[t] \in Int /\ TradedOf[t] \in Int /\ traded[t] =< TradedOf[t]
      BY <1>2
    <3> QED BY <1>1, <3>1, SumIsMonotone
  <2> QED BY <2>1, <2>2
<1>9. SumFunctionOnSet(Marks, Tickers) \in Int /\ SumFunctionOnSet(after, Tickers) \in Int
  <2>1. \A t \in Tickers : Marks[t] \in Int
    BY <1>3
  <2>2. \A t \in Tickers : after[t] \in Int
    BY <1>3, <1>4
  <2> QED BY <1>1, <2>1, <2>2, SumIsInt
<1>10. Commission * n \in Nat /\ Commission * m \in Nat /\ Commission * n =< Commission * m
  BY <1>1, <1>8, ProductIsNat, ProductIsMonotone
<1>11. Wealth - Wealth' = Commission * n
  BY WealthIs, <1>4, <1>9, <1>10, <1>5, <1>6, <1>7, <1>8, <1>1
<1>12. TradedAtMost = m
  BY <1>8, WealthIs
<1> QED BY <1>10, <1>11, <1>12

\* A session's prices exceed the commission.
LEMMA PricesAre ==
  ASSUME LedgerShape, phase # "idle", NEW t \in Tickers
  PROVE  /\ quote.price[t] \in Nat \ {0} /\ Commission \in Nat
         /\ Cost(t) \in Nat \ {0} /\ Cost(t) = quote.price[t] + Commission
         /\ NetPrice(t) \in Nat \ {0} /\ NetPrice(t) = quote.price[t] - Commission
         /\ quote.fx \in Nat \ {0} /\ quote.settleFx \in Nat \ {0}
         /\ quote.price \in [Tickers -> Nat]
<1>1. quote \in [price : [Tickers -> Nat], fx : Nat, settleFx : Nat, settleYear : Nat] /\ QuoteReal
  BY DEF LedgerShape
<1>2. quote.price[t] \in Nat /\ quote.price[t] > Commission /\ quote.fx \in Nat \ {0} /\ quote.settleFx \in Nat \ {0}
  BY <1>1 DEF QuoteReal
<1>3. Commission \in Nat
  BY MoneyAssumption
<1>4. Cost(t) = quote.price[t] + Commission /\ NetPrice(t) = quote.price[t] - Commission
  BY DEF Cost, NetPrice
<1> QED BY <1>1, <1>2, <1>3, <1>4

\* Dollars spent on the tickers leave the earmarks.
LEMMA EarmarkSpent ==
  ASSUME NEW e \in [Sleeves -> Nat], NEW d, \A t \in Tickers : d[t] \in Int,
         NEW after, after \in [Sleeves -> Nat], after[Cash] = e[Cash],
         \A t \in Tickers : after[t] = e[t] - d[t]
  PROVE  SumFunction(after) = SumFunction(e) - SumFunctionOnSet(d, Tickers)
<1>1. Sleeves = Tickers \cup {Cash} /\ IsFiniteSet(Tickers) /\ Cash \notin Tickers
  BY SleevesFinite DEF Sleeves
<1>2. /\ \A s \in Tickers \cup {Cash} : e[s] \in Int
      /\ \A s \in Tickers \cup {Cash} : after[s] \in Int
  BY <1>1
<1>3. SumFunctionOnSet(e, Tickers \cup {Cash}) = SumFunctionOnSet(e, Tickers) + e[Cash]
  BY <1>1, <1>2, SumOfMore
<1>4. SumFunctionOnSet(after, Tickers \cup {Cash}) = SumFunctionOnSet(after, Tickers) + after[Cash]
  BY <1>1, <1>2, SumOfMore
<1>5. SumFunctionOnSet(after, Tickers) = SumFunctionOnSet(e, Tickers) - SumFunctionOnSet(d, Tickers)
  <2>1. \A t \in Tickers : e[t] \in Int /\ d[t] \in Int /\ after[t] = e[t] - d[t]
    BY <1>2
  <2> QED BY <1>1, <2>1, SumSubtracts
<1>6. SumFunctionOnSet(e, Tickers) \in Int /\ SumFunctionOnSet(d, Tickers) \in Int /\ e[Cash] \in Int
  <2>1. \A t \in Tickers : e[t] \in Int
    BY <1>2
  <2> QED BY <1>1, <1>2, <2>1, SumIsInt
<1>7. SumFunction(e) = SumFunctionOnSet(e, Tickers \cup {Cash}) /\ SumFunction(after) = SumFunctionOnSet(after, Tickers \cup {Cash})
  BY <1>1, EarmarkSum
<1> QED BY <1>3, <1>4, <1>5, <1>6, <1>7

Shares == [t \in Tickers |-> IF earmark[t] > 0 THEN earmark[t] \div Cost(t) ELSE 0]
Spent == [t \in Tickers |-> Shares[t] * Cost(t)]

\* What filling the orders changes.
LEMMA FillIs ==
  ASSUME Fill
  PROVE  /\ phase = "fill" /\ phase' = "verify"
         /\ lots' = [t \in Tickers |-> Buy(lots[t], Shares[t], Cost(t) * quote.settleFx)]
         /\ earmark' = [s \in Sleeves |-> IF s = Cash THEN earmark[s] ELSE earmark[s] - Shares[s] * Cost(s)]
         /\ flow' = [flow EXCEPT !.out = @ + SumFunctionOnSet(Spent, Tickers)]
         /\ UNCHANGED <<mode, month, quote, listed, events, cash, net, assessed, pending, taxPayable, taxesPaid, weights, harvest>>
<1>1. /\ phase = "fill" /\ phase' = "verify"
      /\ lots' = [t \in Tickers |-> Buy(lots[t], Shares[t], Cost(t) * quote.settleFx)]
      /\ earmark' = [s \in Sleeves |-> IF s = Cash THEN earmark[s] ELSE earmark[s] - Shares[s] * Cost(s)]
      /\ UNCHANGED <<mode, month, quote, listed, events, cash, net, assessed, pending, taxPayable, taxesPaid, weights, harvest>>
  BY DEF Fill, Shares, market, taxes
<1> DEFINE f(t) == Shares[t] * Cost(t)
<1>2. flow' = [flow EXCEPT !.out = @ + MapThenSumSet(f, Tickers)]
  BY Zenon DEF Fill, Shares
<1>3. MapThenSumSet(f, Tickers) = SumFunctionOnSet([t \in Tickers |-> f(t)], Tickers)
  <2> HIDE DEF f
  <2> QED BY DEF SumFunctionOnSet, MapThenSumSet, FoldFunctionOnSet, MapThenFoldSet
<1>4. MapThenSumSet(f, Tickers) = SumFunctionOnSet(Spent, Tickers)
  BY <1>3 DEF Spent
<1> HIDE DEF f
<1> QED BY <1>1, <1>2, <1>4

\* Filling the orders keeps the ledger sound and costs at most the commission.
LEMMA FillKeeps ==
  ASSUME LedgerInv, Fill
  PROVE  LedgerInv' /\ (Wealth - Wealth') \in 0 .. (Commission * TradedAtMost)
<1> USE DEF LedgerInv
<1>1. /\ phase = "fill" /\ phase' = "verify"
      /\ lots' = [t \in Tickers |-> Buy(lots[t], Shares[t], Cost(t) * quote.settleFx)]
      /\ earmark' = [s \in Sleeves |-> IF s = Cash THEN earmark[s] ELSE earmark[s] - Shares[s] * Cost(s)]
      /\ flow' = [flow EXCEPT !.out = @ + SumFunctionOnSet(Spent, Tickers)]
      /\ UNCHANGED <<mode, month, quote, listed, events, cash, net, assessed, pending, taxPayable, taxesPaid, weights, harvest>>
  BY FillIs
<1>2. /\ earmark \in [Sleeves -> Nat] /\ flow \in [before : Nat, in : Nat, out : Nat] /\ lots \in [Tickers -> Seq(Lot)]
      /\ Tickers \subseteq Sleeves /\ Cash \notin Tickers /\ Cash \in Sleeves /\ Sleeves = Tickers \cup {Cash}
      /\ IsFiniteSet(Tickers)
  BY SleevesFinite DEF LedgerShape, TypeOK, Sleeves
<1>3. ASSUME NEW t \in Tickers
      PROVE  /\ Shares[t] \in Nat /\ Spent[t] \in Nat /\ Spent[t] = Shares[t] * Cost(t)
             /\ earmark'[t] = earmark[t] - Spent[t] /\ earmark'[t] \in Nat
             /\ lots'[t] \in Seq(Lot) /\ lots[t] \in Seq(Lot)
             /\ Quantity(lots'[t]) = Quantity(lots[t]) + Shares[t]
  <2>1. Cost(t) \in Nat \ {0} /\ quote.settleFx \in Nat
    BY <1>1, PricesAre
  <2>2. earmark[t] \in Nat /\ lots[t] \in Seq(Lot)
    BY <1>2
  <2>3. PICK n \in Nat : n = earmark[t] \div Cost(t) /\ Cost(t) * n =< earmark[t]
    <3>1. PICK e \in Nat : e = earmark[t]
      BY <2>2
    <3>2. e \in Int /\ Cost(t) \in Nat \ {0}
      BY <2>1
    <3>3. PICK k : k = e \div Cost(t)
      OBVIOUS
    <3>4. k \in Nat /\ Cost(t) * k =< e
      BY <3>1, <3>2, <3>3, Quotient
    <3> QED BY <3>1, <3>3, <3>4
  <2>4. Shares[t] = IF earmark[t] > 0 THEN n ELSE 0
    BY <2>3 DEF Shares
  <2>5. PICK k \in Nat : k = Shares[t] * Cost(t) /\ k =< earmark[t]
    <3>1. CASE earmark[t] > 0
      BY <2>1, <2>3, <2>4, <3>1
    <3>2. CASE earmark[t] = 0
      <4>1. 0 * Cost(t) = 0
        BY <2>1
      <4> QED BY <2>4, <3>2, <4>1
    <3> QED BY <2>2, <3>1, <3>2
  <2>6. Shares[t] \in Nat
    BY <2>3, <2>4
  <2>7. Spent[t] = k
    BY <2>5 DEF Spent
  <2>8. earmark'[t] = earmark[t] - k
    BY <1>1, <1>2, <2>5
  <2>9. lots'[t] = Buy(lots[t], Shares[t], Cost(t) * quote.settleFx)
    BY <1>1
  <2>10. PICK c \in Nat : c = Cost(t) * quote.settleFx
    BY <2>1, ProductIsNat
  <2>11. lots'[t] \in Seq(Lot) /\ Quantity(lots'[t]) = Quantity(lots[t]) + Shares[t]
    <3>1. PICK n2 \in Nat : n2 = Shares[t]
      BY <2>6
    <3>2. lots'[t] = Buy(lots[t], n2, c)
      BY <2>9, <2>10, <3>1
    <3>3. Buy(lots[t], n2, c) \in Seq(Lot) /\ Quantity(Buy(lots[t], n2, c)) = Quantity(lots[t]) + n2
      BY <2>2, BuyIs
    <3> QED BY <3>1, <3>2, <3>3
  <2> QED BY <2>2, <2>5, <2>6, <2>7, <2>8, <2>11
<1>4. lots' \in [Tickers -> Seq(Lot)]
  BY <1>1, <1>3
<1>5. earmark'[Cash] = earmark[Cash] /\ earmark' \in [Sleeves -> Nat]
  BY <1>1, <1>2, <1>3
<1>6. SumFunction(earmark') = SumFunction(earmark) - SumFunctionOnSet(Spent, Tickers)
  <2>1. \A t \in Tickers : Spent[t] \in Int
    BY <1>3
  <2>2. \A t \in Tickers : earmark'[t] = earmark[t] - Spent[t]
    BY <1>3
  <2>3. PICK d : d = Spent
    OBVIOUS
  <2>4. PICK after : after = earmark'
    OBVIOUS
  <2>5. SumFunction(after) = SumFunction(earmark) - SumFunctionOnSet(d, Tickers)
    BY <1>2, <1>5, <2>1, <2>2, <2>3, <2>4, EarmarkSpent
  <2> QED BY <2>3, <2>4, <2>5
<1>7. PICK spent \in Nat : spent = SumFunctionOnSet(Spent, Tickers)
  <2>1. \A t \in Tickers : Spent[t] \in Nat
    BY <1>3
  <2> QED BY <1>2, <2>1, SumIsNat
<1>8. /\ flow' \in [before : Nat, in : Nat, out : Nat]
      /\ SumFunction(earmark') = flow'.before + flow'.in - flow'.out
  <2>1. SumFunction(earmark) = flow.before + flow.in - flow.out
    BY <1>1 DEF FlowKept
  <2>2. flow.before \in Nat /\ flow.in \in Nat /\ flow.out \in Nat
    BY <1>2
  <2>3. flow' \in [before : Nat, in : Nat, out : Nat] /\ flow'.before = flow.before /\ flow'.in = flow.in /\ flow'.out = flow.out + spent
    <3>1. flow' = [flow EXCEPT !.out = @ + spent]
      BY <1>1, <1>7
    <3>2. flow.out + spent \in Nat
      BY <2>2
    <3> QED BY <1>2, <3>1, <3>2
  <2> QED BY <1>6, <1>7, <2>1, <2>2, <2>3
<1>9. (Wealth - Wealth') \in 0 .. (Commission * TradedAtMost)
  <2>1. TradeAt(Spent, Shares)
    <3> SUFFICES ASSUME NEW t \in Tickers
                 PROVE  /\ Shares[t] \in Nat /\ Shares[t] =< Quantity(lots[t]) + Quantity(lots'[t])
                        /\ Spent[t] = Marks'[t] - Marks[t] + Commission * Shares[t]
      BY DEF TradeAt
    <3>1. Quantity(lots[t]) \in Nat
      BY <1>3, LotIsAny, QuantityIsUpTo
    <3>2. Marks[t] = Quantity(lots[t]) * quote.price[t] /\ Marks'[t] = Quantity(lots'[t]) * quote.price[t]
      BY <1>1 DEF Marks
    <3>3. quote.price[t] \in Nat /\ Commission \in Nat /\ Cost(t) = quote.price[t] + Commission
      BY <1>1, PricesAre
    <3>4. PICK q, n, p \in Nat : q = Quantity(lots[t]) /\ n = Shares[t] /\ p = quote.price[t]
      BY <1>3, <3>1, <3>3
    <3>5. ASSUME NEW a \in Nat, NEW b \in Nat, NEW v \in Nat, NEW c \in Nat
          PROVE  b * (v + c) = (a + b) * v - a * v + c * b
      OBVIOUS
    <3>6. n * (p + Commission) = (q + n) * p - q * p + Commission * n
      BY <3>3, <3>5
    <3>7. Spent[t] = n * (p + Commission) /\ Marks[t] = q * p /\ Marks'[t] = (q + n) * p
      BY <1>3, <3>2, <3>3, <3>4
    <3> QED BY <1>3, <3>1, <3>4, <3>6, <3>7
  <2>2. Booked(lots) /\ Booked(lots')
    BY <1>2, <1>4 DEF Booked
  <2>3. quote' = quote /\ quote.price \in [Tickers -> Nat]
    BY <1>1 DEF LedgerShape
  <2> QED BY <1>2, <1>5, <1>6, <2>1, <2>2, <2>3, WealthLost
<1>10. TypeOK'
  BY <1>1, <1>4, <1>5, <1>8 DEF LedgerShape, TypeOK
<1>11. LedgerShape'
  BY <1>1, <1>4, <1>10 DEF LedgerShape, QuoteReal
<1>12. BilledSoFar'
  BY <1>1 DEF BilledSoFar, AssessedBefore
<1> QED BY <1>1, <1>8, <1>9, <1>11, <1>12 DEF FlowKept, PayableReconciles, CashKept, HarvestKept

\* A disposal of nothing has no basis.
LEMMA DisposedOfNone == ASSUME NEW book \in Seq(AnyLot) PROVE DisposedBasis(book, 0) = 0
<1>0. PICK none \in Nat : none = 0
  OBVIOUS
<1>1. DisposedBasis(book, none) = SumFunctionOnSet(BasisOf(book, none), 1 .. Len(book))
  BY DisposedIs
<1>2. IsFiniteSet(1 .. Len(book)) /\ Len(book) \in Nat
  BY BookFacts
<1>3. ASSUME NEW n \in 1 .. Len(book) PROVE BasisOf(book, none)[n] = 0
  <2>1. Taken(book, none, n) = 0
    BY TakenFrom, <1>0
  <2>2. book[n].cost \in Nat
    BY BookFacts
  <2>3. 0 * book[n].cost = 0
    BY <2>2
  <2> QED BY <2>1, <2>3 DEF BasisOf
<1>4. SumFunctionOnSet(BasisOf(book, none), 1 .. Len(book)) = 0
  BY <1>2, <1>3, SumOfZeros
<1> QED BY <1>0, <1>1, <1>4

\* What a harvest sells it has, and at the session's rate the gain fits.
LEMMA HarvestFits ==
  ASSUME NEW book \in Seq(Lot), NEW p \in Int, NEW rest \in Nat, NEW h, h = HarvestableQuantity(book, p, rest)
  PROVE  h \in Nat /\ h \in 0 .. Quantity(book) /\ h * p - DisposedBasis(book, h) =< rest
<1>0. book \in Seq(AnyLot) /\ Len(book) \in Nat /\ Quantity(book) = UpToLot(book, Len(book)) /\ Quantity(book) \in Nat
  BY LotIsAny, BookFacts, QuantityIsUpTo
<1>1. PICK K \in 0 .. Len(book) : /\ \A m \in 1 .. K : book[m].cost < p
                                  /\ K < Len(book) => ~ (book[K + 1].cost < p)
  BY <1>0, LeadIs
<1>2. IsLargest(book, p, rest, UpToLot(book, K), HarvestableQuantity(book, p, rest))
  BY <1>0, <1>1, WalkIsLargest
<1>3. h \in 0 .. UpToLot(book, K) /\ h * p - DisposedBasis(book, h) =< rest
  BY <1>2 DEF IsLargest, GainOf
<1>4. UpToLot(book, K) =< Quantity(book) /\ UpToLot(book, K) \in Nat
  <2>1. UpToLot(book, K) =< UpToLot(book, Len(book))
    BY <1>0, UpToLotGrows
  <2> QED BY <1>0, <2>1, UpToLotFacts
<1> QED BY <1>0, <1>3, <1>4

\* One harvested sleeve: the shares sold, the shares bought back and the gain.
IsHarvest(t, sold, rebuy, gain) ==
  /\ sold = HarvestLots(t)
  /\ rebuy = Min({(sold * NetPrice(t)) \div Cost(t), sold})
  /\ gain = sold * NetPrice(t) * quote.settleFx - DisposedBasis(lots[t], sold)

\* A harvest sells no more than the book, rebuys no more than it sold for, and
\* stays in the budget while the dollar settles no dearer than it traded.
LEMMA HarvestFacts ==
  ASSUME LedgerShape, HarvestKept, phase = "harvesting", NEW t \in harvest.todo,
         NEW sold, NEW rebuy, NEW gain, IsHarvest(t, sold, rebuy, gain)
  PROVE  /\ sold \in 0 .. Quantity(lots[t]) /\ sold \in Nat /\ rebuy \in 0 .. sold /\ gain \in Int
         /\ rebuy * Cost(t) =< sold * NetPrice(t)
         /\ sold = 0 => gain = 0
         /\ quote.settleFx =< quote.fx => harvest.realized + gain =< harvest.budget
<1>1. /\ t \in Tickers /\ lots[t] \in Seq(Lot) /\ lots[t] \in Seq(AnyLot)
      /\ harvest.budget \in Int /\ harvest.realized \in Int /\ harvest.realized < harvest.budget
  <2>1. t \in Tickers /\ lots[t] \in Seq(Lot) /\ harvest.budget \in Int /\ harvest.realized \in Int
    BY DEF LedgerShape
  <2> QED BY <2>1, LotIsAny DEF HarvestKept
<1>2. PICK rest \in Nat : rest = harvest.budget - harvest.realized
  BY <1>1
<1>3. /\ Cost(t) \in Nat \ {0} /\ NetPrice(t) \in Nat \ {0} /\ NetPrice(t) =< Cost(t)
      /\ quote.fx \in Nat /\ quote.settleFx \in Nat
  <2>1. phase # "idle"
    OBVIOUS
  <2>2. /\ quote.price[t] \in Nat \ {0} /\ Commission \in Nat
        /\ Cost(t) \in Nat \ {0} /\ Cost(t) = quote.price[t] + Commission
        /\ NetPrice(t) \in Nat \ {0} /\ NetPrice(t) = quote.price[t] - Commission
        /\ quote.fx \in Nat \ {0} /\ quote.settleFx \in Nat \ {0}
    BY <1>1, <2>1, PricesAre
  <2>3. NetPrice(t) =< Cost(t)
    BY <2>2
  <2> QED BY <2>2, <2>3
<1>4. PICK p \in Nat : p = NetPrice(t) * quote.fx
  BY <1>3, ProductIsNat
<1>5. sold = HarvestableQuantity(lots[t], p, rest)
  BY <1>2, <1>4 DEF IsHarvest, HarvestLots
<1>6. sold \in Nat /\ sold \in 0 .. Quantity(lots[t]) /\ sold * p - DisposedBasis(lots[t], sold) =< rest
  <2>1. p \in Int
    OBVIOUS
  <2> QED BY <1>1, <1>5, <2>1, HarvestFits
<1>7. DisposedBasis(lots[t], sold) \in Nat /\ (sold = 0 => DisposedBasis(lots[t], sold) = 0)
  <2>1. DisposedBasis(lots[t], sold) \in Nat
    BY <1>1, <1>6, DisposedIs
  <2>2. DisposedBasis(lots[t], 0) = 0
    BY <1>1, DisposedOfNone
  <2> QED BY <2>1, <2>2
<1>8. PICK proceeds \in Nat : proceeds = sold * NetPrice(t) /\ (sold = 0 => proceeds = 0)
  <2>1. sold * NetPrice(t) \in Nat
    BY <1>3, <1>6, ProductIsNat
  <2>2. 0 * NetPrice(t) = 0
    BY <1>3
  <2> QED BY <2>1, <2>2
<1>9. PICK fit \in Nat : fit = proceeds \div Cost(t) /\ Cost(t) * fit =< proceeds
  <2>1. PICK k : k = proceeds \div Cost(t)
    OBVIOUS
  <2>2. proceeds \in Int
    OBVIOUS
  <2>3. k \in Nat /\ Cost(t) * k =< proceeds
    BY <1>3, <2>1, <2>2, Quotient
  <2> QED BY <2>1, <2>3
<1>10. rebuy \in 0 .. sold /\ rebuy =< fit
  <2>1. rebuy = Min({fit, sold})
    BY <1>8, <1>9 DEF IsHarvest
  <2>2. Min({fit, sold}) = IF fit =< sold THEN fit ELSE sold
    BY <1>6, MinOfTwo
  <2> QED BY <1>6, <2>1, <2>2
<1>11. rebuy * Cost(t) =< sold * NetPrice(t)
  <2>1. PICK r \in Nat : r = rebuy /\ r =< fit
    BY <1>6, <1>10
  <2>2. PICK c \in Nat : c = Cost(t)
    BY <1>3
  <2>3. r * c =< c * fit
    <3>1. c * r =< c * fit /\ c * r = r * c
      BY <2>1, ProductIsMonotone
    <3> QED BY <3>1
  <2>4. r * c \in Nat /\ c * fit \in Nat /\ c * fit =< proceeds
    BY <1>9, <2>2, ProductIsNat
  <2> QED BY <1>8, <2>1, <2>2, <2>3, <2>4
<1>12. PICK booked \in Nat : booked = proceeds * quote.settleFx /\ (proceeds = 0 => booked = 0)
  <2>1. proceeds * quote.settleFx \in Nat
    BY <1>3, ProductIsNat
  <2>2. 0 * quote.settleFx = 0
    BY <1>3
  <2> QED BY <2>1, <2>2
<1>13. gain = booked - DisposedBasis(lots[t], sold)
  BY <1>8, <1>12 DEF IsHarvest
<1>14. ASSUME quote.settleFx =< quote.fx PROVE harvest.realized + gain =< harvest.budget
  <2>1. PICK x, y \in Nat : x = quote.settleFx /\ y = quote.fx /\ x =< y
    BY <1>3, <1>14
  <2>2. proceeds * x =< proceeds * y /\ proceeds * x \in Nat /\ proceeds * y \in Nat
    BY <2>1, ProductIsMonotone, ProductIsNat
  <2>3. proceeds * y = sold * p
    <3>1. ASSUME NEW a \in Nat, NEW b \in Nat, NEW c \in Nat PROVE (a * b) * c = a * (b * c)
      OBVIOUS
    <3>2. PICK n \in Nat : n = NetPrice(t)
      BY <1>3
    <3>3. (sold * n) * y = sold * (n * y)
      BY <1>6, <2>1, <3>1
    <3> QED BY <1>4, <1>8, <2>1, <3>2, <3>3
  <2>4. booked =< sold * p
    BY <1>12, <2>1, <2>2, <2>3
  <2>5. PICK v \in Nat : v = sold * p
    BY <1>6, ProductIsNat
  <2>6. PICK d \in Nat : d = DisposedBasis(lots[t], sold)
    BY <1>7
  <2>7. v - d =< rest /\ booked =< v /\ gain = booked - d
    BY <1>6, <1>13, <2>4, <2>5, <2>6
  <2> QED BY <1>1, <1>2, <2>7
<1>15. gain \in Int /\ (sold = 0 => gain = 0)
  BY <1>7, <1>8, <1>12, <1>13
<1> QED BY <1>6, <1>10, <1>11, <1>14, <1>15

\* What the harvest of one sleeve changes.
LEMMA HarvestStepIs ==
  ASSUME NEW t, HarvestSleeve(t)
  PROVE  \E sold, rebuy, gain :
           /\ IsHarvest(t, sold, rebuy, gain)
           /\ phase = "harvesting" /\ t \in harvest.todo
           /\ lots' = [lots EXCEPT ![t] = Buy(Sell(@, sold), rebuy, Cost(t) * quote.settleFx)]
           /\ net' = Realized(quote.settleYear, sold, gain)
           /\ earmark' = [earmark EXCEPT ![t] = @ + sold * NetPrice(t) - rebuy * Cost(t)]
           /\ flow' = [flow EXCEPT !.in = @ + sold * NetPrice(t), !.out = @ + rebuy * Cost(t)]
           /\ harvest' = [harvest EXCEPT !.realized = harvest.realized + gain,
                            !.todo = IF sold > 0 /\ harvest.realized + gain >= harvest.budget THEN {} ELSE @ \ {t}]
           /\ UNCHANGED <<phase, mode, month, quote, listed, events, cash, assessed, pending, taxPayable, taxesPaid, weights>>
BY Zenon DEF IsHarvest, HarvestSleeve, Largest, market, taxes

\* Harvesting a sleeve keeps the ledger sound and costs at most the commission.
LEMMA HarvestKeeps ==
  ASSUME LedgerInv, NEW t \in Tickers, HarvestSleeve(t)
  PROVE  LedgerInv' /\ (Wealth - Wealth') \in 0 .. (Commission * TradedAtMost)
<1> USE DEF LedgerInv
<1>1. PICK sold, rebuy, gain :
           /\ IsHarvest(t, sold, rebuy, gain)
           /\ phase = "harvesting" /\ t \in harvest.todo
           /\ lots' = [lots EXCEPT ![t] = Buy(Sell(@, sold), rebuy, Cost(t) * quote.settleFx)]
           /\ net' = Realized(quote.settleYear, sold, gain)
           /\ earmark' = [earmark EXCEPT ![t] = @ + sold * NetPrice(t) - rebuy * Cost(t)]
           /\ flow' = [flow EXCEPT !.in = @ + sold * NetPrice(t), !.out = @ + rebuy * Cost(t)]
           /\ harvest' = [harvest EXCEPT !.realized = harvest.realized + gain,
                            !.todo = IF sold > 0 /\ harvest.realized + gain >= harvest.budget THEN {} ELSE @ \ {t}]
           /\ UNCHANGED <<phase, mode, month, quote, listed, events, cash, assessed, pending, taxPayable, taxesPaid, weights>>
  BY HarvestStepIs
<1>2. /\ earmark \in [Sleeves -> Nat] /\ flow \in [before : Nat, in : Nat, out : Nat] /\ lots \in [Tickers -> Seq(Lot)]
      /\ harvest \in [budget : Int, realized : Int, todo : SUBSET Tickers]
      /\ t \in Sleeves /\ Cash \notin Tickers /\ IsFiniteSet(Tickers) /\ IsFiniteSet(Sleeves)
  BY SleevesFinite DEF LedgerShape, TypeOK
<1>3. /\ sold \in 0 .. Quantity(lots[t]) /\ sold \in Nat /\ rebuy \in 0 .. sold /\ gain \in Int
      /\ rebuy * Cost(t) =< sold * NetPrice(t)
      /\ sold = 0 => gain = 0
      /\ quote.settleFx =< quote.fx => harvest.realized + gain =< harvest.budget
  BY <1>1, HarvestFacts
<1>4. /\ quote.price[t] \in Nat /\ Commission \in Nat /\ Cost(t) \in Nat /\ Cost(t) = quote.price[t] + Commission
      /\ NetPrice(t) \in Nat /\ NetPrice(t) = quote.price[t] - Commission /\ quote.settleFx \in Nat
      /\ quote.price \in [Tickers -> Nat]
  BY <1>1, PricesAre
<1>5. PICK proceeds, back \in Nat : proceeds = sold * NetPrice(t) /\ back = rebuy * Cost(t) /\ back =< proceeds
  BY <1>3, <1>4
<1>6. lots[t] \in Seq(Lot) /\ Quantity(lots[t]) \in Nat /\ earmark[t] \in Nat
  BY <1>2, LotIsAny, QuantityIsUpTo
<1>7. lots'[t] \in Seq(Lot) /\ Quantity(lots'[t]) = Quantity(lots[t]) - sold + rebuy
  <2>1. Sell(lots[t], sold) \in Seq(Lot) /\ Quantity(Sell(lots[t], sold)) = Quantity(lots[t]) - sold
    BY <1>3, <1>6, SellIs
  <2>2. PICK c \in Nat : c = Cost(t) * quote.settleFx
    BY <1>4, ProductIsNat
  <2>3. PICK book : book = Sell(lots[t], sold)
    OBVIOUS
  <2>4. lots'[t] = Buy(book, rebuy, c)
    BY <1>1, <1>2, <2>2, <2>3
  <2>5. rebuy \in Nat /\ book \in Seq(Lot)
    BY <1>3, <2>1, <2>3
  <2>6. Buy(book, rebuy, c) \in Seq(Lot) /\ Quantity(Buy(book, rebuy, c)) = Quantity(book) + rebuy
    BY <2>5, BuyIs
  <2> QED BY <2>1, <2>3, <2>4, <2>6
<1>8. lots' \in [Tickers -> Seq(Lot)] /\ \A u \in Tickers : u # t => lots'[u] = lots[u]
  BY <1>1, <1>2, <1>7
<1>9. /\ earmark' \in [Sleeves -> Nat] /\ earmark'[t] = earmark[t] + proceeds - back
      /\ \A s \in Sleeves : s # t => earmark'[s] = earmark[s]
  BY <1>1, <1>5, <1>6, <1>2
<1>10. SumFunction(earmark') = SumFunction(earmark) + proceeds - back
  <2>1. DiffersAt(Sleeves, earmark, earmark', t)
    BY <1>2, <1>9 DEF DiffersAt
  <2>2. SumFunctionOnSet(earmark', Sleeves) = SumFunctionOnSet(earmark, Sleeves) - earmark[t] + earmark'[t]
    BY <2>1, SumThatDiffers
  <2>3. /\ SumFunction(earmark) = SumFunctionOnSet(earmark, Sleeves) /\ SumFunction(earmark) \in Nat
        /\ SumFunction(earmark') = SumFunctionOnSet(earmark', Sleeves)
    BY <1>2, <1>9, EarmarkSum
  <2> QED BY <1>5, <1>6, <1>9, <2>2, <2>3, SMTT(40)
<1>11. /\ flow' \in [before : Nat, in : Nat, out : Nat]
       /\ SumFunction(earmark') = flow'.before + flow'.in - flow'.out
  <2>1. SumFunction(earmark) = flow.before + flow.in - flow.out
    BY <1>1 DEF FlowKept
  <2>2. flow.before \in Nat /\ flow.in \in Nat /\ flow.out \in Nat
    BY <1>2
  <2>3. flow' \in [before : Nat, in : Nat, out : Nat] /\ flow'.before = flow.before /\ flow'.in = flow.in + proceeds /\ flow'.out = flow.out + back
    <3>1. flow' = [flow EXCEPT !.in = @ + proceeds, !.out = @ + back]
      BY <1>1, <1>5
    <3>2. PICK fb, fi, fo \in Nat : fb = flow.before /\ fi = flow.in + proceeds /\ fo = flow.out + back
      BY <1>5, <2>2
    <3>3. flow' = [before |-> fb, in |-> fi, out |-> fo]
      BY <1>2, <3>1, <3>2
    <3> QED BY <3>2, <3>3
  <2> QED BY <1>5, <1>10, <2>1, <2>2, <2>3
<1>12. quote.settleYear \in Years /\ quote.settleYear = YearOf(month) /\ month \in 1 .. Horizon /\ YearOf(month) \in Int
  <2>1. quote.settleYear \in Years /\ quote.settleYear = YearOf(month) /\ month \in 1 .. Horizon
    BY <1>1 DEF LedgerShape, TypeOK, QuoteReal, HarvestKept
  <2>2. month \in Nat
    BY <2>1
  <2>3. YearOf(month) \in Int
    BY <2>2, YearIs
  <2> QED BY <2>1, <2>3
<1>13. NetIsTyped /\ DOMAIN net' \subseteq Years /\ \A z \in DOMAIN net' : net'[z] \in Int
  BY <1>1, <1>3, <1>12, NetStaysTyped
<1>14. NetOf(YearOf(month))' = NetOf(YearOf(month)) + gain
  BY <1>1, <1>3, <1>12, <1>13, RealizedIs, NetOfIsInt DEF NetOf
<1>15. /\ harvest' \in [budget : Int, realized : Int, todo : SUBSET Tickers]
       /\ harvest'.budget = harvest.budget /\ harvest'.realized = harvest.realized + gain
       /\ harvest'.todo = IF sold > 0 /\ harvest.realized + gain >= harvest.budget THEN {} ELSE harvest.todo \ {t}
  <2>1. harvest.realized + gain \in Int
    BY <1>2, <1>3
  <2> QED BY <1>1, <1>2, <2>1
<1>16. HarvestKept'
  <2>1. /\ NetOf(YearOf(month)) = Deduction - harvest.budget + harvest.realized
        /\ harvest.realized < harvest.budget
    BY <1>1 DEF HarvestKept
  <2>2. harvest.budget \in Int /\ harvest.realized \in Int /\ Deduction \in Nat
    BY <1>2, MoneyAssumption
  <2>3. NetOf(YearOf(month))' = Deduction - harvest'.budget + harvest'.realized
    BY <1>3, <1>14, <1>15, <2>1, <2>2
  <2>4. quote'.settleFx =< quote'.fx => harvest'.realized =< harvest'.budget
    BY <1>1, <1>3, <1>15
  <2>5. harvest'.todo # {} => harvest'.realized < harvest'.budget
    BY <1>3, <1>15, <2>1, <2>2
  <2>6. quote'.settleYear = YearOf(month)'
    BY <1>1, <1>12
  <2> QED BY <2>3, <2>4, <2>5, <2>6 DEF HarvestKept
<1>17. TypeOK'
  BY <1>1, <1>8, <1>9, <1>11, <1>13, <1>15 DEF LedgerShape, TypeOK
<1>18. LedgerShape'
  BY <1>1, <1>8, <1>15, <1>17 DEF LedgerShape, QuoteReal
<1>19. BilledSoFar'
  <2> DEFINE before == YearOf(month)
  <2>1. assessed = {z \in DOMAIN net : z < before} /\ taxPayable + taxesPaid = TaxesOf(net, assessed)
    BY <1>1 DEF BilledSoFar, AssessedBefore
  <2>2. before \in Int /\ before =< quote.settleYear
    BY <1>12
  <2>3. AssessedBefore' = before
    BY <1>1 DEF AssessedBefore
  <2> HIDE DEF before
  <2>4. {z \in DOMAIN net' : z < before} = assessed /\ TaxesOf(net', assessed) = TaxesOf(net, assessed)
    BY <1>1, <1>3, <1>12, <1>13, <2>1, <2>2, LateGain
  <2> QED BY <1>1, <2>1, <2>3, <2>4 DEF BilledSoFar
<1>20. (Wealth - Wealth') \in 0 .. (Commission * TradedAtMost)
  <2> DEFINE dollars == [u \in Tickers |-> IF u = t THEN back - proceeds ELSE 0]
             traded == [u \in Tickers |-> IF u = t THEN sold + rebuy ELSE 0]
  <2>1. TradeAt(dollars, traded)
    <3> SUFFICES ASSUME NEW u \in Tickers
                 PROVE  /\ traded[u] \in Nat /\ traded[u] =< Quantity(lots[u]) + Quantity(lots'[u])
                        /\ dollars[u] = Marks'[u] - Marks[u] + Commission * traded[u]
      BY DEF TradeAt
    <3>1. Marks[u] = Quantity(lots[u]) * quote.price[u] /\ Marks'[u] = Quantity(lots'[u]) * quote.price[u]
      BY <1>1 DEF Marks
    <3>2. CASE u = t
      <4>1. PICK q, p, s, r \in Nat : q = Quantity(lots[t]) /\ p = quote.price[t] /\ s = sold /\ r = rebuy /\ s =< q /\ r =< s
        BY <1>3, <1>4, <1>6
      <4>2. ASSUME NEW a \in Int, NEW b \in Int, NEW c \in Int, NEW v \in Int, NEW k \in Int
            PROVE  c * (v + k) - b * (v - k) = (a - b + c) * v - a * v + k * (b + c)
        OBVIOUS
      <4>3. r * (p + Commission) - s * (p - Commission) = (q - s + r) * p - q * p + Commission * (s + r)
        BY <1>4, <4>2
      <4>4. dollars[u] = back - proceeds /\ traded[u] = s + r
        BY <3>2, <4>1
      <4>5. back = r * (p + Commission) /\ proceeds = s * (p - Commission)
        BY <1>4, <1>5, <4>1
      <4>6. Marks[u] = q * p /\ Marks'[u] = (q - s + r) * p
        BY <1>7, <3>1, <3>2, <4>1
      <4>7. traded[u] \in Nat /\ traded[u] =< Quantity(lots[u]) + Quantity(lots'[u])
        BY <1>7, <3>2, <4>1, <4>4
      <4> QED BY <4>3, <4>4, <4>5, <4>6, <4>7
    <3>3. CASE u # t
      <4>1. lots'[u] = lots[u] /\ lots[u] \in Seq(Lot) /\ quote.price[u] \in Nat
        BY <1>2, <1>4, <1>8, <3>3
      <4>2. Quantity(lots[u]) \in Nat
        BY <4>1, LotIsAny, QuantityIsUpTo
      <4>3. PICK m \in Nat : m = Quantity(lots[u]) * quote.price[u]
        BY <4>1, <4>2, ProductIsNat
      <4>4. Commission * 0 = 0
        BY <1>4
      <4>5. dollars[u] = 0 /\ traded[u] = 0
        BY <3>3
      <4>6. Marks[u] = m /\ Marks'[u] = m
        BY <3>1, <4>1, <4>3
      <4> QED BY <4>1, <4>2, <4>4, <4>5, <4>6
    <3> QED BY <3>2, <3>3
  <2>2. Booked(lots) /\ Booked(lots')
    BY <1>2, <1>8 DEF Booked
  <2>3. \A u \in Tickers : dollars[u] \in Int
    BY <1>5
  <2>4. \A u \in Tickers : earmark'[u] = earmark[u] - dollars[u]
    <3> TAKE u \in Tickers
    <3>1. u \in Sleeves /\ earmark[u] \in Nat
      BY <1>2, SleevesFinite
    <3>2. CASE u = t
      BY <3>2, <1>5, <1>6, <1>9
    <3>3. CASE u # t
      <4>1. dollars[u] = 0
        BY <3>3
      <4> QED BY <1>9, <3>1, <3>3, <4>1
    <3> QED BY <3>2, <3>3
  <2> HIDE DEF dollars, traded
  <2>5. earmark'[Cash] = earmark[Cash]
    BY <1>2, <1>9, SleevesFinite
  <2>6. SumFunction(earmark') = SumFunction(earmark) - SumFunctionOnSet(dollars, Tickers)
    <3>1. PICK after : after = earmark'
      OBVIOUS
    <3>2. SumFunction(after) = SumFunction(earmark) - SumFunctionOnSet(dollars, Tickers)
      BY <1>2, <1>9, <2>3, <2>4, <2>5, <3>1, EarmarkSpent
    <3> QED BY <3>1, <3>2
  <2> QED BY <1>1, <1>2, <1>4, <1>9, <2>1, <2>2, <2>6, WealthLost
<1> QED BY <1>1, <1>11, <1>16, <1>18, <1>19, <1>20 DEF FlowKept, PayableReconciles, CashKept

-----------------------------------------------------------------------------
(* Rebalancing *)

BackOf == [s \in Sleeves |-> TakenBack(s)]
SoldFor == [t \in Tickers |-> Overweight(t) * NetPrice(t)]
SaleGains == [t \in Tickers |->
  Overweight(t) * NetPrice(t) * quote.settleFx - DisposedBasis(lots[t], Overweight(t))]
Drained == [s \in Sleeves |-> earmark[s] - TakenBack(s)]
Trimmed == [t \in Tickers |-> Sell(lots[t], Overweight(t))]
Pool == SumFunctionOnSet(SoldFor, Tickers) + SumFunctionOnSet(BackOf, Sleeves)
Routed == TotalValue(Trimmed, Drained) + Pool * quote.fx
Deficit == [s \in Sleeves |-> Max({0, -Excess(s, Trimmed, Drained, Routed)})]

\* What the rebalance changes.
LEMMA RebalanceIs ==
  ASSUME Rebalance
  PROVE  /\ phase = "rebalance" /\ phase' = "harvest" /\ lots' = Trimmed
         /\ \E part \in Splits(Pool, Deficit) : earmark' = [s \in Sleeves |-> Drained[s] + part[s]]
         /\ \E quantity : net' = Realized(quote.settleYear, quantity, SumFunctionOnSet(SaleGains, Tickers))
         /\ flow' = [flow EXCEPT !.in = @ + Pool - SumFunctionOnSet(BackOf, Sleeves)]
         /\ UNCHANGED <<mode, month, quote, listed, events, cash, assessed, pending, taxPayable, taxesPaid, weights, harvest>>
<1> DEFINE sale(t) == Overweight(t) * NetPrice(t)
           gain(t) == Overweight(t) * NetPrice(t) * quote.settleFx - DisposedBasis(lots[t], Overweight(t))
           back(s) == TakenBack(s)
<1>1. MapThenSumSet(sale, Tickers) = SumFunctionOnSet([t \in Tickers |-> sale(t)], Tickers)
  <2> HIDE DEF sale
  <2> QED BY DEF SumFunctionOnSet, MapThenSumSet, FoldFunctionOnSet, MapThenFoldSet
<1>2. MapThenSumSet(gain, Tickers) = SumFunctionOnSet([t \in Tickers |-> gain(t)], Tickers)
  <2> HIDE DEF gain
  <2> QED BY DEF SumFunctionOnSet, MapThenSumSet, FoldFunctionOnSet, MapThenFoldSet
<1>3. MapThenSumSet(TakenBack, Sleeves) = SumFunctionOnSet([s \in Sleeves |-> TakenBack(s)], Sleeves)
  BY DEF SumFunctionOnSet, MapThenSumSet, FoldFunctionOnSet, MapThenFoldSet
<1>4. /\ MapThenSumSet(sale, Tickers) = SumFunctionOnSet(SoldFor, Tickers)
      /\ MapThenSumSet(gain, Tickers) = SumFunctionOnSet(SaleGains, Tickers)
      /\ MapThenSumSet(TakenBack, Sleeves) = SumFunctionOnSet(BackOf, Sleeves)
  BY <1>1, <1>2, <1>3 DEF SoldFor, SaleGains, BackOf
<1>5. /\ phase = "rebalance" /\ phase' = "harvest" /\ lots' = Trimmed
      /\ UNCHANGED <<mode, month, quote, listed, events, cash, assessed, pending, taxPayable, taxesPaid, weights, harvest>>
  BY DEF Rebalance, Trimmed, market, taxes
<1>6. Pool = MapThenSumSet(sale, Tickers) + MapThenSumSet(TakenBack, Sleeves)
  BY <1>4, Zenon DEF Pool
<1>7. \E part \in Splits(Pool, Deficit) : earmark' = [s \in Sleeves |-> Drained[s] + part[s]]
  BY <1>6, Zenon DEF Rebalance, Drained, Trimmed, Deficit, Routed
<1>8. flow' = [flow EXCEPT !.in = @ + Pool - SumFunctionOnSet(BackOf, Sleeves)]
  BY <1>4, <1>6, Zenon DEF Rebalance
<1>9. net' = Realized(quote.settleYear, MapThenSumSet(Overweight, Tickers), SumFunctionOnSet(SaleGains, Tickers))
  BY <1>4, Zenon DEF Rebalance
<1>10. \E quantity : net' = Realized(quote.settleYear, quantity, SumFunctionOnSet(SaleGains, Tickers))
  BY <1>9, Zenon
<1> QED BY <1>5, <1>7, <1>8, <1>10

InSession == LedgerShape /\ phase = "rebalance"
ValuesOf(book, usd) == [s \in Sleeves |-> SleeveValue(s, book, usd)]
Weight == SumFunction(weights)

\* The month's weights add up to a positive number.
LEMMA WeightIs ==
  ASSUME InSession
  PROVE  /\ weights \in [Sleeves -> Nat] /\ Weight = SumFunctionOnSet(weights, Sleeves) /\ Weight \in Nat \ {0}
         /\ \A s \in Sleeves : weights[s] \in Nat
BY EarmarkSum DEF InSession, LedgerShape, TypeOK, Weight

\* The value of a portfolio is an amount, and adds up.
LEMMA ValueIs ==
  ASSUME InSession, NEW book, Booked(book), NEW usd \in [Sleeves -> Nat]
  PROVE  /\ \A s \in Sleeves : SleeveValue(s, book, usd) \in Nat
         /\ TotalValue(book, usd) = SumFunctionOnSet(ValuesOf(book, usd), Sleeves) /\ TotalValue(book, usd) \in Nat
<1>1. ASSUME NEW s \in Sleeves PROVE SleeveValue(s, book, usd) \in Nat
  <2>1. quote.fx \in Nat /\ quote.price \in [Tickers -> Nat] /\ usd[s] \in Nat
    BY DEF InSession, LedgerShape
  <2>2. usd[s] * quote.fx \in Nat
    BY <2>1, ProductIsNat
  <2>3. CASE s = Cash
    BY <2>3, <2>2 DEF SleeveValue
  <2>4. CASE s # Cash
    <3>1. s \in Tickers
      BY <2>4 DEF Sleeves
    <3>2. book[s] \in Seq(Lot) /\ quote.price[s] \in Nat
      BY <2>1, <3>1 DEF Booked
    <3>3. Quantity(book[s]) \in Nat
      BY <3>2, LotIsAny, QuantityIsUpTo
    <3>4. PICK n \in Nat : n = Quantity(book[s]) * quote.price[s]
      BY <3>2, <3>3, ProductIsNat
    <3>5. n * quote.fx \in Nat
      BY <2>1, ProductIsNat
    <3>6. SleeveValue(s, book, usd) = usd[s] * quote.fx + n * quote.fx
      BY <2>4, <3>4 DEF SleeveValue
    <3> QED BY <2>2, <3>5, <3>6
  <2> QED BY <2>3, <2>4
<1> DEFINE f(s) == SleeveValue(s, book, usd)
<1>2. MapThenSumSet(f, Sleeves) = SumFunctionOnSet([s \in Sleeves |-> f(s)], Sleeves)
  <2> HIDE DEF f
  <2> QED BY DEF SumFunctionOnSet, MapThenSumSet, FoldFunctionOnSet, MapThenFoldSet
<1>3. TotalValue(book, usd) = SumFunctionOnSet(ValuesOf(book, usd), Sleeves)
  BY <1>2 DEF TotalValue, ValuesOf
<1>4. \A s \in Sleeves : ValuesOf(book, usd)[s] \in Nat
  BY <1>1 DEF ValuesOf
<1>5. SumFunctionOnSet(ValuesOf(book, usd), Sleeves) \in Nat
  BY <1>4, SleevesFinite, SumIsNat
<1> QED BY <1>1, <1>3, <1>5

ExcessOf(book, usd, total) == [s \in Sleeves |-> Excess(s, book, usd, total)]

\* The distances of the sleeves from their targets cancel out.
LEMMA ExcessAddsUp ==
  ASSUME InSession, NEW book, Booked(book), NEW usd \in [Sleeves -> Nat], NEW total \in Int
  PROVE  /\ \A s \in Sleeves : Excess(s, book, usd, total) \in Int
         /\ SumFunctionOnSet(ExcessOf(book, usd, total), Sleeves) = Weight * TotalValue(book, usd) - Weight * total
<1> DEFINE V == ValuesOf(book, usd)
           A == [s \in Sleeves |-> Weight * V[s]]
           B == [s \in Sleeves |-> total * weights[s]]
           E == ExcessOf(book, usd, total)
<1>1. /\ IsFiniteSet(Sleeves) /\ Weight \in Nat \ {0} /\ Weight = SumFunctionOnSet(weights, Sleeves)
      /\ \A s \in Sleeves : weights[s] \in Nat
  BY SleevesFinite, WeightIs
<1>2. /\ \A s \in Sleeves : V[s] = SleeveValue(s, book, usd) /\ V[s] \in Nat
      /\ TotalValue(book, usd) = SumFunctionOnSet(V, Sleeves)
  BY ValueIs DEF ValuesOf
<1>3. \A s \in Sleeves : E[s] = Excess(s, book, usd, total)
  BY DEF ExcessOf
<1> HIDE DEF V, E
<1>4. ASSUME NEW s \in Sleeves
      PROVE  /\ A[s] = Weight * V[s] /\ A[s] \in Int /\ B[s] = total * weights[s] /\ B[s] \in Int
             /\ E[s] = A[s] - B[s] /\ E[s] \in Int
  <2>1. PICK v, w \in Nat : v = V[s] /\ w = weights[s]
    BY <1>1, <1>2
  <2>2. Weight * v \in Int /\ total * w \in Int /\ Weight * v = v * Weight /\ total * w = w * total
    BY <1>1
  <2>3. E[s] = v * Weight - w * total
    BY <1>2, <1>3, <2>1 DEF Excess, Weight
  <2> QED BY <2>1, <2>2, <2>3
<1>5. SumFunctionOnSet(A, Sleeves) = Weight * SumFunctionOnSet(V, Sleeves)
  <2>1. \A s \in Sleeves : V[s] \in Int /\ A[s] = Weight * V[s]
    BY <1>2, <1>4
  <2> HIDE DEF A
  <2> QED BY <1>1, <2>1, SumScaled
<1>6. SumFunctionOnSet(B, Sleeves) = total * SumFunctionOnSet(weights, Sleeves)
  <2>1. \A s \in Sleeves : weights[s] \in Int /\ B[s] = total * weights[s]
    BY <1>1, <1>4
  <2> HIDE DEF B
  <2> QED BY <1>1, <2>1, SumScaled
<1>7. SumFunctionOnSet(E, Sleeves) = SumFunctionOnSet(A, Sleeves) - SumFunctionOnSet(B, Sleeves)
  <2>1. \A s \in Sleeves : A[s] \in Int /\ B[s] \in Int /\ E[s] = A[s] - B[s]
    BY <1>4
  <2> HIDE DEF A, B
  <2> QED BY <1>1, <2>1, SumSubtracts
<1>8. total * Weight = Weight * total
  BY <1>1
<1>9. \A s \in Sleeves : Excess(s, book, usd, total) \in Int
  BY <1>3, <1>4
<1> QED BY <1>1, <1>2, <1>5, <1>6, <1>7, <1>8, <1>9 DEF E

\* A rebalance takes back no more than a sleeve has.
LEMMA BackIs ==
  ASSUME InSession, NEW s \in Sleeves
  PROVE  TakenBack(s) \in Nat /\ TakenBack(s) =< earmark[s] /\ earmark[s] \in Nat
<1>1. /\ Booked(lots) /\ earmark \in [Sleeves -> Nat] /\ earmark[s] \in Nat /\ quote.fx \in Nat \ {0}
  BY DEF InSession, LedgerShape, TypeOK, Booked, QuoteReal
<1>2. Weight \in Nat \ {0}
  BY WeightIs
<1>3. TotalValue(lots, earmark) \in Int
  BY <1>1, ValueIs
<1>4. PICK e \in Int : e = Excess(s, lots, earmark, TotalValue(lots, earmark))
  BY <1>1, <1>3, ExcessAddsUp
<1>5. PICK unit \in Nat \ {0} : unit = quote.fx * Weight
  <2>1. ASSUME NEW a \in Nat \ {0}, NEW b \in Nat \ {0} PROVE a * b \in Nat \ {0}
    OBVIOUS
  <2> QED BY <1>1, <1>2, <2>1
<1>6. TakenBack(s) = IF e <= 0 THEN 0 ELSE Min({e \div unit, earmark[s]})
  BY <1>4, <1>5 DEF TakenBack, Weight
<1>7. CASE e <= 0
  BY <1>1, <1>6, <1>7
<1>8. CASE ~ (e <= 0)
  BY <1>8, Quotient, <1>1, MinOfTwo, <1>6
<1> QED BY <1>7, <1>8

\* It sells no more shares than a ticker has.
LEMMA OverIs ==
  ASSUME InSession, NEW t \in Tickers
  PROVE  Overweight(t) \in Nat /\ Overweight(t) \in 0 .. Quantity(lots[t]) /\ lots[t] \in Seq(Lot) /\ Quantity(lots[t]) \in Nat
<1>0. t \in Sleeves
  BY SleevesFinite
<1>1. /\ Booked(lots) /\ earmark \in [Sleeves -> Nat] /\ quote.fx \in Nat \ {0} /\ quote.price[t] \in Nat \ {0}
      /\ lots[t] \in Seq(Lot)
  BY PricesAre DEF InSession, LedgerShape, TypeOK, Booked
<1>2. Weight \in Nat \ {0} /\ Quantity(lots[t]) \in Nat
  BY <1>1, WeightIs, LotIsAny, QuantityIsUpTo
<1>3. TotalValue(lots, earmark) \in Int
  BY <1>1, ValueIs
<1>4. PICK e \in Int : e = Excess(t, lots, earmark, TotalValue(lots, earmark))
  BY <1>0, <1>1, <1>3, ExcessAddsUp
<1>5. PICK unit \in Nat \ {0} : unit = quote.fx * Weight
  BY <1>1, <1>2
<1>6. PICK rest \in Int : rest = e - TakenBack(t) * unit
  BY <1>0, BackIs, ProductIsNat
<1>7. PICK price \in Nat \ {0} : price = quote.price[t] * unit
  BY <1>1
<1>8. Overweight(t) = IF rest <= 0 THEN 0 ELSE Min({rest \div price, Quantity(lots[t])})
  BY <1>4, <1>5, <1>6, <1>7 DEF Overweight, Weight
<1>9. CASE rest <= 0
  BY <1>1, <1>2, <1>8, <1>9
<1>10. CASE ~ (rest <= 0)
  <2>1. rest \in Nat
    BY <1>10
  <2>2. PICK k \in Nat : k = rest \div price
    BY <2>1, Quotient
  <2>3. Min({k, Quantity(lots[t])}) = IF k =< Quantity(lots[t]) THEN k ELSE Quantity(lots[t])
    BY <1>2, MinOfTwo
  <2> QED BY <1>1, <1>2, <1>8, <1>10, <2>2, <2>3
<1> QED BY <1>9, <1>10

\* What the pool of a rebalance is made of.
LEMMA PoolIs ==
  ASSUME InSession
  PROVE  /\ Drained \in [Sleeves -> Nat] /\ Trimmed \in [Tickers -> Seq(Lot)]
         /\ SumFunctionOnSet(SoldFor, Tickers) \in Nat /\ SumFunctionOnSet(BackOf, Sleeves) \in Nat
         /\ Pool = SumFunctionOnSet(SoldFor, Tickers) + SumFunctionOnSet(BackOf, Sleeves) /\ Pool \in Nat
         /\ SumFunction(Drained) = SumFunction(earmark) - SumFunctionOnSet(BackOf, Sleeves)
         /\ SumFunctionOnSet(SaleGains, Tickers) \in Int
         /\ \A t \in Tickers : /\ SoldFor[t] = Overweight(t) * NetPrice(t) /\ SoldFor[t] \in Nat
                               /\ Quantity(Trimmed[t]) = Quantity(lots[t]) - Overweight(t)
<1>1. ASSUME NEW t \in Tickers
      PROVE  /\ SoldFor[t] = Overweight(t) * NetPrice(t) /\ SoldFor[t] \in Nat
             /\ Trimmed[t] \in Seq(Lot) /\ Quantity(Trimmed[t]) = Quantity(lots[t]) - Overweight(t)
             /\ SaleGains[t] \in Int
  <2>1. Overweight(t) \in Nat /\ Overweight(t) \in 0 .. Quantity(lots[t]) /\ lots[t] \in Seq(Lot)
    BY OverIs
  <2>2. NetPrice(t) \in Nat /\ quote.settleFx \in Nat
    BY PricesAre DEF InSession
  <2>3. PICK n \in Nat : n = Overweight(t) * NetPrice(t)
    BY <2>1, <2>2, ProductIsNat
  <2>4. SoldFor[t] = n
    BY <2>3 DEF SoldFor
  <2>5. Sell(lots[t], Overweight(t)) \in Seq(Lot) /\ Quantity(Sell(lots[t], Overweight(t))) = Quantity(lots[t]) - Overweight(t)
    BY <2>1, SellIs
  <2>6. Trimmed[t] = Sell(lots[t], Overweight(t))
    BY DEF Trimmed
  <2>7. DisposedBasis(lots[t], Overweight(t)) \in Nat
    BY <2>1, LotIsAny, DisposedIs
  <2>8. n * quote.settleFx \in Nat
    BY <2>2, ProductIsNat
  <2>9. SaleGains[t] = n * quote.settleFx - DisposedBasis(lots[t], Overweight(t))
    BY <2>3 DEF SaleGains
  <2> QED BY <2>3, <2>4, <2>5, <2>6, <2>7, <2>8, <2>9
<1>2. Trimmed \in [Tickers -> Seq(Lot)]
  BY <1>1 DEF Trimmed
<1>3. ASSUME NEW s \in Sleeves
      PROVE  BackOf[s] \in Nat /\ earmark[s] \in Nat /\ Drained[s] = earmark[s] - BackOf[s] /\ Drained[s] \in Nat
  BY BackIs DEF BackOf, Drained
<1>4. Drained \in [Sleeves -> Nat]
  BY <1>3, Zenon DEF Drained
<1>5. IsFiniteSet(Tickers) /\ IsFiniteSet(Sleeves)
  BY SleevesFinite
<1>6. SumFunctionOnSet(SoldFor, Tickers) \in Nat
  <2>1. \A t \in Tickers : SoldFor[t] \in Nat
    BY <1>1
  <2> QED BY <1>5, <2>1, SumIsNat
<1>7. SumFunctionOnSet(BackOf, Sleeves) \in Nat
  <2>1. \A s \in Sleeves : BackOf[s] \in Nat
    BY <1>3
  <2> QED BY <1>5, <2>1, SumIsNat
<1>8. SumFunctionOnSet(SaleGains, Tickers) \in Int
  <2>1. \A t \in Tickers : SaleGains[t] \in Int
    BY <1>1
  <2> QED BY <1>5, <2>1, SumIsInt
<1>9. SumFunction(Drained) = SumFunction(earmark) - SumFunctionOnSet(BackOf, Sleeves)
  <2>1. \A s \in Sleeves : earmark[s] \in Int /\ BackOf[s] \in Int /\ Drained[s] = earmark[s] - BackOf[s]
    BY <1>3
  <2>2. SumFunctionOnSet(Drained, Sleeves) = SumFunctionOnSet(earmark, Sleeves) - SumFunctionOnSet(BackOf, Sleeves)
    BY <1>5, <2>1, SumSubtracts
  <2>3. earmark \in [Sleeves -> Nat]
    BY DEF InSession, LedgerShape, TypeOK
  <2>4. SumFunction(Drained) = SumFunctionOnSet(Drained, Sleeves) /\ SumFunction(earmark) = SumFunctionOnSet(earmark, Sleeves)
    BY <1>4, <2>3, EarmarkSum
  <2> QED BY <2>2, <2>4
<1>10. Pool = SumFunctionOnSet(SoldFor, Tickers) + SumFunctionOnSet(BackOf, Sleeves) /\ Pool \in Nat
  BY <1>6, <1>7 DEF Pool
<1> QED BY <1>1, <1>2, <1>4, <1>6, <1>7, <1>8, <1>9, <1>10

\* The whole pool is routed: when there is one, some sleeve is below its target.
LEMMA PoolIsRouted ==
  ASSUME InSession, NEW part \in Splits(Pool, Deficit)
  PROVE  part \in [Sleeves -> Nat] /\ SumFunctionOnSet(part, Sleeves) = Pool
<1>1. Drained \in [Sleeves -> Nat] /\ Trimmed \in [Tickers -> Seq(Lot)] /\ Booked(Trimmed) /\ Pool \in Nat
  BY PoolIs DEF Booked
<1>2. quote.fx \in Nat \ {0} /\ Weight \in Nat \ {0} /\ IsFiniteSet(Sleeves)
  BY WeightIs, SleevesFinite DEF InSession, LedgerShape, QuoteReal
<1>3. PICK tv \in Nat : tv = TotalValue(Trimmed, Drained)
  BY <1>1, ValueIs
<1>4. PICK up \in Nat : up = Pool * quote.fx /\ (up = 0 => Pool = 0)
  BY <1>1, <1>2
<1>5. PICK total \in Int : total = Routed /\ total = tv + up
  BY <1>3, <1>4 DEF Routed
<1> DEFINE E == ExcessOf(Trimmed, Drained, total)
<1>6. /\ \A s \in Sleeves : E[s] \in Int
      /\ SumFunctionOnSet(E, Sleeves) = Weight * TotalValue(Trimmed, Drained) - Weight * total
      /\ \A s \in Sleeves : Deficit[s] = Max({0, -E[s]})
  BY <1>1, ExcessAddsUp, <1>5 DEF ExcessOf, Deficit
<1> HIDE DEF E
<1>7. ASSUME NEW s \in Sleeves PROVE Deficit[s] \in Nat /\ (Deficit[s] = 0 => E[s] >= 0)
  <2>1. PICK k \in Int : k = -E[s]
    BY <1>6
  <2>2. Max({0, k}) = IF 0 >= k THEN 0 ELSE k
    BY MaxOfTwo
  <2>3. Deficit[s] = Max({0, k})
    BY <1>6, <2>1
  <2> QED BY <1>6, <2>1, <2>2, <2>3
<1>8. Deficit \in [Sleeves -> Nat]
  BY <1>7 DEF Deficit
<1>9. /\ part \in [Sleeves -> Nat]
      /\ SumFunctionOnSet(Deficit, Sleeves) # 0 => SumFunctionOnSet(part, Sleeves) = Pool
      /\ SumFunctionOnSet(Deficit, Sleeves) = 0 => part = Deficit
  BY <1>1, <1>2, <1>8, SplitsAddUp
<1>10. ASSUME SumFunctionOnSet(Deficit, Sleeves) = 0 PROVE Pool = 0
  <2>1. \A s \in Sleeves : E[s] \in Nat
    <3> TAKE s \in Sleeves
    <3>1. \A u \in Sleeves : Deficit[u] \in Nat
      BY <1>7
    <3>2. Deficit[s] =< SumFunctionOnSet(Deficit, Sleeves)
      BY <1>2, <3>1, SumBoundsTerms
    <3>3. Deficit[s] = 0
      BY <1>7, <1>10, <3>2
    <3> QED BY <1>6, <1>7, <3>3
  <2>2. SumFunctionOnSet(E, Sleeves) \in Nat
    BY <1>2, <2>1, SumIsNat
  <2>3. Weight * tv - Weight * total >= 0
    BY <1>3, <1>6, <2>2
  <2>4. up = 0
    BY <1>2, <1>5, <2>3
  <2> QED BY <1>4, <2>4
<1> QED BY <1>9, <1>10

\* The rebalance keeps the ledger sound and costs at most the commission.
LEMMA RebalanceKeeps ==
  ASSUME LedgerInv, Rebalance
  PROVE  LedgerInv' /\ (Wealth - Wealth') \in 0 .. (Commission * TradedAtMost)
<1> USE DEF LedgerInv
<1>1. /\ phase = "rebalance" /\ phase' = "harvest" /\ lots' = Trimmed
      /\ flow' = [flow EXCEPT !.in = @ + Pool - SumFunctionOnSet(BackOf, Sleeves)]
      /\ UNCHANGED <<mode, month, quote, listed, events, cash, assessed, pending, taxPayable, taxesPaid, weights, harvest>>
  BY RebalanceIs
<1>2. PICK part \in Splits(Pool, Deficit) : earmark' = [s \in Sleeves |-> Drained[s] + part[s]]
  BY RebalanceIs
<1>3. PICK quantity : net' = Realized(quote.settleYear, quantity, SumFunctionOnSet(SaleGains, Tickers))
  BY RebalanceIs
<1>4. InSession
  BY <1>1 DEF InSession
<1>5. /\ Drained \in [Sleeves -> Nat] /\ Trimmed \in [Tickers -> Seq(Lot)]
      /\ SumFunction(Drained) = SumFunction(earmark) - SumFunctionOnSet(BackOf, Sleeves)
      /\ \A t \in Tickers : /\ SoldFor[t] = Overweight(t) * NetPrice(t) /\ SoldFor[t] \in Nat
                            /\ Quantity(Trimmed[t]) = Quantity(lots[t]) - Overweight(t)
  BY <1>4, PoolIs
<1>6. PICK sale, back \in Nat : /\ sale = SumFunctionOnSet(SoldFor, Tickers) /\ back = SumFunctionOnSet(BackOf, Sleeves)
                                /\ Pool = sale + back
  BY <1>4, PoolIs
<1>7. PICK gain \in Int : gain = SumFunctionOnSet(SaleGains, Tickers)
  BY <1>4, PoolIs
<1>8. earmark \in [Sleeves -> Nat] /\ flow \in [before : Nat, in : Nat, out : Nat] /\ SumFunction(earmark) \in Nat
  BY EarmarkSum DEF LedgerShape, TypeOK
<1>9. part \in [Sleeves -> Nat] /\ SumFunctionOnSet(part, Sleeves) = sale + back
  BY <1>4, <1>6, PoolIsRouted
<1>10. earmark' \in [Sleeves -> Nat] /\ SumFunction(earmark') = SumFunction(earmark) + sale
  <2>1. earmark' \in [Sleeves -> Nat] /\ SumFunction(earmark') = SumFunction(Drained) + (sale + back)
    <3>1. PICK amount \in Nat : amount = sale + back
      OBVIOUS
    <3>2. SumFunctionOnSet(part, Sleeves) = amount
      BY <1>9, <3>1
    <3>3. earmark' \in [Sleeves -> Nat] /\ SumFunction(earmark') = SumFunction(Drained) + amount
      <4>1. PICK d \in [Sleeves -> Nat] : d = Drained
        BY <1>5
      <4>2. PICK after : after = earmark' /\ after = [s \in Sleeves |-> d[s] + part[s]]
        BY <1>2, <4>1
      <4>3. part \in [Sleeves -> Nat]
        BY <1>9
      <4>4. after \in [Sleeves -> Nat] /\ SumFunction(after) = SumFunction(d) + amount
        BY <3>2, <4>2, <4>3, EarmarkGains
      <4> QED BY <4>1, <4>2, <4>4
    <3> QED BY <3>1, <3>3
  <2> QED BY <1>5, <1>6, <1>8, <2>1, SMTT(40)
<1>11. lots' \in [Tickers -> Seq(Lot)]
  BY <1>1, <1>5
<1>12. /\ flow' \in [before : Nat, in : Nat, out : Nat]
       /\ SumFunction(earmark') = flow'.before + flow'.in - flow'.out
  BY <1>1, <1>8, <1>6, <1>10 DEF FlowKept
<1>13. quote.settleYear \in Years /\ month \in 1 .. Horizon /\ YearOf(month) \in Int /\ YearOf(month) =< quote.settleYear
  <2>1. quote.settleYear \in Years /\ quote.settleYear >= YearOf(month) /\ month \in 1 .. Horizon
    BY <1>1 DEF LedgerShape, TypeOK, QuoteReal
  <2>2. month \in Nat
    BY <2>1
  <2>3. YearOf(month) \in Int /\ quote.settleYear \in Nat
    BY <2>1, <2>2, YearIs, YearsFinite
  <2> QED BY <2>1, <2>3
<1>14. NetIsTyped /\ DOMAIN net' \subseteq Years /\ \A z \in DOMAIN net' : net'[z] \in Int
  BY <1>3, <1>7, <1>13, NetStaysTyped
<1>15. TypeOK'
  BY <1>1, <1>10, <1>11, <1>12, <1>14 DEF LedgerShape, TypeOK
<1>16. LedgerShape'
  BY <1>1, <1>11, <1>15 DEF LedgerShape, QuoteReal
<1>17. BilledSoFar'
  <2> DEFINE before == YearOf(month)
  <2>1. assessed = {z \in DOMAIN net : z < before} /\ taxPayable + taxesPaid = TaxesOf(net, assessed)
    BY <1>1 DEF BilledSoFar, AssessedBefore
  <2>2. before \in Int /\ before =< quote.settleYear
    BY <1>13
  <2>3. AssessedBefore' = before
    BY <1>1 DEF AssessedBefore
  <2> HIDE DEF before
  <2>4. {z \in DOMAIN net' : z < before} = assessed /\ TaxesOf(net', assessed) = TaxesOf(net, assessed)
    BY <1>3, <1>7, <1>13, <1>14, <2>1, <2>2, LateGain
  <2> QED BY <1>1, <2>1, <2>3, <2>4 DEF BilledSoFar
<1>18. (Wealth - Wealth') \in 0 .. (Commission * TradedAtMost)
  <2> DEFINE dollars == [t \in Tickers |-> 0 - SoldFor[t]]
             traded == [t \in Tickers |-> Overweight(t)]
  <2>1. TradeAt(dollars, traded)
    <3> SUFFICES ASSUME NEW t \in Tickers
                 PROVE  /\ traded[t] \in Nat /\ traded[t] =< Quantity(lots[t]) + Quantity(lots'[t])
                        /\ dollars[t] = Marks'[t] - Marks[t] + Commission * traded[t]
      BY DEF TradeAt
    <3>1. Marks[t] = Quantity(lots[t]) * quote.price[t] /\ Marks'[t] = Quantity(lots'[t]) * quote.price[t]
      BY <1>1 DEF Marks
    <3>2. /\ quote.price[t] \in Nat /\ Commission \in Nat /\ NetPrice(t) = quote.price[t] - Commission
      BY <1>1, PricesAre
    <3>3. Overweight(t) \in Nat /\ Overweight(t) \in 0 .. Quantity(lots[t]) /\ Quantity(lots[t]) \in Nat
      BY <1>4, OverIs
    <3>4. PICK q, p, s \in Nat : q = Quantity(lots[t]) /\ p = quote.price[t] /\ s = Overweight(t) /\ s =< q
      BY <3>2, <3>3
    <3>5. ASSUME NEW a \in Int, NEW b \in Int, NEW v \in Int, NEW k \in Int
          PROVE  0 - b * (v - k) = (a - b) * v - a * v + k * b
      OBVIOUS
    <3>6. 0 - s * (p - Commission) = (q - s) * p - q * p + Commission * s
      BY <3>2, <3>5
    <3>7. dollars[t] = 0 - s * (p - Commission) /\ traded[t] = s
      BY <1>5, <3>2, <3>4
    <3>8. Marks[t] = q * p /\ Marks'[t] = (q - s) * p /\ Quantity(lots'[t]) = q - s
      BY <1>1, <1>5, <3>1, <3>4
    <3> QED BY <3>4, <3>6, <3>7, <3>8
  <2>2. Booked(lots) /\ Booked(lots')
    BY <1>11 DEF LedgerShape, Booked
  <2>3. SumFunctionOnSet(dollars, Tickers) = 0 - sale
    <3> DEFINE none == [t \in Tickers |-> 0]
    <3>1. \A t \in Tickers : none[t] \in Int /\ SoldFor[t] \in Int /\ dollars[t] = none[t] - SoldFor[t] /\ none[t] = 0
      BY <1>5
    <3> HIDE DEF none, dollars
    <3>2. SumFunctionOnSet(dollars, Tickers) = SumFunctionOnSet(none, Tickers) - SumFunctionOnSet(SoldFor, Tickers)
      BY <3>1, SleevesFinite, SumSubtracts
    <3>3. SumFunctionOnSet(none, Tickers) = 0
      BY <3>1, SleevesFinite, SumOfZeros
    <3> QED BY <1>6, <3>2, <3>3
  <2> HIDE DEF dollars, traded
  <2>4. SumFunction(earmark') = SumFunction(earmark) - SumFunctionOnSet(dollars, Tickers)
    BY <1>8, <1>10, <2>3
  <2>5. quote' = quote /\ quote.price \in [Tickers -> Nat]
    BY <1>1 DEF LedgerShape
  <2> QED BY <1>8, <1>10, <2>1, <2>2, <2>4, <2>5, WealthLost
<1> QED BY <1>1, <1>12, <1>16, <1>17, <1>18 DEF FlowKept, PayableReconciles, CashKept, HarvestKept

\* Every step keeps the ledger sound.
LEMMA NextKeeps == ASSUME LedgerInv, [Next]_vars PROVE LedgerInv'
<1>1. CASE OpenSession BY <1>1, OpenKeeps
<1>2. CASE Accrue BY <1>2, AccrueKeeps
<1>3. CASE SettleDelisted BY <1>3, SettleKeeps
<1>4. CASE AssessYears BY <1>4, AssessKeeps
<1>5. CASE DepositAndPay BY <1>5, PayKeeps
<1>6. CASE Convert BY <1>6, ConvertKeeps
<1>7. CASE Rebalance BY <1>7, RebalanceKeeps
<1>8. CASE SkipRebalance BY <1>8, SkipKeeps
<1>9. CASE StartHarvest BY <1>9, StartKeeps
<1>10. CASE EndHarvest BY <1>10, EndKeeps
<1>11. CASE Fill BY <1>11, FillKeeps
<1>12. CASE CloseSession BY <1>12, CloseKeeps
<1>13. CASE Abort BY <1>13, AbortKeeps
<1>14. ASSUME NEW t \in Tickers, Delist(t) PROVE LedgerInv' BY <1>14, DelistKeeps
<1>15. ASSUME NEW t \in Tickers, PayDividend(t) PROVE LedgerInv' BY <1>15, DividendKeeps
<1>16. ASSUME NEW t \in Tickers, ForwardSplit(t) PROVE LedgerInv' BY <1>16, ForwardKeeps
<1>17. ASSUME NEW t \in Tickers, ReverseSplit(t) PROVE LedgerInv' BY <1>17, ReverseKeeps
<1>18. ASSUME NEW t \in Tickers, HarvestSleeve(t) PROVE LedgerInv' BY <1>18, HarvestKeeps
<1>19. CASE UNCHANGED vars
  <2>1. UNCHANGED <<mode, month, phase, quote, listed, events, earmark, cash, lots, net, assessed, pending, taxPayable,
                    taxesPaid, flow, weights, harvest>>
    BY <1>19 DEF vars
  <2>2. TypeOK'
    BY <2>1 DEF LedgerInv, LedgerShape, TypeOK
  <2>3. LedgerShape'
    BY <2>1, <2>2 DEF LedgerInv, LedgerShape, QuoteReal
  <2>4. BilledSoFar'
    BY <2>1 DEF LedgerInv, BilledSoFar, AssessedBefore
  <2>5. CashKept'
    BY <2>1 DEF LedgerInv, CashKept, Due
  <2>6. HarvestKept'
    BY <2>1 DEF LedgerInv, HarvestKept, NetOf
  <2> QED BY <2>1, <2>3, <2>4, <2>5, <2>6 DEF LedgerInv, FlowKept, PayableReconciles
<1> QED BY <1>1, <1>2, <1>3, <1>4, <1>5, <1>6, <1>7, <1>8, <1>9, <1>10, <1>11, <1>12, <1>13, <1>14, <1>15, <1>16,
           <1>17, <1>18, <1>19 DEF Next

\* The ledger of the after-tax engine stays well formed through corporate actions,
\* delistings, tax bills, rebalances and harvests: the dollars a session holds are
\* those it began with and the flows of every step, and the taxes of all assessed
\* years are paid or owed, bill by bill.
THEOREM LedgerIsSound == Spec => []LedgerInv
<1>1. Init => LedgerInv
  BY InitLedger
<1>2. LedgerInv /\ [Next]_vars => LedgerInv'
  BY NextKeeps
<1> QED BY <1>1, <1>2, PTL DEF Spec

\* A sound ledger balances its books.
LEMMA BalancedNow == ASSUME LedgerInv PROVE BooksBalance
<1>1. TypeOK /\ PayableReconciles
  BY DEF LedgerInv, LedgerShape
<1>2. FlowsReconcile
  BY DEF LedgerInv, FlowKept, FlowsReconcile
<1>3. GainsBilledOnce
  BY TaxSum DEF GainsBilledOnce, AssessedBefore, LedgerInv, BilledSoFar
<1> QED BY <1>1, <1>2, <1>3 DEF BooksBalance

\* At the end of a session the dollars, the bills and the payments reconcile
\* (_reconcile and the tax account of the engine).
THEOREM BooksAreBalanced == Spec => []BooksBalance
<1>1. LedgerInv => BooksBalance
  BY BalancedNow
<1> QED BY <1>1, LedgerIsSound, PTL

\* In a sound ledger the harvest walk answers the largest disposal.
LEMMA LargestNow == ASSUME LedgerInv PROVE HarvestableIsLargest
<1> SUFFICES ASSUME NEW t \in Tickers, NEW q \in Quotes, NEW budget \in 0 .. Deduction
             PROVE  HarvestableQuantity(lots[t], (q.price[t] - Commission) * q.fx, budget)
                      = LargestWithin(lots[t], (q.price[t] - Commission) * q.fx, budget)
  BY DEF HarvestableIsLargest
<1>1. lots[t] \in Seq(Lot)
  BY DEF LedgerInv, LedgerShape
<1>2. q.price[t] \in Nat /\ q.fx \in Nat /\ Commission \in Nat /\ Deduction \in Nat
  BY SleeveAssumption, MoneyAssumption
<1>3. PICK krw \in Int : krw = (q.price[t] - Commission) * q.fx
  BY <1>2
<1>4. budget \in Nat
  BY <1>2
<1> QED BY <1>1, <1>3, <1>4, HarvestIsLargest

\* What the harvest's walk answers for any book the engine holds is the largest
\* disposal within the budget (_harvestable_quantity).
THEOREM HarvestIsLargestEver == Spec => []HarvestableIsLargest
<1>1. LedgerInv => HarvestableIsLargest
  BY LargestNow
<1> QED BY <1>1, LedgerIsSound, PTL

\* Dollars are bought when every due bill is paid; a payment takes due bills only.
ClaimsFirstNow ==
  /\ cash > 0 /\ cash' = 0 => \A y \in Years : DueMonth(y) <= month => pending[y] = 0
  /\ taxesPaid' # taxesPaid => \A y \in Years : DueMonth(y) > month => pending'[y] = pending[y]

\* No step turns won into dollars while a tax bill is due.
LEMMA ClaimsStep == ASSUME LedgerInv, Next PROVE ClaimsFirstNow
<1>1. ASSUME cash > 0, NEW y \in Years, DueMonth(y) <= month PROVE pending[y] = 0
  BY <1>1 DEF LedgerInv, CashKept, Due
<1>2. ASSUME taxesPaid' # taxesPaid, NEW y \in Years, DueMonth(y) > month PROVE pending'[y] = pending[y]
  <2>1. CASE DepositAndPay
    <3>1. PICK paid : paid = Min({DueNow, cash + Deposit})
      OBVIOUS
    <3>2. pending' = [z \in Years |-> pending[z] - Settled(paid, z)]
      BY <2>1, <3>1 DEF DepositAndPay
    <3>3. IsPayment(paid, pending')
      BY <3>1, <3>2 DEF IsPayment
    <3>4. pending \in [Years -> Nat] /\ cash \in Nat /\ month \in Int
      BY DEF LedgerInv, LedgerShape, TypeOK
    <3>5. y \notin Due
      <4>1. DueMonth(y) \in Int
        <5>1. y \in Nat /\ MonthsPerYear \in Nat /\ PaymentMonth \in Nat
          BY YearsFinite, CalendarAssumption
        <5>2. y * MonthsPerYear \in Nat
          BY <5>1, ProductIsNat
        <5> QED BY <5>1, <5>2 DEF DueMonth
      <4>2. ~ (DueMonth(y) <= month)
        BY <1>2, <3>4, <4>1
      <4> QED BY <4>2 DEF Due
    <3>6. \A z \in Years \ Due : pending'[z] = pending[z]
      BY <3>3, <3>4, PaymentIs
    <3> QED BY <3>5, <3>6
  <2>2. CASE ~ DepositAndPay
    <3>1. taxesPaid' = taxesPaid
      BY <2>2 DEF Next, OpenSession, Accrue, SettleDelisted, AssessYears, Convert, Rebalance, SkipRebalance, StartHarvest,
           EndHarvest, Fill, CloseSession, Abort, Delist, PayDividend, ForwardSplit, ReverseSplit, HarvestSleeve,
           CorporateAction, taxes
    <3> QED BY <1>2, <3>1
  <2> QED BY <2>1, <2>2
<1> QED BY <1>1, <1>2 DEF ClaimsFirstNow

\* Trading without a trade.
LEMMA NoTrade ==
  ASSUME LedgerInv, lots' = lots, earmark' = earmark, quote' = quote
  PROVE  (Wealth - Wealth') \in 0 .. (Commission * TradedAtMost)
<1> DEFINE none == [t \in Tickers |-> 0]
<1>1. /\ Booked(lots) /\ Booked(lots') /\ quote.price \in [Tickers -> Nat] /\ earmark \in [Sleeves -> Nat]
      /\ Commission \in Nat /\ IsFiniteSet(Tickers) /\ SumFunction(earmark) \in Nat
  BY MoneyAssumption, SleevesFinite, EarmarkSum DEF LedgerInv, LedgerShape, TypeOK, Booked
<1>2. TradeAt(none, none)
  BY <1>1, LotIsAny, QuantityIsUpTo DEF TradeAt, Booked, Marks
<1>3. SumFunctionOnSet(none, Tickers) = 0
  <2>1. \A t \in Tickers : none[t] = 0
    OBVIOUS
  <2> HIDE DEF none
  <2> QED BY <1>1, <2>1, SumOfZeros
<1> HIDE DEF none
<1>4. SumFunction(earmark') = SumFunction(earmark) - SumFunctionOnSet(none, Tickers)
  BY <1>1, <1>3
<1> QED BY <1>1, <1>2, <1>4, WealthLost

\* A trading step costs at most the commission of the shares traded.
LEMMA TradeStep ==
  ASSUME LedgerInv, Next, phase \in {"rebalance", "harvesting", "fill"}
  PROVE  (Wealth - Wealth') \in 0 .. (Commission * TradedAtMost)
<1>1. CASE Rebalance BY <1>1, RebalanceKeeps
<1>2. CASE Fill BY <1>2, FillKeeps
<1>3. ASSUME NEW t \in Tickers, HarvestSleeve(t) PROVE (Wealth - Wealth') \in 0 .. (Commission * TradedAtMost)
  BY <1>3, HarvestKeeps
<1>4. CASE SkipRebalance BY <1>4, NoTrade DEF SkipRebalance, market
<1>5. CASE EndHarvest BY <1>5, NoTrade DEF EndHarvest, market
<1>6. CASE Abort BY <1>6, NoTrade DEF Abort, market
<1>7. Rebalance \/ Fill \/ SkipRebalance \/ EndHarvest \/ Abort \/ \E t \in Tickers : HarvestSleeve(t)
  BY DEF Next, OpenSession, Accrue, SettleDelisted, AssessYears, DepositAndPay, Convert, StartHarvest, CloseSession,
         Delist, PayDividend, ForwardSplit, ReverseSplit, CorporateAction
<1> QED BY <1>1, <1>2, <1>3, <1>4, <1>5, <1>6, <1>7

\* Due taxes are paid before the deposit is converted, and trading loses nothing but
\* commissions, whatever the rebalance, the harvest and the fills do.
THEOREM SessionStepsAreSound == Spec => SessionSteps
<1>1. ASSUME LedgerInv, [Next]_vars
      PROVE  [/\ cash > 0 /\ cash' = 0 => \A y \in Years : DueMonth(y) <= month => pending[y] = 0
              /\ taxesPaid' # taxesPaid => \A y \in Years : DueMonth(y) > month => pending'[y] = pending[y]]_vars
  BY <1>1, ClaimsStep DEF ClaimsFirstNow
<1>2. ASSUME LedgerInv, [Next]_vars
      PROVE  [(phase \in {"rebalance", "harvesting", "fill"})
                => (Wealth - Wealth') \in 0 .. (Commission * TradedAtMost)]_vars
  BY <1>2, TradeStep
<1>3. LedgerInv /\ [Next]_vars =>
        [/\ cash > 0 /\ cash' = 0 => \A y \in Years : DueMonth(y) <= month => pending[y] = 0
         /\ taxesPaid' # taxesPaid => \A y \in Years : DueMonth(y) > month => pending'[y] = pending[y]]_vars
  BY <1>1
<1>4. LedgerInv /\ [Next]_vars =>
        [(phase \in {"rebalance", "harvesting", "fill"})
           => (Wealth - Wealth') \in 0 .. (Commission * TradedAtMost)]_vars
  BY <1>2
<1>5. Spec => TaxClaimsFirst
  BY <1>3, LedgerIsSound, PTL DEF Spec, TaxClaimsFirst
<1>6. Spec => TradesKeepWealth
  BY <1>4, LedgerIsSound, PTL DEF Spec, TradesKeepWealth
<1> QED BY <1>5, <1>6 DEF SessionSteps

\* A harvest leaves the year's net gain within the deduction.
LEMMA HarvestStep ==
  ASSUME LedgerInv, Next, phase = "harvesting", quote.settleFx <= quote.fx
  PROVE  NetOf(YearOf(month))' <= Deduction
<1>1. /\ NetOf(YearOf(month)) = Deduction - harvest.budget + harvest.realized
      /\ harvest.realized <= harvest.budget
      /\ harvest.budget \in Int /\ harvest.realized \in Int /\ Deduction \in Nat
  BY MoneyAssumption DEF LedgerInv, HarvestKept, LedgerShape
<1>2. CASE \E t \in Tickers : HarvestSleeve(t)
  <2>1. PICK t \in Tickers : HarvestSleeve(t)
    BY <1>2
  <2>2. LedgerInv'
    BY <2>1, HarvestKeeps
  <2>3. phase' = "harvesting" /\ quote' = quote
    BY <2>1 DEF HarvestSleeve, market
  <2>4. /\ NetOf(YearOf(month))' = Deduction - harvest'.budget + harvest'.realized
        /\ harvest'.realized <= harvest'.budget
        /\ harvest'.budget \in Int /\ harvest'.realized \in Int
    BY <2>2, <2>3 DEF LedgerInv, HarvestKept, LedgerShape
  <2> QED BY <1>1, <2>4
<1>3. CASE EndHarvest \/ Abort
  BY <1>3, <1>1 DEF EndHarvest, Abort, market, NetOf
<1>4. EndHarvest \/ Abort \/ \E t \in Tickers : HarvestSleeve(t)
  BY DEF Next, OpenSession, Accrue, SettleDelisted, AssessYears, DepositAndPay, Convert, Rebalance, SkipRebalance,
         StartHarvest, Fill, CloseSession, Delist, PayDividend, ForwardSplit, ReverseSplit, CorporateAction
<1> QED BY <1>2, <1>3, <1>4

\* The harvests of a year realize no more than its deduction, whenever the dollar settles
\* no dearer than it traded.
THEOREM HarvestStaysWithin == Spec => HarvestWithinDeduction
<1>1. LedgerInv /\ [Next]_vars =>
        [phase = "harvesting" /\ quote.settleFx <= quote.fx => NetOf(YearOf(month))' <= Deduction]_vars
  BY HarvestStep
<1> QED BY <1>1, LedgerIsSound, PTL DEF Spec, HarvestWithinDeduction

=============================================================================
