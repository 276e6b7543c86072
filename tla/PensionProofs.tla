--------------------------- MODULE PensionProofs ---------------------------
(***************************************************************************)
(* The pension account keeps its plan and its books, and its payments are  *)
(* lawful and complete, for every calendar, plan, holder and market.       *)
(*                                                                         *)
(* The halving search is shown to find the least contribution and the      *)
(* equal parts to add up to it, so the plan keeps its promises when it is  *)
(* made (PlanMade).  Every session then keeps the frame, the count of      *)
(* attempted payouts and the books (AccountInv).  Payments are lawful      *)
(* because the value a year's limit was measured on is still the one on    *)
(* record (Openings), and what was paid and missed is what the attempted   *)
(* years had scheduled (PaidAsScheduled).                                  *)
(*                                                                         *)
(* The evidence a decision rests on follows: the won rate of a campaign    *)
(* (FxInv), its cached figures (CampaignInv) and the selection (SelInv),   *)
(* whose panel telescopes, whose worst ratios are least whatever the       *)
(* order, and whose choice exists.                                         *)
(***************************************************************************)
EXTENDS MCPension, RecursionTheorems

-----------------------------------------------------------------------------
(* The credit on a contribution *)

\* The rates of the pension law are below one.
LEMMA LawFacts ==
  /\ PensionLaw.creditLimit \in Nat /\ PensionLaw.localRate \in 0 .. 99
  /\ PensionLaw.annuityRate \in 0 .. 99 /\ PensionLaw.aboveRate \in 0 .. 99
  /\ \A income \in Nat : CreditRate(income) \in 0 .. 99
BY PensionAssumption DEF PensionLaws, Rates, CreditRate

\* A credit or a tax is less than what it is taken from.
LEMMA WonFacts ==
  ASSUME NEW amount \in Nat, NEW rate \in 0 .. 99
  PROVE  /\ Won(amount, rate) \in Nat
         /\ Won(amount, rate) =< amount
         /\ amount > 0 => Won(amount, rate) < amount
<1>1. amount * rate \in Nat /\ amount * rate =< amount * 99
  OBVIOUS
<1> QED BY <1>1 DEF Won

\* One won more never adds more than one won of credit.
LEMMA WonSteps ==
  ASSUME NEW amount \in Nat, NEW rate \in 0 .. 99
  PROVE  /\ Won(amount, rate) =< Won(amount + 1, rate)
         /\ Won(amount + 1, rate) =< Won(amount, rate) + 1
<1>1. (amount + 1) * rate = amount * rate + rate /\ amount * rate \in Nat
  OBVIOUS
<1> DEFINE x == amount * rate
<1> HIDE DEF x
<1>2. x \div 100 =< (x + rate) \div 100 /\ (x + rate) \div 100 =< x \div 100 + 1
  BY <1>1 DEF x
<1> QED BY <1>1, <1>2 DEF x, Won

\* More principal, no less credit.
LEMMA WonIsMonotone ==
  ASSUME NEW a \in Nat, NEW b \in Nat, a =< b, NEW rate \in 0 .. 99
  PROVE  Won(a, rate) =< Won(b, rate)
<1>1. a * rate \in Int /\ b * rate \in Int /\ a * rate =< b * rate
  BY ProductIsMonotone
<1> QED BY <1>1, QuotientIsMonotone DEF Won

\* A share rounded up is no more than the whole.
LEMMA RoundedUpFacts ==
  ASSUME NEW e \in Nat, NEW part \in Nat, NEW whole \in Nat \ {0}, part =< whole
  PROVE  /\ RoundedUp(e * part, whole) \in Nat
         /\ RoundedUp(e * part, whole) =< e
         /\ part = whole => RoundedUp(e * part, whole) = e
<1>1. e * part \in Nat /\ e * whole \in Nat /\ e * part =< e * whole
  BY ProductIsMonotone
<1> DEFINE x == e * part
           q == (x + whole - 1) \div whole
<1>2. x + whole - 1 \in Nat /\ x + whole - 1 < whole * e + whole
  BY <1>1
<1>3. q \in Nat /\ whole * q =< x + whole - 1
  BY <1>2, Quotient
<1>4. part = whole => e =< q
  <2> HAVE part = whole
  <2>1. whole * e =< x + whole - 1
    BY <1>1
  <2> QED BY <1>2, <2>1, QuotientIsGreatest
<1> HIDE DEF q
<1>5. q =< e
  <2> SUFFICES ASSUME e + 1 =< q PROVE FALSE
    BY <1>3
  <2>1. whole * (e + 1) =< whole * q
    BY <1>3, ProductIsMonotone
  <2> QED BY <1>2, <1>3, <2>1
<1> QED BY <1>3, <1>4, <1>5 DEF q, RoundedUp

Covered(full, local, c) == c.national = full \/ (local > 0 /\ c.local = local)

\* The parts of a credit, and the principal it covers, which never exceeds the
\* contribution.
LEMMA CreditFacts ==
  ASSUME NEW e \in Nat, NEW rate \in 0 .. 99, NEW capacity, capacity.national \in Nat, capacity.local \in Nat,
         NEW full, full = Won(e, rate), NEW local, local = Won(full, PensionLaw.localRate)
  PROVE  /\ Credit(e, rate, capacity).national = Lesser(full, capacity.national)
         /\ Credit(e, rate, capacity).local = Lesser(local, capacity.local)
         /\ Credit(e, rate, capacity).national \in Nat /\ Credit(e, rate, capacity).local \in Nat
         /\ Credit(e, rate, capacity).principal \in Nat /\ Credit(e, rate, capacity).principal =< e
         /\ full > 0 /\ Covered(full, local, Credit(e, rate, capacity)) => Credit(e, rate, capacity).principal = e
<1> DEFINE n == Lesser(full, capacity.national)
           l == Lesser(local, capacity.local)
<1>1. full \in Nat /\ local \in Nat
  BY WonFacts, LawFacts
<1>2. n \in Nat /\ n =< full /\ l \in Nat /\ l =< local
  BY <1>1 DEF Lesser
<1> HIDE DEF n, l
<1> DEFINE byNational == RoundedUp(e * n, full)
           byLocal == RoundedUp(e * l, local)
<1>3. ASSUME full > 0 PROVE byNational \in Nat /\ byNational =< e /\ (n = full => byNational = e)
  <2>1. full \in Nat \ {0} /\ n \in Nat /\ n =< full
    BY <1>1, <1>2, <1>3
  <2> QED BY <2>1, RoundedUpFacts, Zenon
<1>4. ASSUME local > 0 PROVE byLocal \in Nat /\ byLocal =< e /\ (l = local => byLocal = e)
  <2>1. local \in Nat \ {0} /\ l \in Nat /\ l =< local
    BY <1>1, <1>2, <1>4
  <2> QED BY <2>1, RoundedUpFacts, Zenon
<1> DEFINE p == IF full = 0 THEN 0 ELSE Greater(byNational, IF local = 0 THEN 0 ELSE byLocal)
<1>5. Credit(e, rate, capacity) = [national |-> n, local |-> l, principal |-> p]
  BY Zenon DEF Credit, n, l
<1> HIDE DEF byNational, byLocal
<1>6. p \in Nat /\ p =< e /\ (full > 0 /\ n = full => p = e) /\ (full > 0 /\ local > 0 /\ l = local => p = e)
  BY <1>1, <1>2, <1>3, <1>4 DEF Greater
<1> HIDE DEF p
<1> QED BY <1>1, <1>2, <1>5, <1>6 DEF n, l, Covered

\* What the household of a year earns and pays.
LEMMA HolderFacts ==
  ASSUME holder \in Holders
  PROVE  /\ holder.opened \in Days /\ holder.eligible \in Days /\ holder.started \in Days \cup {Never}
         /\ \A y \in Years : /\ holder.years[y].income \in Nat /\ holder.years[y].national \in Nat
                             /\ holder.years[y].local \in Nat /\ holder.other[y] \in Nat
<1>1. holder \in [opened : Days, eligible : Days, started : Days \cup {Never},
                  years : [Years -> [income : Nat, national : Nat, local : Nat]], other : [Years -> Nat]]
  BY HoldersAssumption
<1> QED BY <1>1

\* The credit of a year's contribution.
LEMMA QuoteFacts ==
  ASSUME holder \in Holders, NEW y \in Years, NEW amount \in Nat
  PROVE  /\ QuoteFor(y, amount).national \in Nat /\ QuoteFor(y, amount).local \in Nat
         /\ QuoteFor(y, amount).principal \in Nat /\ QuoteFor(y, amount).principal =< amount
<1> DEFINE e == Lesser(amount, PensionLaw.creditLimit)
           rate == CreditRate(holder.years[y].income)
<1>1. e \in Nat /\ e =< amount
  BY LawFacts DEF Lesser
<1>2. rate \in 0 .. 99
  BY HolderFacts, LawFacts
<1>3. QuoteFor(y, amount) = Credit(e, rate, holder.years[y])
  BY Zenon DEF QuoteFor, OrdinaryCredit
<1> HIDE DEF e, rate
<1>4. /\ Credit(e, rate, holder.years[y]).national \in Nat /\ Credit(e, rate, holder.years[y]).local \in Nat
      /\ Credit(e, rate, holder.years[y]).principal \in Nat /\ Credit(e, rate, holder.years[y]).principal =< e
  BY <1>1, <1>2, HolderFacts, CreditFacts
<1> QED BY <1>1, <1>3, <1>4

\* The credit within the limit, part by part.
LEMMA QuoteIs ==
  ASSUME holder \in Holders, NEW y \in Years, NEW e \in 0 .. PensionLaw.creditLimit
  PROVE  LET rate == CreditRate(holder.years[y].income)
             full == Won(e, rate)
         IN /\ QuoteFor(y, e) = Credit(e, rate, holder.years[y])
            /\ QuoteFor(y, e).national = Lesser(full, holder.years[y].national)
            /\ QuoteFor(y, e).local = Lesser(Won(full, PensionLaw.localRate), holder.years[y].local)
<1>1. Lesser(e, PensionLaw.creditLimit) = e /\ e \in Nat
  BY LawFacts DEF Lesser
<1>2. QuoteFor(y, e) = Credit(e, CreditRate(holder.years[y].income), holder.years[y])
  BY <1>1, Zenon DEF QuoteFor, OrdinaryCredit
<1>3. CreditRate(holder.years[y].income) \in 0 .. 99
  BY HolderFacts, LawFacts
<1> DEFINE rate == CreditRate(holder.years[y].income)
           capacity == holder.years[y]
<1>4. capacity.national \in Nat /\ capacity.local \in Nat
  BY HolderFacts
<1> HIDE DEF rate, capacity
<1>5. /\ Credit(e, rate, capacity).national = Lesser(Won(e, rate), capacity.national)
      /\ Credit(e, rate, capacity).local = Lesser(Won(Won(e, rate), PensionLaw.localRate), capacity.local)
  <2>1. e \in Nat /\ rate \in 0 .. 99
    BY <1>1, <1>3 DEF rate
  <2> DEFINE full == Won(e, rate)
             local == Won(full, PensionLaw.localRate)
  <2>2. full = Won(e, rate) /\ local = Won(full, PensionLaw.localRate)
    OBVIOUS
  <2> HIDE DEF full, local
  <2> QED BY <1>4, <2>1, <2>2, CreditFacts, SMTT(30)
<1> QED BY <1>2, <1>5 DEF rate, capacity

\* A larger contribution earns no less.
LEMMA QuoteIsMonotone ==
  ASSUME holder \in Holders, NEW y \in Years, NEW b \in 0 .. PensionLaw.creditLimit, NEW a \in 0 .. b
  PROVE  /\ QuoteFor(y, a).national =< QuoteFor(y, b).national
         /\ QuoteFor(y, a).local =< QuoteFor(y, b).local
<1> DEFINE rate == CreditRate(holder.years[y].income)
<1>1. rate \in 0 .. 99 /\ PensionLaw.localRate \in 0 .. 99 /\ PensionLaw.creditLimit \in Nat
  BY HolderFacts, LawFacts
<1>2. a \in 0 .. PensionLaw.creditLimit /\ a \in Nat /\ b \in Nat /\ a =< b
  BY <1>1
<1> HIDE DEF rate
<1>3. Won(a, rate) \in Nat /\ Won(b, rate) \in Nat /\ Won(a, rate) =< Won(b, rate)
  BY <1>1, <1>2, WonFacts, WonIsMonotone
<1>4. /\ Won(Won(a, rate), PensionLaw.localRate) \in Nat /\ Won(Won(b, rate), PensionLaw.localRate) \in Nat
      /\ Won(Won(a, rate), PensionLaw.localRate) =< Won(Won(b, rate), PensionLaw.localRate)
  BY <1>1, <1>3, WonFacts, WonIsMonotone
<1>5. /\ QuoteFor(y, a).national = Lesser(Won(a, rate), holder.years[y].national)
      /\ QuoteFor(y, a).local = Lesser(Won(Won(a, rate), PensionLaw.localRate), holder.years[y].local)
      /\ QuoteFor(y, b).national = Lesser(Won(b, rate), holder.years[y].national)
      /\ QuoteFor(y, b).local = Lesser(Won(Won(b, rate), PensionLaw.localRate), holder.years[y].local)
  BY <1>2, QuoteIs DEF rate
<1>6. holder.years[y].national \in Nat /\ holder.years[y].local \in Nat
  BY HolderFacts
<1> QED BY <1>3, <1>4, <1>5, <1>6 DEF Lesser

\* Past a contribution that earns as much as the budget, every one does.
LEMMA SameStaysSame ==
  ASSUME holder \in Holders, NEW y \in Years, NEW budget \in 0 .. PensionLaw.creditLimit,
         NEW b \in 0 .. budget, NEW a \in 0 .. b, SameCredit(QuoteFor(y, a), QuoteFor(y, budget))
  PROVE  SameCredit(QuoteFor(y, b), QuoteFor(y, budget))
<1>1. PensionLaw.creditLimit \in Nat
  BY LawFacts
<1>2. /\ b \in 0 .. PensionLaw.creditLimit /\ a \in 0 .. PensionLaw.creditLimit
      /\ a \in Nat /\ b \in Nat /\ budget \in Nat
  BY <1>1
<1>3. /\ QuoteFor(y, a).national \in Nat /\ QuoteFor(y, a).local \in Nat
      /\ QuoteFor(y, b).national \in Nat /\ QuoteFor(y, b).local \in Nat
      /\ QuoteFor(y, budget).national \in Nat /\ QuoteFor(y, budget).local \in Nat
  BY <1>2, QuoteFacts
<1>4. /\ QuoteFor(y, a).national =< QuoteFor(y, b).national
      /\ QuoteFor(y, a).local =< QuoteFor(y, b).local
  BY <1>2, QuoteIsMonotone
<1>5. /\ QuoteFor(y, b).national =< QuoteFor(y, budget).national
      /\ QuoteFor(y, b).local =< QuoteFor(y, budget).local
  BY <1>2, QuoteIsMonotone
<1> QED BY <1>3, <1>4, <1>5 DEF SameCredit

\* A contribution that earns more than one won less would is credited in full:
\* at one won less neither tax was reduced by its whole capacity.
LEMMA LeastIsCovered ==
  ASSUME holder \in Holders, NEW y \in Years, NEW e \in 1 .. PensionLaw.creditLimit,
         ~ SameCredit(QuoteFor(y, e - 1), QuoteFor(y, e))
  PROVE  QuoteFor(y, e).principal = e
<1> DEFINE rate == CreditRate(holder.years[y].income)
           f == Won(e - 1, rate)
           g == Won(e, rate)
           fl == Won(f, PensionLaw.localRate)
           gl == Won(g, PensionLaw.localRate)
<1>1. /\ rate \in 0 .. 99 /\ PensionLaw.localRate \in 0 .. 99 /\ PensionLaw.creditLimit \in Nat
      /\ holder.years[y].national \in Nat /\ holder.years[y].local \in Nat
  BY HolderFacts, LawFacts
<1>2. e \in Nat /\ e - 1 \in Nat /\ e - 1 + 1 = e /\ e \in 0 .. PensionLaw.creditLimit /\ e - 1 \in 0 .. PensionLaw.creditLimit
  BY <1>1
<1> HIDE DEF rate
<1>3. f \in Nat /\ g \in Nat /\ f =< g /\ g =< f + 1
  BY <1>1, <1>2, WonFacts, WonSteps
<1>4. fl \in Nat /\ gl \in Nat /\ fl =< gl /\ gl =< fl + 1
  <2>1. fl \in Nat /\ gl \in Nat
    BY <1>1, <1>3, WonFacts
  <2>2. Won(f, PensionLaw.localRate) =< Won(f + 1, PensionLaw.localRate) /\ Won(f + 1, PensionLaw.localRate) =< fl + 1
    BY <1>1, <1>3, WonSteps
  <2>3. g = f \/ g = f + 1
    BY <1>3
  <2> QED BY <2>1, <2>2, <2>3
<1>5. /\ QuoteFor(y, e - 1).national = Lesser(f, holder.years[y].national)
      /\ QuoteFor(y, e - 1).local = Lesser(fl, holder.years[y].local)
      /\ QuoteFor(y, e).national = Lesser(g, holder.years[y].national)
      /\ QuoteFor(y, e).local = Lesser(gl, holder.years[y].local)
      /\ QuoteFor(y, e) = Credit(e, rate, holder.years[y])
  BY <1>2, QuoteIs DEF rate
<1> DEFINE c == QuoteFor(y, e)
<1>6. g > 0 /\ Covered(g, gl, c) => c.principal = e
  <2> DEFINE capacity == holder.years[y]
  <2>1. capacity.national \in Nat /\ capacity.local \in Nat
    BY <1>1
  <2>2. c = Credit(e, rate, capacity)
    BY <1>5
  <2> HIDE DEF capacity, c
  <2>3. g > 0 /\ Covered(g, gl, Credit(e, rate, capacity)) => Credit(e, rate, capacity).principal = e
    <3>1. e \in Nat /\ rate \in 0 .. 99 /\ g = Won(e, rate) /\ gl = Won(g, PensionLaw.localRate)
      BY <1>1, <1>2
    <3> HIDE DEF g, gl
    <3> QED BY <3>1, <2>1, CreditFacts
  <2> QED BY <2>2, <2>3
<1>7. g = 0 => gl = 0 /\ f = 0 /\ fl = 0
  <2> HAVE g = 0
  <2>1. gl =< g /\ fl =< f
    BY <1>1, <1>3, WonFacts
  <2> QED BY <1>3, <1>4, <2>1
<1> HIDE DEF f, g, fl, gl, c
<1>8. \/ Lesser(f, holder.years[y].national) # Lesser(g, holder.years[y].national)
      \/ Lesser(fl, holder.years[y].local) # Lesser(gl, holder.years[y].local)
  BY <1>5 DEF SameCredit
<1>9. c.national = Lesser(g, holder.years[y].national) /\ c.local = Lesser(gl, holder.years[y].local)
  BY <1>5 DEF c
<1> DEFINE N == holder.years[y].national
           L == holder.years[y].local
<1>10. N \in Nat /\ L \in Nat
  BY <1>1
<1>11. Lesser(f, N) # Lesser(g, N) \/ Lesser(fl, L) # Lesser(gl, L)
  BY <1>8
<1> HIDE DEF N, L
<1>12. Lesser(f, N) # Lesser(g, N) => g > 0 /\ Lesser(g, N) = g
  BY <1>3, <1>10 DEF Lesser
<1>13. Lesser(fl, L) # Lesser(gl, L) => gl > 0 /\ Lesser(gl, L) = gl
  BY <1>4, <1>10 DEF Lesser
<1>14. gl > 0 => g > 0
  BY <1>3, <1>4, <1>7
<1>15. Covered(g, gl, c) /\ g > 0
  BY <1>9, <1>11, <1>12, <1>13, <1>14 DEF Covered, N, L
<1> QED BY <1>6, <1>15 DEF c

-----------------------------------------------------------------------------
(* The halving search *)

SearchWindows(budget) == (0 .. budget) \X (0 .. budget)
Middle(w) == (w[1] + w[2]) \div 2
Earns(y, amount, budget) == SameCredit(QuoteFor(y, amount), QuoteFor(y, budget))

\* One step of the search, and the function the search defines.
Halve(y, budget, g, w) ==
  IF w[1] >= w[2] THEN w[1]
  ELSE IF Earns(y, Middle(w), budget) THEN g[<<w[1], Middle(w)>>] ELSE g[<<Middle(w) + 1, w[2]>>]
Halving(y, budget) == CHOOSE g : g = [w \in SearchWindows(budget) |-> Halve(y, budget, g, w)]

\* Search unfolds to the halving function.
LEMMA SearchIsHalving ==
  ASSUME NEW y, NEW budget
  PROVE  Search(y, budget) = Halving(y, budget)[<<0, budget>>]
BY Zenon DEF Search, Halving, Halve, SearchWindows, Middle, Earns

\* Both halves of a window are windows.
LEMMA MiddleFacts ==
  ASSUME NEW budget \in Nat, NEW w \in SearchWindows(budget), ~ (w[1] >= w[2])
  PROVE  /\ <<w[1], Middle(w)>> \in SearchWindows(budget) /\ <<Middle(w) + 1, w[2]>> \in SearchWindows(budget)
         /\ w[1] =< Middle(w) /\ Middle(w) < w[2]
<1>1. w[1] \in 0 .. budget /\ w[2] \in 0 .. budget
  BY DEF SearchWindows
<1>2. Middle(w) \in 0 .. budget /\ Middle(w) + 1 \in 0 .. budget /\ w[1] =< Middle(w) /\ Middle(w) < w[2]
  BY <1>1 DEF Middle
<1> QED BY <1>1, <1>2 DEF SearchWindows

\* The windows shrink, so the search has a result.
LEMMA HalvingExists ==
  ASSUME NEW y, NEW budget \in Nat
  PROVE  Halving(y, budget) = [w \in SearchWindows(budget) |-> Halve(y, budget, Halving(y, budget), w)]
<1> DEFINE D == SearchWindows(budget)
           R == 0 .. budget
           m == [w \in D |-> IF w[1] >= w[2] THEN 0 ELSE w[2] - w[1]]
           V == [w \in D |-> [g \in [D -> R] |-> Halve(y, budget, g, w)]]
<1>1. \A w \in D : w[1] \in R /\ w[2] \in R
  BY DEF SearchWindows
<1>2. m \in [D -> 0 .. budget]
  BY <1>1
<1>3. \A w \in D : \A g \in [D -> R] : Halve(y, budget, g, w) \in R
  BY <1>1, MiddleFacts DEF Halve
<1>4. V \in [D -> [[D -> R] -> R]]
  BY <1>3
<1>5. ASSUME NEW w \in D, NEW g \in [D -> R], NEW h \in [D -> R], \A e \in D : m[e] < m[w] => g[e] = h[e]
      PROVE  V[w][g] = V[w][h]
  <2>1. CASE w[1] >= w[2]
    BY <2>1 DEF Halve
  <2>2. CASE ~ (w[1] >= w[2])
    <3> DEFINE low == <<w[1], Middle(w)>>
               high == <<Middle(w) + 1, w[2]>>
    <3>1. low \in D /\ high \in D /\ w[1] =< Middle(w) /\ Middle(w) < w[2] /\ Middle(w) \in Int
      BY <2>2, MiddleFacts DEF SearchWindows
    <3>2. m[low] < m[w] /\ m[high] < m[w]
      BY <1>1, <2>2, <3>1
    <3>3. g[low] = h[low] /\ g[high] = h[high]
      BY <1>5, <3>1, <3>2
    <3>4. Halve(y, budget, g, w) = Halve(y, budget, h, w)
      BY <3>3 DEF Halve
    <3> QED BY <3>4
  <2> QED BY <2>1, <2>2
<1>6. \E g \in [D -> R] : \A w \in D : g[w] = V[w][g]
  <2>1. R # {} /\ budget \in Nat
    OBVIOUS
  <2>2. \A w \in D : \A g, h \in [D -> R] : (\A e \in D : m[e] < m[w] => g[e] = h[e]) => V[w][g] = V[w][h]
    BY <1>5
  <2> HIDE DEF D, R, m, V
  <2>3. m \in [D -> 0 .. budget]
    BY <1>2
  <2>4. RecursOn(D, R, m, V)
    BY <1>4, <2>2 DEF RecursOn
  <2> QED BY <2>1, <2>3, <2>4, RecursionOnMeasure
<1>7. PICK g \in [D -> R] : \A w \in D : g[w] = V[w][g]
  BY <1>6
<1>8. g = [w \in D |-> Halve(y, budget, g, w)]
  <2>1. \A w \in D : g[w] = Halve(y, budget, g, w)
    BY <1>7
  <2> HIDE DEF D, R
  <2> QED BY <2>1
<1>9. \E f : f = [w \in SearchWindows(budget) |-> Halve(y, budget, f, w)]
  BY <1>8
<1> QED BY <1>9, Zenon DEF Halving

\* The search finds the least contribution that earns what the budget would.
THEOREM SearchIsLeast ==
  ASSUME holder \in Holders, NEW y \in Years, NEW budget \in 0 .. PensionLaw.creditLimit
  PROVE  /\ Search(y, budget) \in 0 .. budget
         /\ Earns(y, Search(y, budget), budget)
         /\ \A less \in 0 .. Search(y, budget) - 1 : ~ Earns(y, less, budget)
<1>0. budget \in Nat /\ PensionLaw.creditLimit \in Nat
  BY LawFacts
<1> DEFINE D == SearchWindows(budget)
           g == Halving(y, budget)
           Fits(w) == w[1] =< w[2] /\ Earns(y, w[2], budget) /\ \A less \in 0 .. w[1] - 1 : ~ Earns(y, less, budget)
           Found(w) == g[w] \in 0 .. w[2] /\ Earns(y, g[w], budget) /\ \A less \in 0 .. g[w] - 1 : ~ Earns(y, less, budget)
           Q == {n \in Nat : \A w \in D : w[2] - w[1] < n /\ Fits(w) => Found(w)}
<1>1. \A w \in D : g[w] = Halve(y, budget, g, w)
  <2>1. g = [w \in D |-> Halve(y, budget, g, w)]
    BY <1>0, HalvingExists
  <2> HIDE DEF D, g
  <2> QED BY <2>1
<1>2. 0 \in Q
  BY DEF SearchWindows
<1>3. ASSUME NEW n \in Nat, n \in Q, NEW w \in D, w[2] - w[1] < n + 1, Fits(w) PROVE Found(w)
  <2>0. w[1] \in 0 .. budget /\ w[2] \in 0 .. budget
    BY DEF SearchWindows
  <2>1. CASE w[1] >= w[2]
    <3>1. w[1] = w[2]
      BY <1>3, <2>0, <2>1
    <3>2. g[w] = w[1]
      BY <1>1, <2>1, Zenon DEF Halve
    <3> QED BY <1>3, <2>0, <3>1, <3>2
  <2>2. CASE ~ (w[1] >= w[2])
    <3> DEFINE low == <<w[1], Middle(w)>>
               high == <<Middle(w) + 1, w[2]>>
    <3>1. low \in D /\ high \in D /\ w[1] =< Middle(w) /\ Middle(w) < w[2] /\ Middle(w) \in 0 .. budget
      BY <1>0, <2>2, MiddleFacts DEF SearchWindows
    <3>2. low[1] = w[1] /\ low[2] = Middle(w) /\ high[1] = Middle(w) + 1 /\ high[2] = w[2]
      OBVIOUS
    <3>3. CASE Earns(y, Middle(w), budget)
      <4>1. g[w] = g[low]
        BY <1>1, <2>2, <3>3 DEF Halve
      <4>2. low[2] - low[1] < n /\ Fits(low)
        BY <1>3, <2>0, <2>2, <3>1, <3>2, <3>3
      <4>3. Found(low)
        <5> HIDE DEF low, Fits, Found
        <5> QED BY <1>3, <3>1, <4>2
      <4> QED BY <2>0, <3>1, <3>2, <4>1, <4>3
    <3>4. CASE ~ Earns(y, Middle(w), budget)
      <4>1. g[w] = g[high]
        BY <1>1, <2>2, <3>4 DEF Halve
      <4>2. \A less \in 0 .. Middle(w) : ~ Earns(y, less, budget)
        BY <3>1, <3>4, SameStaysSame DEF Earns
      <4>3. high[2] - high[1] < n /\ Fits(high)
        <5>1. high[2] - high[1] < n /\ high[1] =< high[2] /\ high[1] - 1 = Middle(w)
          BY <1>3, <2>0, <2>2, <3>1, <3>2
        <5> QED BY <1>3, <3>2, <4>2, <5>1
      <4>4. Found(high)
        <5> HIDE DEF high, Fits, Found
        <5> QED BY <1>3, <3>1, <4>3
      <4> QED BY <3>2, <4>1, <4>4
    <3> QED BY <3>3, <3>4
  <2> QED BY <2>1, <2>2
<1>4. \A n \in Nat : n \in Q => n + 1 \in Q
  BY <1>3
<1>5. budget + 1 \in Q
  <2> HIDE DEF Q
  <2> QED BY <1>0, <1>2, <1>4, CountsUp
<1> DEFINE all == <<0, budget>>
<1>6. all \in D /\ all[1] = 0 /\ all[2] = budget
  BY <1>0 DEF SearchWindows
<1>7. Fits(all)
  BY <1>0, <1>6 DEF Earns, SameCredit
<1>8. Found(all)
  <2>1. all[2] - all[1] < budget + 1
    BY <1>0, <1>6
  <2> HIDE DEF all, Fits, Found
  <2> QED BY <1>5, <1>6, <1>7, <2>1
<1>9. Search(y, budget) = g[all]
  BY SearchIsHalving
<1> QED BY <1>6, <1>8, <1>9

-----------------------------------------------------------------------------
(* The calendar *)

\* Intervals are finite.
LEMMA IntervalIsFinite == ASSUME NEW a \in Int, NEW b \in Int PROVE IsFiniteSet(a .. b)
BY FS_Interval

\* There is a first session and a first year.
LEMMA YearFacts ==
  /\ Years \subseteq Nat /\ Days \subseteq Nat /\ IsFiniteSet(Days) /\ IsFiniteSet(Years)
  /\ 1 \in Days /\ 1 \in Years
<1>1. LastYear * SessionsPerYear \in Nat /\ LastYear * SessionsPerYear >= 1
  <2>1. ASSUME NEW a \in Nat \ {0}, NEW b \in Nat \ {0} PROVE a * b \in Nat /\ a * b >= 1
    OBVIOUS
  <2> QED BY <2>1, CalendarAssumption
<1>2. LastYear \in Nat /\ LastYear >= 1
  BY CalendarAssumption
<1>3. IsFiniteSet(Days) /\ IsFiniteSet(Years)
  BY <1>1, <1>2, IntervalIsFinite DEF Days, Years
<1> QED BY <1>1, <1>2, <1>3 DEF Years, Days

\* The sessions of a year are the ones YearOf puts there.
LEMMA CalendarFacts ==
  ASSUME NEW y \in Years
  PROVE  /\ y \in Nat /\ FirstDay(y) \in Days /\ LastDay(y) \in Days
         /\ FirstDay(y) =< LastDay(y) /\ FirstDay(y + 1) = LastDay(y) + 1
         /\ \A d \in FirstDay(y) .. LastDay(y) : d \in Days /\ YearOf(d) = y
<1> DEFINE S == SessionsPerYear
<1>1. y \in 1 .. LastYear /\ LastYear \in Nat /\ S \in Nat /\ S >= 1
  BY CalendarAssumption DEF Years
<1> HIDE DEF S
<1>2. /\ (y - 1) * S \in Nat /\ y * S = (y - 1) * S + S /\ y * S \in Nat /\ LastYear * S \in Nat
      /\ y * S =< LastYear * S /\ (y + 1 - 1) * S = y * S
  BY <1>1
<1>3. FirstDay(y) = (y - 1) * S + 1 /\ LastDay(y) = y * S /\ FirstDay(y + 1) = (y + 1 - 1) * S + 1
  BY <1>1 DEF FirstDay, LastDay, S
<1>4. ASSUME NEW d \in FirstDay(y) .. LastDay(y) PROVE d \in Days /\ YearOf(d) = y
  <2>1. d \in Nat /\ d >= 1 /\ d =< LastYear * S
    BY <1>2, <1>3
  <2>2. d - 1 \in Int /\ (y - 1) * S =< d - 1 /\ d - 1 < (y - 1) * S + S
    BY <1>2, <1>3
  <2>3. (d - 1) \div S = y - 1
    <3> DEFINE q == (d - 1) \div S
    <3>1. q \in Int /\ S * q =< d - 1 /\ d - 1 < S * q + S
      BY <1>1, <2>2, Quotient
    <3>2. S * (y - 1) = (y - 1) * S /\ y - 1 \in Int
      BY <1>1
    <3>3. y - 1 =< q
      BY <1>1, <2>2, <3>2, QuotientIsGreatest
    <3> HIDE DEF q
    <3>4. y =< q => S * y =< S * q
      BY <1>1, <3>1, ProductIsMonotone
    <3>5. S * y = (y - 1) * S + S
      BY <1>1, <1>2
    <3>6. ~ (y =< q)
      BY <1>1, <1>2, <2>2, <3>1, <3>4, <3>5
    <3>7. q = y - 1
      BY <1>1, <3>1, <3>3, <3>6
    <3> QED BY <3>7 DEF q
  <2> QED BY <1>1, <2>1, <2>3 DEF Days, YearOf, S
<1> QED BY <1>1, <1>2, <1>3, <1>4 DEF Days, S

\* A session lies in its year.
LEMMA DayFacts ==
  ASSUME NEW d \in Days
  PROVE  /\ d \in Nat /\ d >= 1 /\ YearOf(d) \in Years
         /\ FirstDay(YearOf(d)) =< d /\ d =< LastDay(YearOf(d))
<1> DEFINE S == SessionsPerYear
           q == (d - 1) \div S
<1>1. LastYear \in Nat /\ S \in Nat /\ S >= 1 /\ LastYear * S \in Nat /\ d \in 1 .. LastYear * S
  BY CalendarAssumption DEF Days
<1> HIDE DEF S
<1>2. d - 1 \in Nat
  BY <1>1
<1>3. q \in Nat /\ S * q =< d - 1 /\ d - 1 < S * q + S
  BY <1>1, <1>2, Quotient
<1>4. YearOf(d) = 1 + q
  BY DEF YearOf, S
<1> HIDE DEF q
<1>5. q < LastYear
  <2> SUFFICES ASSUME LastYear =< q PROVE FALSE
    BY <1>1, <1>3
  <2>1. S * LastYear =< S * q /\ S * LastYear = LastYear * S
    BY <1>1, <1>3, ProductIsMonotone
  <2> QED BY <1>1, <1>3, <2>1
<1>6. (1 + q - 1) * S = S * q /\ (1 + q) * S = S * q + S
  BY <1>1, <1>3
<1> QED BY <1>1, <1>3, <1>4, <1>5, <1>6 DEF Years, FirstDay, LastDay, S

\* A later session is of no earlier year.
LEMMA YearsInOrder ==
  ASSUME NEW d \in Days, NEW e \in Days, d =< e
  PROVE  YearOf(d) =< YearOf(e)
<1>1. d - 1 \in Int /\ e - 1 \in Int /\ d - 1 =< e - 1 /\ SessionsPerYear \in Nat \ {0}
  BY CalendarAssumption, DayFacts
<1>2. (d - 1) \div SessionsPerYear =< (e - 1) \div SessionsPerYear
  BY <1>1, QuotientIsMonotone
<1>3. (d - 1) \div SessionsPerYear \in Int /\ (e - 1) \div SessionsPerYear \in Int
  BY <1>1, Quotient
<1> QED BY <1>2, <1>3 DEF YearOf

-----------------------------------------------------------------------------
(* Sums over days *)

\* A total is the sum over the domain.
LEMMA TotalIsSum == ASSUME NEW f PROVE Total(f) = SumFunctionOnSet(f, DOMAIN f)
BY DEF Total, FoldFunction, SumFunctionOnSet

\* ... and of a restriction, the sum over its set.
LEMMA TotalOver ==
  ASSUME NEW S, IsFiniteSet(S), NEW f
  PROVE  Total([e \in S |-> f[e]]) = SumFunctionOnSet(f, S)
<1> DEFINE g == [e \in S |-> f[e]]
<1>1. DOMAIN g = S /\ \A e \in S : g[e] = f[e]
  OBVIOUS
<1> HIDE DEF g
<1>2. SumFunctionOnSet(g, S) = SumFunctionOnSet(f, S)
  BY <1>1, SumOfEqual
<1>3. Total(g) = SumFunctionOnSet(f, S)
  BY <1>1, <1>2, TotalIsSum
<1> QED BY <1>3 DEF g

\* A running total is the sum up to its session.
LEMMA TotalUpToIs == ASSUME NEW f, NEW d \in Int PROVE TotalUpTo(f, d) = SumFunctionOnSet(f, 1 .. d)
BY TotalOver, IntervalIsFinite DEF TotalUpTo

\* A year's sessions, and those before it, are sessions of the calendar.
LEMMA SessionsFacts ==
  ASSUME NEW y \in Years
  PROVE  /\ IsFiniteSet(FirstDay(y) .. LastDay(y)) /\ FirstDay(y) .. LastDay(y) \subseteq Days
         /\ IsFiniteSet(1 .. FirstDay(y) - 1) /\ 1 .. FirstDay(y) - 1 \subseteq Days
         /\ FirstDay(y) \in Nat /\ LastDay(y) \in Nat /\ FirstDay(y) >= 1
<1>1. FirstDay(y) \in Days /\ LastDay(y) \in Days /\ FirstDay(y) .. LastDay(y) \subseteq Days
  BY CalendarFacts
<1>2. FirstDay(y) \in Nat /\ LastDay(y) \in Nat /\ FirstDay(y) >= 1
  BY <1>1, DayFacts
<1>3. FirstDay(y) - 1 \in Int /\ LastYear * SessionsPerYear \in Int
  BY <1>2, CalendarAssumption
<1>4. 1 .. FirstDay(y) - 1 \subseteq Days
  BY <1>1, <1>2, <1>3 DEF Days
<1>5. IsFiniteSet(FirstDay(y) .. LastDay(y)) /\ IsFiniteSet(1 .. FirstDay(y) - 1)
  BY <1>2, <1>3, IntervalIsFinite
<1> QED BY <1>1, <1>2, <1>4, <1>5

\* Sessions up to one add that one.
LEMMA UpToFacts ==
  ASSUME NEW d \in Days
  PROVE  /\ IsFiniteSet(1 .. d) /\ 1 .. d \subseteq Days
         /\ IsFiniteSet(1 .. d - 1) /\ 1 .. d - 1 \subseteq Days
         /\ 1 .. d = (1 .. d - 1) \cup {d} /\ d \notin 1 .. d - 1
<1>1. d \in Nat /\ d >= 1 /\ LastYear * SessionsPerYear \in Int
  BY DayFacts, CalendarAssumption
<1>2. d - 1 \in Int /\ d =< LastYear * SessionsPerYear
  BY <1>1 DEF Days
<1>3. IsFiniteSet(1 .. d) /\ IsFiniteSet(1 .. d - 1)
  BY <1>1, <1>2, IntervalIsFinite
<1>4. 1 .. d \subseteq Days /\ 1 .. d - 1 \subseteq Days
  BY <1>1, <1>2 DEF Days
<1>5. 1 .. d = (1 .. d - 1) \cup {d} /\ d \notin 1 .. d - 1
  BY <1>1, <1>2
<1> QED BY <1>3, <1>4, <1>5

\* A year's total is the sum over its sessions.
LEMMA TotalInIs == ASSUME NEW f, NEW y \in Years PROVE TotalIn(f, y) = SumFunctionOnSet(f, FirstDay(y) .. LastDay(y))
BY SessionsFacts, TotalOver DEF TotalIn

\* Totals of amounts are amounts.
LEMMA TotalsAreNat ==
  ASSUME NEW f \in [Days -> Nat]
  PROVE  /\ \A d \in Days : TotalUpTo(f, d) \in Nat
         /\ TotalUpTo(f, 0) = 0
         /\ \A y \in Years : TotalIn(f, y) \in Nat
<1>1. ASSUME NEW d \in Days PROVE TotalUpTo(f, d) \in Nat
  <2>1. d \in Int /\ IsFiniteSet(1 .. d) /\ \A e \in 1 .. d : f[e] \in Nat
    BY UpToFacts, DayFacts
  <2>2. SumFunctionOnSet(f, 1 .. d) \in Nat
    BY <2>1, SumIsNat
  <2> QED BY <2>1, <2>2, TotalUpToIs
<1>2. TotalUpTo(f, 0) = 0
  <2>1. 1 .. 0 = {}
    OBVIOUS
  <2> QED BY <2>1, TotalUpToIs, SumOfNone
<1>3. ASSUME NEW y \in Years PROVE TotalIn(f, y) \in Nat
  <2>1. IsFiniteSet(FirstDay(y) .. LastDay(y)) /\ \A e \in FirstDay(y) .. LastDay(y) : f[e] \in Nat
    BY SessionsFacts
  <2>2. SumFunctionOnSet(f, FirstDay(y) .. LastDay(y)) \in Nat
    BY <2>1, SumIsNat
  <2> QED BY <2>2, TotalInIs
<1> QED BY <1>1, <1>2, <1>3

\* A day more, a year more.
LEMMA TotalUpToNext ==
  ASSUME NEW f \in [Days -> Nat], NEW d \in Days
  PROVE  /\ TotalUpTo(f, d) = TotalUpTo(f, d - 1) + f[d]
         /\ TotalUpTo(f, d - 1) \in Nat
<1>1. /\ d \in Int /\ d - 1 \in Int /\ IsFiniteSet(1 .. d - 1) /\ d \notin 1 .. d - 1
      /\ \A e \in 1 .. d - 1 : f[e] \in Nat
      /\ 1 .. d = (1 .. d - 1) \cup {d} /\ \A e \in (1 .. d - 1) \cup {d} : f[e] \in Int
  <2>1. d \in Nat /\ \A e \in Days : f[e] \in Nat
    BY DayFacts
  <2> QED BY <2>1, UpToFacts
<1>2. SumFunctionOnSet(f, (1 .. d - 1) \cup {d}) = SumFunctionOnSet(f, 1 .. d - 1) + f[d]
  BY <1>1, SumOfMore
<1>3. SumFunctionOnSet(f, 1 .. d - 1) \in Nat
  BY <1>1, SumIsNat
<1>4. TotalUpTo(f, d) = SumFunctionOnSet(f, 1 .. d) /\ TotalUpTo(f, d - 1) = SumFunctionOnSet(f, 1 .. d - 1)
  BY <1>1, TotalUpToIs
<1> QED BY <1>1, <1>2, <1>3, <1>4

\* The running total of a year's last session adds the year's.
LEMMA TotalUpToYear ==
  ASSUME NEW f \in [Days -> Nat], NEW y \in Years
  PROVE  /\ TotalUpTo(f, LastDay(y)) = TotalUpTo(f, FirstDay(y) - 1) + TotalIn(f, y)
         /\ TotalUpTo(f, FirstDay(y) - 1) \in Nat
<1> DEFINE A == 1 .. FirstDay(y) - 1
           B == FirstDay(y) .. LastDay(y)
<1>1. FirstDay(y) \in Nat /\ LastDay(y) \in Nat /\ FirstDay(y) >= 1 /\ FirstDay(y) =< LastDay(y)
  BY CalendarFacts, SessionsFacts
<1>2. /\ IsFiniteSet(A) /\ IsFiniteSet(B) /\ A \cap B = {} /\ A \cup B = 1 .. LastDay(y)
      /\ FirstDay(y) - 1 \in Int /\ LastDay(y) \in Int
  BY <1>1, SessionsFacts
<1>3. \A e \in A \cup B : f[e] \in Nat
  BY SessionsFacts
<1>4. SumFunctionOnSet(f, A \cup B) = SumFunctionOnSet(f, A) + SumFunctionOnSet(f, B)
  <2> HIDE DEF A, B
  <2> QED BY <1>2, <1>3, SumOfUnion
<1>5. SumFunctionOnSet(f, A) \in Nat
  BY <1>2, <1>3, SumIsNat
<1>6. /\ TotalUpTo(f, FirstDay(y) - 1) = SumFunctionOnSet(f, A)
      /\ TotalUpTo(f, LastDay(y)) = SumFunctionOnSet(f, A \cup B)
      /\ TotalIn(f, y) = SumFunctionOnSet(f, B)
  BY <1>2, TotalUpToIs, TotalInIs
<1> QED BY <1>4, <1>5, <1>6

-----------------------------------------------------------------------------
(* The contribution plan *)

\* What a plan holds, by session and by year.
LEMMA PlanFacts ==
  ASSUME plan \in Plans
  PROVE  /\ plan.available \in [Days -> Nat] /\ plan.withdrawals \in [Years -> Nat]
         /\ \A y \in Years : /\ TotalIn(plan.available, y) \in Nat
                             /\ plan.withdrawals[y] \in Nat
                             /\ plan.dates[y] \subseteq FirstDay(y) .. LastDay(y)
                             /\ IsFiniteSet(plan.dates[y])
<1>1. plan \in [available : [Days -> Nat], dates : [Years -> SUBSET Days], withdrawals : [Years -> Nat]]
  BY PlansAssumption
<1>2. /\ plan.available \in [Days -> Nat] /\ plan.withdrawals \in [Years -> Nat]
      /\ plan.dates \in [Years -> SUBSET Days]
  BY <1>1
<1>3. ASSUME NEW y \in Years
      PROVE  /\ TotalIn(plan.available, y) \in Nat /\ plan.withdrawals[y] \in Nat
             /\ plan.dates[y] \subseteq FirstDay(y) .. LastDay(y) /\ IsFiniteSet(plan.dates[y])
  <2>1. plan.dates[y] \subseteq Days /\ \A d \in plan.dates[y] : YearOf(d) = y
    BY <1>2, PlansAssumption
  <2>2. ASSUME NEW d \in plan.dates[y] PROVE d \in FirstDay(y) .. LastDay(y)
    <3>1. d \in Nat /\ FirstDay(y) =< d /\ d =< LastDay(y)
      BY <2>1, DayFacts
    <3> QED BY <3>1, SessionsFacts
  <2>3. plan.dates[y] \subseteq FirstDay(y) .. LastDay(y)
    BY <2>2
  <2>4. IsFiniteSet(plan.dates[y])
    BY <2>3, SessionsFacts, FS_Subset
  <2> QED BY <1>2, <2>3, <2>4, TotalsAreNat
<1> QED BY <1>2, <1>3

\* The plan of one year, given the years before it.
YearTotal(y, before) == IF plan.dates[y] = {} THEN 0 ELSE Search(y, Budget(y, before))
PlanYear(g, y) ==
  IF y = 0 THEN [unspent |-> 0, total |-> 0]
  ELSE [unspent |-> g[y - 1].unspent + TotalIn(plan.available, y) - YearTotal(y, g[y - 1].unspent),
        total   |-> YearTotal(y, g[y - 1].unspent)]

\* Planned unfolds to its recursion on the years.
LEMMA PlannedIs == Planned = CHOOSE g : g = [y \in 0 .. LastYear |-> PlanYear(g, y)]
BY Zenon DEF Planned, PlanYear, YearTotal

\* A year contributes no more than it has.
LEMMA YearTotalFacts ==
  ASSUME plan \in Plans, holder \in Holders, NEW y \in Years, NEW before \in Nat
  PROVE  /\ Budget(y, before) \in 0 .. PensionLaw.creditLimit
         /\ Budget(y, before) =< before + TotalIn(plan.available, y)
         /\ YearTotal(y, before) \in 0 .. Budget(y, before)
         /\ before + TotalIn(plan.available, y) - YearTotal(y, before) \in Nat
<1>1. TotalIn(plan.available, y) \in Nat /\ PensionLaw.creditLimit \in Nat
  BY PlanFacts, LawFacts
<1>2. Budget(y, before) \in 0 .. PensionLaw.creditLimit /\ Budget(y, before) =< before + TotalIn(plan.available, y)
  BY <1>1 DEF Budget, Lesser
<1>3. Search(y, Budget(y, before)) \in 0 .. Budget(y, before)
  BY <1>2, SearchIsLeast
<1>4. YearTotal(y, before) \in 0 .. Budget(y, before)
  BY <1>2, <1>3 DEF YearTotal
<1> QED BY <1>1, <1>2, <1>4

\* The recursion on the years has a solution.
LEMMA PlannedExists ==
  ASSUME plan \in Plans, holder \in Holders
  PROVE  /\ Planned \in [0 .. LastYear -> [unspent : Nat, total : Nat]]
         /\ \A y \in 0 .. LastYear : Planned[y] = PlanYear(Planned, y)
<1> DEFINE D == 0 .. LastYear
           R == [unspent : Nat, total : Nat]
           m == [y \in D |-> y]
           V == [y \in D |-> [g \in [D -> R] |-> PlanYear(g, y)]]
<1>0. LastYear \in Nat
  BY CalendarAssumption
<1>1. \A y \in D : y # 0 => y \in Years /\ y - 1 \in D /\ m[y - 1] < m[y]
  BY <1>0 DEF Years
<1>2. ASSUME NEW y \in D, NEW g \in [D -> R] PROVE PlanYear(g, y) \in R
  <2>1. CASE y = 0
    BY <2>1 DEF PlanYear
  <2>2. CASE y # 0
    <3> DEFINE before == g[y - 1].unspent
    <3>1. y \in Years /\ before \in Nat
      BY <1>1, <2>2
    <3>2. /\ YearTotal(y, before) \in 0 .. Budget(y, before)
          /\ Budget(y, before) \in 0 .. PensionLaw.creditLimit
          /\ before + TotalIn(plan.available, y) - YearTotal(y, before) \in Nat
      BY <3>1, YearTotalFacts
    <3>3. YearTotal(y, before) \in Nat
      BY <3>2
    <3> QED BY <2>2, <3>2, <3>3 DEF PlanYear
  <2> QED BY <2>1, <2>2
<1>3. ASSUME NEW y \in D, NEW g \in [D -> R], NEW h \in [D -> R], \A e \in D : m[e] < m[y] => g[e] = h[e]
      PROVE  V[y][g] = V[y][h]
  <2>1. y # 0 => g[y - 1] = h[y - 1]
    BY <1>1, <1>3
  <2>2. PlanYear(g, y) = PlanYear(h, y)
    BY <2>1 DEF PlanYear
  <2> QED BY <2>2
<1>4. \E g \in [D -> R] : \A y \in D : g[y] = V[y][g]
  <2>1. R # {} /\ LastYear \in Nat /\ m \in [D -> 0 .. LastYear]
    <3>1. [unspent |-> 0, total |-> 0] \in R
      OBVIOUS
    <3> QED BY <1>0, <3>1
  <2>2. \A y \in D : \A g, h \in [D -> R] : (\A e \in D : m[e] < m[y] => g[e] = h[e]) => V[y][g] = V[y][h]
    BY <1>3
  <2>3. V \in [D -> [[D -> R] -> R]]
    BY <1>2
  <2> HIDE DEF D, R, m, V
  <2>4. RecursOn(D, R, m, V)
    BY <2>2, <2>3 DEF RecursOn
  <2> QED BY <2>1, <2>4, RecursionOnMeasure
<1>5. PICK g \in [D -> R] : \A y \in D : g[y] = V[y][g]
  BY <1>4
<1>6. g = [y \in D |-> PlanYear(g, y)]
  <2>1. \A y \in D : g[y] = PlanYear(g, y)
    BY <1>5
  <2> QED BY <2>1
<1>7. Planned = [y \in D |-> PlanYear(Planned, y)]
  BY <1>6, PlannedIs, Zenon
<1>8. \A y \in D : Planned[y] = PlanYear(Planned, y)
  BY <1>7
<1>9. Planned \in [D -> R]
  <2> DEFINE Q == {n \in Nat : n \in D => Planned[n] \in R}
  <2>1. 0 \in Q
    <3>1. PlanYear(Planned, 0) \in R
      BY DEF PlanYear
    <3> QED BY <1>0, <1>8, <3>1
  <2>2. ASSUME NEW n \in Nat, n \in Q PROVE n + 1 \in Q
    <3>1. CASE n + 1 \in D
      <4> DEFINE y == n + 1
                 before == Planned[y - 1].unspent
      <4>1. y \in Years /\ y # 0 /\ y - 1 = n /\ n \in D
        BY <1>0, <3>1 DEF Years
      <4>2. before \in Nat
        BY <2>2, <4>1
      <4>3. /\ YearTotal(y, before) \in 0 .. Budget(y, before)
            /\ Budget(y, before) \in 0 .. PensionLaw.creditLimit
            /\ before + TotalIn(plan.available, y) - YearTotal(y, before) \in Nat
        BY <4>1, <4>2, YearTotalFacts
      <4>4. YearTotal(y, before) \in Nat
        BY <4>3
      <4>5. PlanYear(Planned, y) \in R
        BY <4>1, <4>3, <4>4 DEF PlanYear
      <4> QED BY <1>8, <3>1, <4>5
    <3>2. CASE n + 1 \notin D
      BY <3>2
    <3> QED BY <3>1, <3>2
  <2>3. \A n \in Nat : n \in Q
    <3> HIDE DEF Q
    <3> QED BY <2>1, <2>2, CountsUp
  <2>4. \A y \in D : Planned[y] \in R
    BY <2>3
  <2> QED BY <1>7, <2>4
<1> QED BY <1>8, <1>9

\* What the plan of a year is made of.
LEMMA PlannedFacts ==
  ASSUME plan \in Plans, holder \in Holders, NEW y \in Years,
         NEW before, before = Planned[y - 1].unspent
  PROVE  /\ before \in Nat
         /\ Budget(y, before) \in 0 .. PensionLaw.creditLimit
         /\ Planned[y].total \in Nat /\ Planned[y].total =< Budget(y, before)
         /\ Planned[y].total = YearTotal(y, before)
         /\ Planned[y].unspent = before + TotalIn(plan.available, y) - Planned[y].total
         /\ Planned[0].unspent = 0
<1>1. y - 1 \in 0 .. LastYear /\ y \in 0 .. LastYear /\ y # 0 /\ 0 \in 0 .. LastYear
  BY CalendarAssumption DEF Years
<1>2. /\ before \in Nat /\ Planned[y].total \in Nat
      /\ Planned[y] = PlanYear(Planned, y) /\ Planned[0] = PlanYear(Planned, 0)
  BY <1>1, PlannedExists
<1>3. /\ Planned[y].total = YearTotal(y, before)
      /\ Planned[y].unspent = before + TotalIn(plan.available, y) - Planned[y].total
      /\ Planned[0].unspent = 0
  BY <1>1, <1>2 DEF PlanYear
<1>4. Budget(y, before) \in 0 .. PensionLaw.creditLimit /\ YearTotal(y, before) \in 0 .. Budget(y, before)
  BY <1>2, YearTotalFacts
<1> QED BY <1>2, <1>3, <1>4

-----------------------------------------------------------------------------
(* A year's total in equal parts *)

\* Intervals from zero are finite.
LEMMA IntervalOfNat == ASSUME NEW n \in Nat PROVE IsFiniteSet(0 .. n)
<1>1. 0 \in Int /\ n \in Int
  OBVIOUS
<1> QED BY <1>1, IntervalIsFinite

\* A finite set of numbers has a greatest one.
LEMMA GreatestOfSome ==
  ASSUME NEW N \in Nat, NEW T \in SUBSET (0 .. N), T # {}
  PROVE  \E x \in T : \A z \in T : z =< x
<1>1. IsFiniteSet(0 .. N) /\ 0 .. N \subseteq Int
  BY IntervalOfNat
<1>2. IsFiniteSet(T) /\ T \subseteq Int
  BY <1>1, FS_Subset
<1> QED BY <1>2, ExtremesOf

Before(T, d) == {e \in T : e < d}
EqualPart(T, q, r) == [d \in T |-> q + (IF Cardinality(Before(T, d)) < r THEN 1 ELSE 0)]

\* Fewer dates precede a date than there are.
LEMMA BeforeFacts ==
  ASSUME NEW N \in Nat, NEW T \in SUBSET (0 .. N), NEW d \in T
  PROVE  /\ IsFiniteSet(T) /\ IsFiniteSet(Before(T, d))
         /\ Cardinality(Before(T, d)) \in Nat /\ Cardinality(T) \in Nat
         /\ Cardinality(Before(T, d)) < Cardinality(T)
<1>1. IsFiniteSet(T)
  BY IntervalOfNat, FS_Subset
<1>2. Before(T, d) \subseteq T /\ Before(T, d) # T
  BY DEF Before
<1> QED BY <1>1, <1>2, FS_Subset, FS_CardinalityType

\* Equal parts and one more for the first: together the whole.
THEOREM EqualPartsAddUp ==
  ASSUME NEW N \in Nat, NEW S \in SUBSET (0 .. N), NEW q \in Nat, NEW r \in 0 .. Cardinality(S)
  PROVE  SumFunctionOnSet(EqualPart(S, q, r), S) = q * Cardinality(S) + r
<1>0. IsFiniteSet(S)
  BY IntervalOfNat, FS_Subset
<1> DEFINE Q == {T \in SUBSET S : \A k \in 0 .. Cardinality(T) :
                   SumFunctionOnSet(EqualPart(T, q, k), T) = q * Cardinality(T) + k}
<1>1. ASSUME NEW T \in SUBSET S, \A x \in T : T \ {x} \in Q PROVE T \in Q
  <2>1. CASE T = {}
    <3>1. Cardinality(T) = 0 /\ q * 0 = 0
      BY <2>1, FS_EmptySet
    <3>2. ASSUME NEW k \in 0 .. Cardinality(T) PROVE SumFunctionOnSet(EqualPart(T, q, k), T) = q * Cardinality(T) + k
      BY <2>1, <3>1, SumOfNone
    <3> QED BY <3>2
  <2>2. CASE T # {}
    <3>0. T \in SUBSET (0 .. N) /\ IsFiniteSet(T)
      BY <1>0, FS_Subset
    <3>1. PICK x \in T : \A z \in T : z =< x
      BY <2>2, <3>0, GreatestOfSome
    <3> DEFINE U == T \ {x}
               n == Cardinality(U)
    <3>2. IsFiniteSet(U) /\ n \in Nat /\ Cardinality(T) = n + 1 /\ U \in SUBSET (0 .. N) /\ U \in Q
      <4>1. U \in Q
        BY <1>1
      <4> HIDE DEF Q
      <4>2. U \in SUBSET (0 .. N)
        BY <3>0
      <4>3. IsFiniteSet(U) /\ Cardinality(U) = Cardinality(T) - 1
        BY <3>0, FS_RemoveElement
      <4>4. Cardinality(U) \in Nat /\ Cardinality(T) \in Nat
        BY <3>0, <4>3, FS_CardinalityType
      <4> QED BY <4>1, <4>2, <4>3, <4>4
    <3>3. Before(T, x) = U
      <4>1. ASSUME NEW z \in T PROVE z < x <=> z # x
        <5>1. z \in Nat /\ x \in Nat /\ z =< x
          BY <3>0, <3>1
        <5> QED BY <5>1
      <4> QED BY <4>1 DEF Before
    <3>4. ASSUME NEW e \in U PROVE Before(T, e) = Before(U, e) /\ Cardinality(Before(U, e)) < n
                                   /\ Cardinality(Before(U, e)) \in Nat
      <4>1. ~ (x < e)
        <5>1. e \in Nat /\ x \in Nat /\ e =< x
          BY <3>0, <3>1
        <5> QED BY <5>1
      <4> HIDE DEF n
      <4>2. Before(T, e) = Before(U, e)
        BY <4>1 DEF Before
      <4> QED BY <3>2, <4>2, BeforeFacts DEF n
    <3>5. ASSUME NEW k \in 0 .. Cardinality(T)
          PROVE  SumFunctionOnSet(EqualPart(T, q, k), T) = q * Cardinality(T) + k
      <4> DEFINE j == IF k =< n THEN k ELSE n
                 f == EqualPart(T, q, k)
                 g == EqualPart(U, q, j)
      <4>1. k \in Nat /\ j \in 0 .. n /\ k = j + (IF n < k THEN 1 ELSE 0)
        BY <3>2
      <4>2. f[x] = q + (IF n < k THEN 1 ELSE 0) /\ f[x] \in Int
        BY <3>3 DEF EqualPart
      <4>3. ASSUME NEW e \in U PROVE f[e] = g[e] /\ f[e] \in Int
        <5> HIDE DEF n
        <5>1. f[e] = q + (IF Cardinality(Before(U, e)) < k THEN 1 ELSE 0)
              /\ g[e] = q + (IF Cardinality(Before(U, e)) < j THEN 1 ELSE 0)
          BY <3>4 DEF EqualPart
        <5>2. Cardinality(Before(U, e)) < k <=> Cardinality(Before(U, e)) < j
          BY <3>2, <3>4, <4>1
        <5> QED BY <5>1, <5>2
      <4>4. SumFunctionOnSet(g, U) = q * n + j
        BY <3>2, <4>1
      <4> HIDE DEF f, g, n, j
      <4>5. SumFunctionOnSet(f, U) = SumFunctionOnSet(g, U)
        BY <3>2, <4>3, SumOfEqual
      <4>6. SumFunctionOnSet(f, T) = f[x] + SumFunctionOnSet(f, T \ {x})
        <5>1. \A e \in T : f[e] \in Int
          BY <4>2, <4>3
        <5> QED BY <3>0, <5>1, SumWithout
      <4>7. q * (n + 1) = q * n + q /\ q * n \in Nat
        BY <3>2
      <4>8. SumFunctionOnSet(f, T) = q * (n + 1) + k
        BY <3>2, <4>1, <4>2, <4>4, <4>5, <4>6, <4>7
      <4> QED BY <3>2, <4>8 DEF f, n
    <3> QED BY <3>5
  <2> QED BY <2>1, <2>2
<1>2. S \in Q
  <2> HIDE DEF Q
  <2> QED BY <1>0, <1>1, SubsetInduction
<1> QED BY <1>2

Parts == [d \in Days |-> Part(d)]

\* A year's dates receive its total in equal parts.
LEMMA PartIs ==
  ASSUME plan \in Plans, holder \in Holders, NEW y \in Years, NEW d \in Days, YearOf(d) = y,
         NEW T, T = plan.dates[y], NEW n, n = Cardinality(T), NEW total, total = Planned[y].total
  PROVE  Part(d) = IF d \notin T THEN 0 ELSE EqualPart(T, total \div n, total % n)[d]
<1>1. d \in T => EqualPart(T, total \div n, total % n)[d]
                 = (total \div n) + (IF Cardinality({e \in T : e < d}) < total % n THEN 1 ELSE 0)
  BY DEF EqualPart, Before
<1>2. Part(d) = IF d \notin T THEN 0
                ELSE (total \div n) + (IF Cardinality({e \in T : e < d}) < total % n THEN 1 ELSE 0)
  BY Zenon DEF Part
<1> QED BY <1>1, <1>2

\* The parts of a year add up to its total.
LEMMA PartsFacts ==
  ASSUME plan \in Plans, holder \in Holders
  PROVE  /\ Parts \in [Days -> Nat]
         /\ \A y \in Years : TotalIn(Parts, y) = Planned[y].total
<1>1. ASSUME NEW y \in Years
      PROVE  /\ TotalIn(Parts, y) = Planned[y].total
             /\ \A d \in FirstDay(y) .. LastDay(y) : Part(d) \in Nat
  <2> DEFINE T == plan.dates[y]
             I == FirstDay(y) .. LastDay(y)
             n == Cardinality(T)
             total == Planned[y].total
             q == total \div n
             r == total % n
             before == Planned[y - 1].unspent
  <2>1. /\ T \subseteq I /\ IsFiniteSet(T) /\ IsFiniteSet(I) /\ n \in Nat /\ I \subseteq Days
        /\ LastDay(y) \in Nat /\ FirstDay(y) \in Nat /\ T \in SUBSET (0 .. LastDay(y))
    BY PlanFacts, SessionsFacts, FS_CardinalityType
  <2>2. total \in Nat /\ total = YearTotal(y, before)
    BY PlannedFacts
  <2>3. \A d \in I : YearOf(d) = y
    BY CalendarFacts
  <2>4. \A d \in I : Parts[d] = Part(d)
    BY <2>1 DEF Parts
  <2>5. TotalIn(Parts, y) = SumFunctionOnSet(Parts, I)
    BY TotalInIs
  <2> HIDE DEF I
  <2>6. CASE T = {}
    <3>1. ASSUME NEW d \in I PROVE Part(d) = 0
      <4>1. d \in Days /\ YearOf(d) = y
        BY <2>1, <2>3
      <4> QED BY <2>6, <4>1, PartIs
    <3>2. SumFunctionOnSet(Parts, I) = 0
      BY <2>1, <2>4, <3>1, SumOfZeros
    <3>3. total = 0
      BY <2>2, <2>6 DEF YearTotal
    <3> QED BY <2>5, <3>1, <3>2, <3>3 DEF I
  <2>7. CASE T # {}
    <3>0. n \in Nat \ {0}
      BY <2>1, <2>7, FS_EmptySet
    <3>1. q \in Nat /\ r \in 0 .. n - 1 /\ total = q * n + r
      <4> HIDE DEF n, total
      <4> QED BY <2>2, <3>0
    <3>2. ASSUME NEW d \in I PROVE Part(d) = IF d \notin T THEN 0 ELSE EqualPart(T, q, r)[d]
      <4>1. d \in Days /\ YearOf(d) = y
        BY <2>1, <2>3
      <4> QED BY <4>1, PartIs
    <3>3. ASSUME NEW d \in T PROVE EqualPart(T, q, r)[d] \in Nat
      <4> HIDE DEF n, q, r
      <4> QED BY <3>1 DEF EqualPart
    <3> HIDE DEF q, r, total, T, n
    <3>4. \A d \in I : Part(d) \in Nat
      BY <3>2, <3>3
    <3>5. SumFunctionOnSet(EqualPart(T, q, r), T) = q * n + r
      <4>1. r \in 0 .. Cardinality(T)
        BY <3>0, <3>1 DEF n
      <4> QED BY <2>1, <3>1, <4>1, EqualPartsAddUp DEF n
    <3>6. SumFunctionOnSet(Parts, T) = SumFunctionOnSet(EqualPart(T, q, r), T)
      <4>1. \A d \in T : Parts[d] = EqualPart(T, q, r)[d]
        BY <2>1, <2>4, <3>2
      <4> QED BY <2>1, <4>1, SumOfEqual
    <3>7. SumFunctionOnSet(Parts, I \ T) = 0
      <4>1. IsFiniteSet(I \ T)
        BY <2>1, FS_Difference
      <4>2. \A d \in I \ T : Parts[d] = 0
        BY <2>4, <3>2
      <4> QED BY <4>1, <4>2, SumOfZeros
    <3>8. SumFunctionOnSet(Parts, T \cup (I \ T)) = SumFunctionOnSet(Parts, T) + SumFunctionOnSet(Parts, I \ T)
      <4>1. IsFiniteSet(I \ T) /\ T \cap (I \ T) = {} /\ \A d \in T \cup (I \ T) : Parts[d] \in Int
        <5>1. IsFiniteSet(I \ T)
          BY <2>1, FS_Difference
        <5>2. \A d \in I : Parts[d] \in Int
          BY <2>4, <3>4
        <5> QED BY <2>1, <5>1, <5>2
      <4> QED BY <2>1, <4>1, SumOfUnion
    <3>9. T \cup (I \ T) = I
      BY <2>1
    <3>10. SumFunctionOnSet(Parts, I) = q * n + r
      <4>1. q * n + r \in Nat
        BY <2>2, <3>1
      <4>2. SumFunctionOnSet(Parts, I) = SumFunctionOnSet(Parts, T) + SumFunctionOnSet(Parts, I \ T)
        BY <3>8, <3>9
      <4>3. SumFunctionOnSet(Parts, T) = q * n + r
        BY <3>5, <3>6
      <4> QED BY <3>7, <4>1, <4>2, <4>3
    <3>11. total = SumFunctionOnSet(Parts, I)
      BY <3>1, <3>10
    <3> QED BY <2>5, <3>4, <3>11 DEF total, I
  <2> QED BY <2>6, <2>7
<1>2. ASSUME NEW d \in Days PROVE Part(d) \in Nat
  <2>1. YearOf(d) \in Years /\ d \in FirstDay(YearOf(d)) .. LastDay(YearOf(d))
    BY DayFacts, SessionsFacts
  <2> QED BY <1>1, <2>1
<1> QED BY <1>1, <1>2 DEF Parts

\* What the years before left unspent: what arrived, less what was planned.
LEMMA UnspentIs ==
  ASSUME plan \in Plans, holder \in Holders, NEW y \in Years
  PROVE  Planned[y - 1].unspent = TotalUpTo(plan.available, FirstDay(y) - 1) - TotalUpTo(Parts, FirstDay(y) - 1)
<1> DEFINE a(n) == TotalUpTo(plan.available, n)
           p(n) == TotalUpTo(Parts, n)
           Q == {n \in Nat : n + 1 \in Years => Planned[n].unspent = a(FirstDay(n + 1) - 1) - p(FirstDay(n + 1) - 1)}
<1>0. plan.available \in [Days -> Nat] /\ Parts \in [Days -> Nat] /\ \A z \in Years : TotalIn(Parts, z) = Planned[z].total
  BY PlanFacts, PartsFacts
<1>1. 0 \in Q
  <2>1. 0 + 1 = 1 /\ 1 \in Years
    BY YearFacts
  <2>2. Planned[0].unspent = 0
    BY <2>1, PlannedFacts
  <2>3. FirstDay(1) - 1 = 0
    BY CalendarAssumption DEF FirstDay
  <2>4. a(0) = 0 /\ p(0) = 0
    BY <1>0, TotalsAreNat
  <2> QED BY <2>1, <2>2, <2>3, <2>4
<1>2. ASSUME NEW n \in Nat, n \in Q PROVE n + 1 \in Q
  <2>1. CASE n + 1 + 1 \in Years
    <3> DEFINE z == n + 1
    <3>1. z \in Years /\ z - 1 = n
      BY <2>1, CalendarAssumption DEF Years
    <3>2. FirstDay(z + 1) - 1 = LastDay(z)
      BY <3>1, CalendarFacts, SessionsFacts
    <3>3. /\ Planned[n].unspent \in Nat /\ Planned[z].total \in Nat
          /\ Planned[z].unspent = Planned[n].unspent + TotalIn(plan.available, z) - Planned[z].total
      BY <3>1, PlannedFacts
    <3>4. /\ a(LastDay(z)) = a(FirstDay(z) - 1) + TotalIn(plan.available, z)
          /\ p(LastDay(z)) = p(FirstDay(z) - 1) + Planned[z].total
          /\ a(FirstDay(z) - 1) \in Nat /\ p(FirstDay(z) - 1) \in Nat /\ TotalIn(plan.available, z) \in Nat
      BY <1>0, <3>1, TotalUpToYear, TotalsAreNat
    <3>5. Planned[n].unspent = a(FirstDay(z) - 1) - p(FirstDay(z) - 1)
      BY <1>2, <3>1
    <3> HIDE DEF a, p
    <3>6. Planned[z].unspent = a(LastDay(z)) - p(LastDay(z))
      BY <3>3, <3>4, <3>5
    <3>7. Planned[z].unspent = a(FirstDay(z + 1) - 1) - p(FirstDay(z + 1) - 1)
      BY <3>2, <3>6
    <3> QED BY <3>7
  <2>2. CASE n + 1 + 1 \notin Years
    BY <2>2
  <2> QED BY <2>1, <2>2
<1>3. \A n \in Nat : n \in Q
  <2> HIDE DEF Q
  <2> QED BY <1>1, <1>2, CountsUp
<1>4. y - 1 \in Nat /\ y - 1 + 1 = y
  BY DEF Years
<1> QED BY <1>3, <1>4

\* What the plan promises about the events it makes.
PlanMade ==
  /\ \A y \in Years : plan.dates[y] # {} =>
       LET unspent == TotalUpTo(plan.available, FirstDay(y) - 1) - TotalUpTo(events, FirstDay(y) - 1)
           total == TotalIn(events, y)
           most == QuoteFor(y, Budget(y, unspent))
       IN /\ total <= Budget(y, unspent)
          /\ SameCredit(QuoteFor(y, total), most)
          /\ \A less \in 0 .. total - 1 : ~SameCredit(QuoteFor(y, less), most)
  /\ \A d \in Days : TotalUpTo(events, d) =< TotalUpTo(plan.available, d)
  /\ \A d \in Days : CreditedPart(d) = events[d]

\* ... lasts as long as the plan, its holder and the events.
LEMMA PlanLasts ==
  ASSUME plan' = plan, holder' = holder, events' = events
  PROVE  PlanMade => PlanMade'
BY ZenonT(40) DEF PlanMade, TotalUpTo, TotalIn, QuoteFor, CreditedPart, Quote, Budget, SameCredit

\* A plan that is allowed keeps its promises.
LEMMA AllowedPlanIsMade ==
  ASSUME plan \in Plans, holder \in Holders, Allowed, events' = Parts, plan' = plan, holder' = holder
  PROVE  PlanMade' /\ events' \in [Days -> Nat]
<1>0. /\ Parts \in [Days -> Nat] /\ plan.available \in [Days -> Nat]
      /\ \A y \in Years : TotalIn(Parts, y) = Planned[y].total
  BY PartsFacts, PlanFacts
<1>1. ASSUME NEW y \in Years, plan.dates[y] # {},
             NEW unspent, unspent = TotalUpTo(plan.available, FirstDay(y) - 1) - TotalUpTo(Parts, FirstDay(y) - 1),
             NEW total, total = TotalIn(Parts, y)
      PROVE  /\ Budget(y, unspent) \in 0 .. PensionLaw.creditLimit
             /\ total \in 0 .. Budget(y, unspent)
             /\ Earns(y, total, Budget(y, unspent))
             /\ \A less \in 0 .. total - 1 : ~ Earns(y, less, Budget(y, unspent))
  <2>1. unspent = Planned[y - 1].unspent /\ total = Planned[y].total
    BY <1>0, <1>1, UnspentIs
  <2>2. Budget(y, unspent) \in 0 .. PensionLaw.creditLimit /\ total = Search(y, Budget(y, unspent))
    BY <1>1, <2>1, PlannedFacts DEF YearTotal
  <2> QED BY <2>2, SearchIsLeast
<1>2. ASSUME NEW d \in Days PROVE TotalUpTo(Parts, d) =< TotalUpTo(plan.available, d)
  <2> DEFINE Q == {n \in Nat : n \in Days => TotalUpTo(Parts, n) =< TotalUpTo(plan.available, n)}
  <2>1. 0 \in Q
    BY DayFacts
  <2>2. ASSUME NEW n \in Nat, n \in Q PROVE n + 1 \in Q
    <3>1. CASE n + 1 \in Days
      <4> DEFINE e == n + 1
      <4>1. /\ TotalUpTo(Parts, e) = TotalUpTo(Parts, n) + Parts[e]
            /\ TotalUpTo(plan.available, e) = TotalUpTo(plan.available, n) + plan.available[e]
            /\ TotalUpTo(Parts, n) \in Nat /\ TotalUpTo(plan.available, n) \in Nat
            /\ Parts[e] \in Nat /\ plan.available[e] \in Nat
        <5>1. e - 1 = n
          OBVIOUS
        <5> QED BY <1>0, <3>1, <5>1, TotalUpToNext
      <4>2. CASE Part(e) > 0
        <5>1. Total([x \in 1 .. e |-> Part(x)]) =< TotalUpTo(plan.available, e)
          BY <3>1, <4>2 DEF Allowed
        <5>2. [x \in 1 .. e |-> Part(x)] = [x \in 1 .. e |-> Parts[x]]
          <6>1. \A x \in 1 .. e : Parts[x] = Part(x)
            BY <3>1, UpToFacts DEF Parts
          <6> QED BY <6>1
        <5>3. TotalUpTo(Parts, e) = Total([x \in 1 .. e |-> Part(x)])
          BY <5>2 DEF TotalUpTo
        <5> QED BY <5>1, <5>3
      <4>3. CASE ~ (Part(e) > 0)
        <5>1. Parts[e] = 0
          BY <3>1, <4>1, <4>3 DEF Parts
        <5>2. TotalUpTo(Parts, n) =< TotalUpTo(plan.available, n)
          <6>1. CASE n \in Days
            BY <2>2, <6>1
          <6>2. CASE n \notin Days
            <7>1. n = 0
              <8>1. LastYear * SessionsPerYear \in Int
                BY CalendarAssumption
              <8> QED BY <3>1, <6>2, <8>1 DEF Days
            <7> QED BY <1>0, <7>1, TotalsAreNat
          <6> QED BY <6>1, <6>2
        <5> QED BY <4>1, <5>1, <5>2
      <4> QED BY <4>2, <4>3
    <3>2. CASE n + 1 \notin Days
      BY <3>2
    <3> QED BY <3>1, <3>2
  <2>3. \A n \in Nat : n \in Q
    <3> HIDE DEF Q
    <3> QED BY <2>1, <2>2, CountsUp
  <2> QED BY <2>3, DayFacts
<1>3. ASSUME NEW y \in Years, NEW total, total = TotalIn(Parts, y), total # 0
      PROVE  QuoteFor(y, total).principal = total
  <2> DEFINE unspent == TotalUpTo(plan.available, FirstDay(y) - 1) - TotalUpTo(Parts, FirstDay(y) - 1)
             most == Budget(y, unspent)
  <2>1. total \in Nat
    BY <1>0, <1>3, TotalsAreNat
  <2>2. plan.dates[y] # {}
    BY <1>0, <1>3, PlannedFacts DEF YearTotal
  <2>3. /\ most \in 0 .. PensionLaw.creditLimit /\ total \in 0 .. most
        /\ Earns(y, total, most) /\ \A less \in 0 .. total - 1 : ~ Earns(y, less, most)
    BY <1>1, <1>3, <2>2
  <2> HIDE DEF most
  <2>4. total \in 1 .. PensionLaw.creditLimit /\ ~ Earns(y, total - 1, most)
    BY <1>3, <2>1, <2>3, LawFacts
  <2>5. ~ SameCredit(QuoteFor(y, total - 1), QuoteFor(y, total))
    BY <2>3, <2>4 DEF Earns, SameCredit
  <2> QED BY <2>4, <2>5, LeastIsCovered
<1>4. ASSUME NEW d \in Days,
             NEW y, y = YearOf(d), NEW year, year = TotalIn(Parts, y),
             NEW before, before = Total([e \in FirstDay(y) .. d - 1 |-> Parts[e]]),
             NEW principal, principal = QuoteFor(y, year).principal
      PROVE  (IF year = 0 THEN 0
              ELSE ((before + Parts[d]) * principal) \div year - (before * principal) \div year) = Parts[d]
  <2>1. y \in Years /\ d \in FirstDay(y) .. LastDay(y) /\ year \in Nat /\ Parts[d] \in Nat
    <3>1. y \in Years /\ year \in Nat /\ Parts[d] \in Nat
      BY <1>0, <1>4, DayFacts, TotalsAreNat
    <3>2. d \in FirstDay(y) .. LastDay(y)
      BY <1>4, <3>1, DayFacts, SessionsFacts
    <3> QED BY <3>1, <3>2
  <2>2. CASE year = 0
    <3>1. \A e \in FirstDay(y) .. LastDay(y) : Parts[e] \in Nat
      BY <1>0, <2>1, SessionsFacts
    <3>2. Parts[d] =< year
      BY <1>4, <2>1, <3>1, SessionsFacts, TotalInIs, SumBoundsTerms
    <3> QED BY <2>1, <2>2, <3>2
  <2>3. CASE year # 0
    <3>1. principal = year /\ year \in Nat \ {0}
      BY <1>3, <1>4, <2>1, <2>3
    <3>2. before \in Int
      <4>1. FirstDay(y) .. d - 1 \subseteq FirstDay(y) .. LastDay(y)
        BY <2>1, SessionsFacts, DayFacts
      <4>2. IsFiniteSet(FirstDay(y) .. d - 1) /\ \A e \in FirstDay(y) .. d - 1 : Parts[e] \in Int
        <5>1. IsFiniteSet(FirstDay(y) .. d - 1)
          BY <2>1, <4>1, SessionsFacts, FS_Subset
        <5>2. FirstDay(y) .. d - 1 \subseteq Days
          BY <2>1, <4>1, SessionsFacts
        <5> QED BY <1>0, <5>1, <5>2
      <4>3. before = SumFunctionOnSet(Parts, FirstDay(y) .. d - 1)
        BY <1>4, <4>2, TotalOver
      <4> QED BY <4>2, <4>3, SumIsInt
    <3>3. before + Parts[d] \in Int
      BY <2>1, <3>2
    <3>4. (before * year) \div year = before /\ ((before + Parts[d]) * year) \div year = before + Parts[d]
      BY <3>1, <3>2, <3>3, QuotientOfProduct
    <3> QED BY <2>1, <2>3, <3>1, <3>2, <3>4
  <2> QED BY <2>2, <2>3
<1>5. \A d \in Days : CreditedPart(d)' = events'[d]
  BY <1>4 DEF CreditedPart, Quote, QuoteFor, TotalIn
<1>6. \A y \in Years : plan.dates[y] # {} =>
       LET unspent == TotalUpTo(plan.available, FirstDay(y) - 1) - TotalUpTo(Parts, FirstDay(y) - 1)
           total == TotalIn(Parts, y)
           most == QuoteFor(y, Budget(y, unspent))
       IN /\ total <= Budget(y, unspent)
          /\ SameCredit(QuoteFor(y, total), most)
          /\ \A less \in 0 .. total - 1 : ~SameCredit(QuoteFor(y, less), most)
  BY <1>1 DEF Earns
<1>7. \A d \in Days : TotalUpTo(Parts, d) =< TotalUpTo(plan.available, d)
  BY <1>2
<1>8. PlanMade'
  BY <1>5, <1>6, <1>7, ZenonT(40) DEF PlanMade, TotalUpTo, TotalIn, QuoteFor, Budget, SameCredit
<1> QED BY <1>0, <1>8

-----------------------------------------------------------------------------
(* The frame: calendar, plan and phases *)

Framed ==
  /\ plan \in Plans /\ holder \in Holders /\ day \in Days
  /\ phase \in {"plan", "market", "contribute", "execute", "open", "payout", "snapshot", "done", "stopped"}
  /\ events \in [Days -> Nat]
  /\ phase = "plan" => day = 1 /\ events = [d \in Days |-> 0]
  /\ phase \notin {"plan", "stopped"} => PlanMade
  /\ LeastContribution

\* Nothing is planned at first.
LEMMA FramedInitially == Init => Framed
<1> SUFFICES ASSUME Init PROVE Framed
  OBVIOUS
<1>1. [d \in Days |-> 0] \in [Days -> Nat] /\ 1 \in Days
  BY YearFacts
<1>2. LeastContribution
  BY DEF LeastContribution, Init
<1> QED BY <1>1, <1>2 DEF Framed, Init

\* Only the first session's market follows the plan.
LEMMA FramedStep ==
  ASSUME Framed, [Next]_vars
  PROVE  Framed'
<1>1. CASE PlanContributions
  <2>1. Allowed /\ phase = "plan" /\ phase' = "market" /\ plan' = plan /\ holder' = holder /\ day' = day /\ day = 1
    BY <1>1 DEF PlanContributions, Framed
  <2>2. events' = Parts
    BY <1>1 DEF PlanContributions, Parts
  <2>3. PlanMade' /\ events' \in [Days -> Nat]
    BY <2>1, <2>2, AllowedPlanIsMade DEF Framed
  <2>4. LeastContribution'
    BY <2>3 DEF LeastContribution, PlanMade
  <2> QED BY <2>1, <2>3, <2>4 DEF Framed
<1>2. CASE RejectPlan
  <2>1. phase' = "stopped" /\ UNCHANGED <<plan, holder, day, events>>
    BY <1>2 DEF RejectPlan, config
  <2>2. LeastContribution'
    BY <2>1 DEF LeastContribution
  <2> QED BY <2>1, <2>2 DEF Framed
<1>3. ASSUME UNCHANGED <<plan, holder, events>>, phase \notin {"plan", "stopped"}, day' \in Days,
             phase' \in {"contribute", "execute", "open", "payout", "snapshot", "done", "stopped"}
                \/ (phase' = "market" /\ day' # 1)
      PROVE  Framed'
  <2>1. PlanMade'
    BY <1>3, PlanLasts DEF Framed
  <2>2. LeastContribution'
    BY <1>3 DEF LeastContribution
  <2> QED BY <1>3, <2>1, <2>2 DEF Framed
<1>4. CASE Market
  BY <1>3, <1>4 DEF Market, config, Framed
<1>5. CASE Contribute
  BY <1>3, <1>5 DEF Contribute, config, Framed
<1>6. CASE Execute
  BY <1>3, <1>6 DEF Execute, config, Framed
<1>7. CASE OpenYear
  BY <1>3, <1>7 DEF OpenYear, config, Framed
<1>8. CASE Payout
  BY <1>3, <1>8 DEF Payout, config, Framed
<1>9. CASE NoPayout
  BY <1>3, <1>9 DEF NoPayout, config, Framed
<1>10. CASE RefusePayout
  BY <1>3, <1>10 DEF RefusePayout, config, Framed
<1>11. CASE Snapshot
  <2>1. phase = "snapshot" /\ UNCHANGED <<plan, holder, events>>
    BY <1>11 DEF Snapshot, config
  <2>2. (day + 1 \in Days /\ day' = day + 1 /\ phase' = "market") \/ (day' = day /\ phase' = "done")
    BY <1>11 DEF Snapshot
  <2>3. day \in Nat /\ day >= 1
    BY DayFacts DEF Framed
  <2>4. day' \in Days /\ (phase' = "done" \/ (phase' = "market" /\ day' # 1))
    BY <2>2, <2>3 DEF Framed
  <2> QED BY <1>3, <2>1, <2>4
<1>12. CASE UNCHANGED vars
  <2>1. UNCHANGED <<plan, holder, phase, day, events>>
    BY <1>12 DEF vars
  <2>2. PlanMade => PlanMade'
    BY <2>1, PlanLasts
  <2>3. LeastContribution'
    <3>1. phase' = "market" => PlanMade'
      BY <2>1, <2>2 DEF Framed
    <3> QED BY <3>1 DEF LeastContribution, PlanMade
  <2> QED BY <2>1, <2>2, <2>3 DEF Framed
<1> QED BY <1>1, <1>2, <1>4, <1>5, <1>6, <1>7, <1>8, <1>9, <1>10, <1>11, <1>12 DEF Next

\* Between the planning and the last session the events are the plan that was
\* checked: the least that earns each year's credit, never above the cash that has
\* arrived, every won of it credited (pension_engine.py:245-303).
THEOREM PlansAreKept == Spec => []Framed
<1>1. Init => Framed
  BY FramedInitially
<1>2. Framed /\ [Next]_vars => Framed'
  BY FramedStep
<1> QED BY <1>1, <1>2, PTL DEF Spec

-----------------------------------------------------------------------------
(* Payments attempted *)

\* The sessions whose payout is behind the account, and the years that had one.
Passed(d) == d < day \/ (d = day /\ phase \in {"snapshot", "done"})
DueIn(y) == PayoutDay(LastDay(y)) /\ Eligible(LastDay(y))
Attempts == {y \in Years : DueIn(y) /\ Passed(LastDay(y))}

Attempted ==
  /\ attempted \in 0 .. LastYear
  /\ phase # "stopped" => attempted = Cardinality(Attempts)

\* A set of years is finite and no larger than the horizon.
LEMMA SomeYears ==
  ASSUME NEW S \in SUBSET Years
  PROVE  IsFiniteSet(S) /\ Cardinality(S) \in 0 .. LastYear
<1>1. LastYear \in Nat /\ IsFiniteSet(Years) /\ Cardinality(Years) = LastYear
  <2>1. LastYear \in Int /\ 1 \in Int /\ LastYear \in Nat /\ LastYear >= 1
    BY CalendarAssumption
  <2>2. IsFiniteSet(1 .. LastYear) /\ Cardinality(1 .. LastYear) = IF 1 > LastYear THEN 0 ELSE LastYear - 1 + 1
    BY <2>1, FS_Interval
  <2> QED BY <2>1, <2>2 DEF Years
<1>2. IsFiniteSet(S) /\ Cardinality(S) =< Cardinality(Years)
  BY <1>1, FS_Subset
<1>3. Cardinality(S) \in Nat
  BY <1>2, FS_CardinalityType
<1> QED BY <1>1, <1>2, <1>3

\* A session that is due is the last of its year.
LEMMA DueDay ==
  ASSUME day \in Days, NEW y, y = YearOf(day)
  PROVE  /\ y \in Years
         /\ Due => day = LastDay(y) /\ DueIn(y)
         /\ \A z \in Years : LastDay(z) = day => z = y
         /\ \A z \in Years : DueIn(z) /\ LastDay(z) = day => Due
<1>1. y \in Years
  BY DayFacts
<1>2. Due => day = LastDay(y) /\ DueIn(y)
  BY DEF Due, PayoutDay, DueIn
<1>3. ASSUME NEW z \in Years, LastDay(z) = day PROVE z = y /\ (DueIn(z) => Due)
  <2>1. LastDay(z) \in FirstDay(z) .. LastDay(z)
    BY CalendarFacts, SessionsFacts
  <2>2. YearOf(day) = z
    BY <1>3, <2>1, CalendarFacts
  <2> QED BY <1>3, <2>2 DEF Due, DueIn
<1> QED BY <1>1, <1>2, <1>3

\* A year ends with a session.
LEMMA LastDayIsNat == \A y \in Years : LastDay(y) \in Nat /\ LastDay(y) \in Days
BY SessionsFacts, CalendarFacts

\* Attempts stay when no due session passes.
LEMMA AttemptsLast ==
  ASSUME Framed, UNCHANGED <<plan, holder>>,
         \A y \in Years : DueIn(y) => (Passed(LastDay(y))' <=> Passed(LastDay(y)))
  PROVE  Attempts' = Attempts
<1>1. \A y \in Years : DueIn(y)' <=> DueIn(y)
  BY DEF DueIn, PayoutDay, Eligible
<1> QED BY <1>1 DEF Attempts

\* The counter counts the attempted years, one more for every payout.
LEMMA AttemptedStep ==
  ASSUME Framed, Attempted, [Next]_vars
  PROVE  /\ Attempted'
         /\ Payout => Attempts' = Attempts \cup {YearOf(day)} /\ YearOf(day) \notin Attempts /\ YearOf(day) \in Years
         /\ ~ Payout /\ phase' # "stopped" => Attempts' = Attempts
<1>0. day \in Days /\ day \in Nat /\ Attempts \in SUBSET Years /\ Attempts' \in SUBSET Years
  BY DayFacts DEF Framed, Attempts
<1>1. ASSUME UNCHANGED <<plan, holder, day, attempted>>, phase # "stopped", phase' # "stopped",
             phase \in {"snapshot", "done"} <=> phase' \in {"snapshot", "done"}
      PROVE  Attempted' /\ Attempts' = Attempts
  <2>1. \A y \in Years : Passed(LastDay(y))' <=> Passed(LastDay(y))
    BY <1>1 DEF Passed, LastDay
  <2>2. Attempts' = Attempts
    BY <1>1, <2>1, AttemptsLast
  <2> QED BY <1>1, <2>2 DEF Attempted
<1>2. CASE PlanContributions \/ Market \/ Contribute \/ Execute \/ OpenYear
  <2>1. ~ Payout
    BY <1>2 DEF Payout, PlanContributions, Market, Contribute, Execute, OpenYear
  <2>2. /\ UNCHANGED <<plan, holder, day, attempted>> /\ phase # "stopped" /\ phase' # "stopped"
        /\ phase \notin {"snapshot", "done"} /\ phase' \notin {"snapshot", "done"}
    BY <1>2 DEF PlanContributions, Market, Contribute, Execute, OpenYear, config, paid
  <2> QED BY <1>1, <2>1, <2>2
<1>3. CASE RejectPlan \/ RefusePayout
  <2>1. phase' = "stopped" /\ attempted' = attempted /\ ~ Payout
    BY <1>3 DEF RejectPlan, RefusePayout, paid, Payout
  <2> QED BY <2>1 DEF Attempted
<1>4. CASE Payout
  <2>1. /\ phase = "payout" /\ phase' = "snapshot" /\ Due /\ attempted' = attempted + 1
        /\ UNCHANGED <<plan, holder, day>>
    BY <1>4 DEF Payout, config
  <2> DEFINE y == YearOf(day)
  <2>2. y \in Years /\ DueIn(y) /\ day = LastDay(y) /\ \A z \in Years : LastDay(z) = day => z = y
    BY <1>0, <2>1, DueDay
  <2>3. \A z \in Years : DueIn(z)' <=> DueIn(z)
    BY <2>1 DEF DueIn, PayoutDay, Eligible
  <2>4. \A z \in Years : Passed(LastDay(z)) <=> LastDay(z) < day
    BY <2>1 DEF Passed
  <2>5. \A z \in Years : Passed(LastDay(z))' <=> LastDay(z) < day \/ z = y
    BY <2>1, <2>2 DEF Passed, LastDay
  <2> HIDE DEF y
  <2>6. y \notin Attempts
    BY <1>0, <2>2, <2>4 DEF Attempts
  <2>7. Attempts' = Attempts \cup {y}
    BY <2>2, <2>3, <2>4, <2>5 DEF Attempts
  <2>8. Cardinality(Attempts') = Cardinality(Attempts) + 1
    BY <1>0, <2>6, <2>7, SomeYears, FS_AddElement
  <2>9. attempted' = Cardinality(Attempts')
    BY <2>1, <2>8 DEF Attempted
  <2>10. attempted' \in 0 .. LastYear
    BY <1>0, <2>9, SomeYears
  <2> QED BY <1>4, <2>1, <2>2, <2>6, <2>7, <2>9, <2>10 DEF Attempted, y
<1>5. CASE NoPayout
  <2>1. /\ phase = "payout" /\ phase' = "snapshot" /\ ~ Due /\ UNCHANGED <<plan, holder, day, attempted>> /\ ~ Payout
    BY <1>5 DEF NoPayout, config, paid, Payout
  <2>2. \A z \in Years : DueIn(z) => LastDay(z) # day
    BY <1>0, <2>1, DueDay
  <2>3. \A z \in Years : DueIn(z) => (Passed(LastDay(z))' <=> Passed(LastDay(z)))
    BY <2>1, <2>2 DEF Passed, LastDay
  <2>4. Attempts' = Attempts
    BY <2>1, <2>3, AttemptsLast
  <2> QED BY <2>1, <2>4 DEF Attempted
<1>6. CASE Snapshot
  <2>1. /\ phase = "snapshot" /\ phase' # "stopped" /\ UNCHANGED <<plan, holder, attempted>> /\ ~ Payout
        /\ (day' = day + 1 /\ phase' = "market") \/ (day' = day /\ phase' = "done")
    BY <1>6 DEF Snapshot, config, paid, Payout
  <2>2. \A z \in Years : Passed(LastDay(z))' <=> Passed(LastDay(z))
    <3>1. ASSUME NEW z \in Years PROVE Passed(LastDay(z))' <=> Passed(LastDay(z))
      <4> DEFINE l == LastDay(z)
      <4>1. l \in Nat /\ LastDay(z)' = l
        BY LastDayIsNat DEF LastDay
      <4> HIDE DEF l
      <4>2. (l < day \/ l = day) <=> Passed(l)
        BY <2>1 DEF Passed
      <4>3. (l < day \/ l = day) <=> (l < day' \/ (l = day' /\ phase' \in {"snapshot", "done"}))
        BY <1>0, <2>1, <4>1
      <4> QED BY <4>1, <4>2, <4>3 DEF Passed, l
    <3> QED BY <3>1
  <2>3. Attempts' = Attempts
    BY <2>1, <2>2, AttemptsLast
  <2> QED BY <2>1, <2>3 DEF Attempted
<1>7. CASE UNCHANGED vars
  <2>1. UNCHANGED <<plan, holder, day, phase, attempted>> /\ ~ Payout
    BY <1>7 DEF vars, Payout
  <2>2. \A z \in Years : Passed(LastDay(z))' <=> Passed(LastDay(z))
    BY <2>1 DEF Passed, LastDay
  <2>3. Attempts' = Attempts
    BY <2>1, <2>2, AttemptsLast
  <2> QED BY <2>1, <2>3 DEF Attempted
<1> QED BY <1>2, <1>3, <1>4, <1>5, <1>6, <1>7 DEF Next

-----------------------------------------------------------------------------
(* Sums over payments and promised distributions *)

GrossOf(P) == MapThenSumSet(Gross, P)

\* What was paid is a sum over the payments.
LEMMA GrossIsSum ==
  ASSUME NEW P, IsFiniteSet(P)
  PROVE  GrossOf(P) = SumFunctionOnSet([p \in P |-> p.gross], P)
<1>1. GrossOf(P) = Total([p \in P |-> p.gross])
  BY ZenonT(40) DEF GrossOf, Total, Gross, MapThenSumSet, FoldFunction, FoldFunctionOnSet, MapThenFoldSet
<1> QED BY <1>1, TotalIsSum

\* No payment, nothing paid.
LEMMA GrossOfNone == GrossOf({}) = 0
<1>1. IsFiniteSet({})
  BY FS_EmptySet
<1> QED BY <1>1, GrossIsSum, SumOfNone

\* Payments add up to an amount.
LEMMA GrossIsNat ==
  ASSUME NEW P, IsFiniteSet(P), \A p \in P : p.gross \in Nat
  PROVE  GrossOf(P) \in Nat
<1>1. \A p \in P : [q \in P |-> q.gross][p] \in Nat
  OBVIOUS
<1> QED BY <1>1, GrossIsSum, SumIsNat

\* A new payment adds its gross.
LEMMA GrossOfMore ==
  ASSUME NEW P, IsFiniteSet(P), NEW a, a \notin P, \A p \in P \cup {a} : p.gross \in Nat
  PROVE  IsFiniteSet(P \cup {a}) /\ GrossOf(P \cup {a}) = GrossOf(P) + a.gross
<1> DEFINE f == [p \in P |-> p.gross]
           g == [p \in P \cup {a} |-> p.gross]
<1>1. IsFiniteSet(P \cup {a})
  BY FS_AddElement
<1>2. \A p \in P : g[p] = f[p]
  OBVIOUS
<1>3. \A p \in P \cup {a} : g[p] \in Int
  OBVIOUS
<1>4. g[a] = a.gross
  OBVIOUS
<1>5. GrossOf(P) = SumFunctionOnSet(f, P) /\ GrossOf(P \cup {a}) = SumFunctionOnSet(g, P \cup {a})
  BY <1>1, GrossIsSum
<1> HIDE DEF f, g
<1>6. SumFunctionOnSet(g, P) = SumFunctionOnSet(f, P)
  BY <1>2, SumOfEqual
<1>7. SumFunctionOnSet(g, P \cup {a}) = SumFunctionOnSet(g, P) + g[a]
  BY <1>3, SumOfMore
<1> QED BY <1>1, <1>4, <1>5, <1>6, <1>7

\* A single payment is its gross.
LEMMA GrossOfOne ==
  ASSUME NEW a, a.gross \in Nat
  PROVE  GrossOf({a}) = a.gross
<1>1. IsFiniteSet({}) /\ {} \cup {a} = {a} /\ a \notin {}
  BY FS_EmptySet
<1>2. GrossOf({} \cup {a}) = GrossOf({}) + a.gross
  BY <1>1, GrossOfMore
<1> QED BY <1>1, <1>2, GrossOfNone

\* What is promised in a session falls due on a pay day.
LEMMA PayDaysFacts ==
  /\ IsFiniteSet(PayDays) /\ PayLag \in Nat
  /\ \A d \in Days : d \in PayDays /\ d + PayLag \in PayDays
<1>1. PayLag \in Nat /\ LastYear * SessionsPerYear \in Nat
  BY MarketAssumption, CalendarAssumption
<1>2. LastYear * SessionsPerYear + PayLag \in Int /\ 1 \in Int
  BY <1>1
<1>3. IsFiniteSet(PayDays)
  BY <1>2, IntervalIsFinite DEF PayDays
<1> QED BY <1>1, <1>3 DEF Days, PayDays

\* One changed entry changes the total by as much.
LEMMA TotalOfChanged ==
  ASSUME NEW S, IsFiniteSet(S), NEW f \in [S -> Nat], NEW g \in [S -> Nat], NEW a \in S,
         \A x \in S : x # a => g[x] = f[x]
  PROVE  /\ Total(f) \in Nat /\ Total(g) \in Nat /\ f[a] \in Nat /\ g[a] \in Nat
         /\ Total(g) = Total(f) - f[a] + g[a]
<1>1. \A x \in S : f[x] \in Nat /\ g[x] \in Nat
  OBVIOUS
<1>2. \A x \in S : f[x] \in Int /\ g[x] \in Int
  BY <1>1
<1>3. SumFunctionOnSet(g, S) = SumFunctionOnSet(f, S) - f[a] + g[a]
  BY <1>2, SumOfChanged
<1>4. Total(f) = SumFunctionOnSet(f, S) /\ Total(g) = SumFunctionOnSet(g, S)
  BY TotalIsSum
<1>5. SumFunctionOnSet(f, S) \in Nat /\ SumFunctionOnSet(g, S) \in Nat
  BY <1>1, SumIsNat
<1> QED BY <1>1, <1>3, <1>4, <1>5

\* Promising more and paying one session's promises.
LEMMA PromisesPaid ==
  ASSUME NEW S, IsFiniteSet(S), NEW r \in [S -> Nat], NEW promised \in [S -> Nat], NEW after \in [S -> Nat],
         NEW e \in S, NEW d \in S, NEW owed \in Nat,
         promised[e] = r[e] + owed, \A x \in S : x # e => promised[x] = r[x],
         after[d] = 0, \A x \in S : x # d => after[x] = promised[x]
  PROVE  /\ promised[d] \in Nat /\ Total(r) \in Nat /\ Total(after) \in Nat
         /\ Total(after) + promised[d] = Total(r) + owed
<1>1. Total(promised) = Total(r) - r[e] + promised[e] /\ Total(r) \in Nat /\ r[e] \in Nat
  BY TotalOfChanged
<1>2. Total(after) = Total(promised) - promised[d] + after[d] /\ Total(after) \in Nat /\ promised[d] \in Nat
  BY TotalOfChanged
<1> QED BY <1>1, <1>2

\* A session's new promise and its payments leave the receivables accounted for.
LEMMA MarketPromises ==
  ASSUME day \in Days, receivables \in [PayDays -> Nat], NEW owed \in Nat
  PROVE  /\ AfterPaying([receivables EXCEPT ![day + PayLag] = @ + owed]) \in [PayDays -> Nat]
         /\ [receivables EXCEPT ![day + PayLag] = @ + owed][day] \in Nat
         /\ Total(receivables) \in Nat
         /\ Total(AfterPaying([receivables EXCEPT ![day + PayLag] = @ + owed])) \in Nat
         /\ Total(AfterPaying([receivables EXCEPT ![day + PayLag] = @ + owed]))
            + [receivables EXCEPT ![day + PayLag] = @ + owed][day] = Total(receivables) + owed
<1> DEFINE promised == [receivables EXCEPT ![day + PayLag] = @ + owed]
           after == AfterPaying(promised)
           e == day + PayLag
<1>1. day \in PayDays /\ e \in PayDays /\ IsFiniteSet(PayDays)
  BY PayDaysFacts
<1>2. promised \in [PayDays -> Nat] /\ promised[e] = receivables[e] + owed
      /\ \A x \in PayDays : x # e => promised[x] = receivables[x]
  BY <1>1
<1>3. after = [promised EXCEPT ![day] = 0]
  BY DEF AfterPaying
<1> HIDE DEF promised
<1>4. after \in [PayDays -> Nat] /\ after[day] = 0 /\ \A x \in PayDays : x # day => after[x] = promised[x]
  BY <1>1, <1>2, <1>3
<1> HIDE DEF after, e
<1>5. /\ promised[day] \in Nat /\ Total(receivables) \in Nat /\ Total(after) \in Nat
      /\ Total(after) + promised[day] = Total(receivables) + owed
  BY <1>1, <1>2, <1>4, PromisesPaid, SMTT(40)
<1> QED BY <1>4, <1>5 DEF promised, after

-----------------------------------------------------------------------------
(* The books *)

Contributing == phase \in {"plan", "market", "contribute"}

Booked ==
  /\ price \in Prices /\ cash \in Nat /\ units \in Nat /\ receivables \in [PayDays -> Nat]
  /\ contributed \in Nat /\ credited \in Nat /\ fees \in Nat /\ gain \in Int
  /\ opening \in [Years -> Nat \cup {-1}]
  /\ navs \in Seq(Nat) /\ Len(navs) =< day
  /\ phase # "stopped" => Len(navs) = IF phase = "done" THEN day ELSE day - 1
  /\ IsFiniteSet(payouts)
  /\ \A p \in payouts : p.day \in Days /\ p.gross \in Nat /\ p.free \in 0 .. p.gross /\ p.tax \in 0 .. 2 * p.gross
  /\ phase # "stopped" => \A p \in payouts : Passed(p.day)
  /\ shortfalls \in [Days -> Nat]
  /\ AccountConserved
  /\ PlanFullyCredited
  /\ ContributionsFunded
  /\ phase # "stopped" => contributed = TotalUpTo(events, IF Contributing THEN day - 1 ELSE day)

\* Units cost something, and their parts divide exactly.
LEMMA PriceFacts ==
  ASSUME price \in Prices
  PROVE  /\ price \in Nat \ {0} /\ UnitScale % price = 0 /\ UnitScale \in Nat \ {0}
         /\ (price * CostRate) \div 100 \in Nat /\ UnitCost \in Nat \ {0}
         /\ UnitCost = price + (price * CostRate) \div 100
<1>1. price \in Nat \ {0} /\ UnitScale % price = 0 /\ UnitScale \in Nat \ {0} /\ CostRate \in Nat
  BY MarketAssumption
<1>2. price * CostRate \in Nat
  BY <1>1
<1>3. (price * CostRate) \div 100 \in Nat
  BY <1>2
<1> QED BY <1>1, <1>3 DEF UnitCost

\* Payments, receivables and the account's value are amounts.
LEMMA PaidOutFacts ==
  ASSUME Booked
  PROVE  /\ PaidOut = GrossOf(payouts) /\ PaidOut \in Nat
         /\ Receivable \in Nat /\ Nav \in Nat
<1>1. IsFiniteSet(payouts) /\ \A p \in payouts : p.gross \in Nat
  BY DEF Booked
<1>2. GrossOf(payouts) \in Nat
  BY <1>1, GrossIsNat
<1>3. PaidOut = GrossOf(payouts)
  BY DEF PaidOut, GrossOf
<1>4. Receivable \in Nat
  <2>1. DOMAIN receivables = PayDays /\ \A d \in PayDays : receivables[d] \in Nat
    BY DEF Booked
  <2> QED BY <2>1, PayDaysFacts, TotalIsSum, SumIsNat DEF Receivable
<1>5. Nav \in Nat
  <2>1. price \in Nat \ {0} /\ UnitScale \in Nat \ {0} /\ cash \in Nat /\ units \in Nat
    BY PriceFacts DEF Booked
  <2> DEFINE x == Scaled(cash + Receivable) + units * price
  <2>2. x \in Nat
    <3>1. cash + Receivable \in Nat
      BY <1>4, <2>1
    <3>2. Scaled(cash + Receivable) \in Nat /\ units * price \in Nat
      BY <2>1, <3>1, ProductIsNat DEF Scaled
    <3> QED BY <3>2
  <2> HIDE DEF x
  <2>3. x \div UnitScale \in Nat
    BY <2>1, <2>2, Quotient
  <2> QED BY <2>3 DEF Nav, x
<1> QED BY <1>2, <1>3, <1>4, <1>5

\* The account opens empty.
LEMMA BookedInitially == Init => Booked
<1> SUFFICES ASSUME Init PROVE Booked
  OBVIOUS
<1>1. plan \in Plans /\ day = 1 /\ 1 \in Days /\ phase = "plan" /\ events = [d \in Days |-> 0]
  BY YearFacts DEF Init
<1>2. Receivable = 0 /\ receivables \in [PayDays -> Nat]
  <2>1. receivables = [d \in PayDays |-> 0]
    BY DEF Init
  <2>2. DOMAIN receivables = PayDays /\ \A d \in PayDays : receivables[d] = 0
    BY <2>1
  <2> QED BY <2>1, <2>2, PayDaysFacts, TotalIsSum, SumOfZeros DEF Receivable
<1>3. PaidOut = 0 /\ IsFiniteSet(payouts) /\ payouts = {}
  BY GrossOfNone, FS_EmptySet DEF Init, PaidOut, GrossOf
<1>4. Scaled(0) = 0
  BY MarketAssumption DEF Scaled
<1>5. price \in Nat /\ price \in Prices
  BY PriceFacts DEF Init
<1>6. AccountConserved
  BY <1>2, <1>3, <1>4, <1>5 DEF AccountConserved, Init
<1>7. PlanFullyCredited
  BY <1>3 DEF PlanFullyCredited, Init
<1>8. ContributionsFunded
  <2>1. TotalUpTo(plan.available, 1) \in Nat
    BY <1>1, PlanFacts, TotalsAreNat
  <2> QED BY <1>1, <2>1 DEF ContributionsFunded, Init
<1>9. contributed = TotalUpTo(events, day - 1)
  <2>1. [d \in Days |-> 0] \in [Days -> Nat] /\ day - 1 = 0
    BY <1>1
  <2> QED BY <1>1, <2>1, TotalsAreNat DEF Init
<1>10. navs \in Seq(Nat) /\ Len(navs) = 0
  BY DEF Init
<1>11. opening \in [Years -> Nat \cup {-1}] /\ shortfalls \in [Days -> Nat]
  BY DEF Init
<1> QED BY <1>1, <1>2, <1>3, <1>5, <1>6, <1>7, <1>8, <1>9, <1>10, <1>11 DEF Booked, Init, Contributing

\* What is left to show for a step that moves neither session, payments nor
\* snapshots.
LEMMA BookedAgain ==
  ASSUME Booked, Framed, UNCHANGED <<plan, holder, day, navs, payouts, shortfalls>>, phase # "stopped",
         phase \notin {"snapshot", "done"}, phase' \notin {"snapshot", "done"},
         price' \in Prices, cash' \in Nat, units' \in Nat, receivables' \in [PayDays -> Nat],
         contributed' \in Nat, credited' \in Nat, fees' \in Nat, gain' \in Int,
         opening' \in [Years -> Nat \cup {-1}], AccountConserved', PlanFullyCredited', ContributionsFunded',
         phase' # "stopped" => contributed' = TotalUpTo(events', IF Contributing' THEN day - 1 ELSE day)
  PROVE  Booked'
<1>1. Len(navs) = day - 1 /\ navs \in Seq(Nat) /\ Len(navs) =< day /\ shortfalls \in [Days -> Nat] /\ IsFiniteSet(payouts)
  BY DEF Booked
<1>2. \A p \in payouts : /\ p.day \in Days /\ p.gross \in Nat /\ p.free \in 0 .. p.gross /\ p.tax \in 0 .. 2 * p.gross
                         /\ p.day < day
  BY DEF Booked, Passed
<1>3. phase' # "stopped" => \A p \in payouts' : Passed(p.day)'
  BY <1>2 DEF Passed
<1> QED BY <1>1, <1>2, <1>3 DEF Booked

\* Scaling respects sums and differences.
LEMMA ScaledFacts ==
  ASSUME NEW a \in Int, NEW b \in Int
  PROVE  Scaled(a) \in Int /\ Scaled(a + b) = Scaled(a) + Scaled(b) /\ Scaled(a - b) = Scaled(a) - Scaled(b)
<1>1. UnitScale \in Nat
  BY MarketAssumption
<1> QED BY <1>1 DEF Scaled

\* Splits, prices and distributions are gains; a distribution paid is cash.
LEMMA MarketBooks ==
  ASSUME Framed, Booked, Market
  PROVE  Booked'
<1>1. PICK p \in Prices, factor \in IF day \in SplitDays THEN {1, 2} ELSE {1},
           perUnit \in IF day \in DistributionDays THEN {0, Distribution} ELSE {0} :
       LET kept == units * factor
           owed == (kept * perUnit) \div UnitScale
           promised == [receivables EXCEPT ![day + PayLag] = @ + owed]
       IN /\ price' = p
          /\ units' = kept
          /\ receivables' = AfterPaying(promised)
          /\ cash' = cash + promised[day]
          /\ gain' = gain + kept * p - units * price + Scaled(owed)
  BY Zenon DEF Market
<1> DEFINE kept == units * factor
           owed == (kept * perUnit) \div UnitScale
           promised == [receivables EXCEPT ![day + PayLag] = @ + owed]
<1>2. /\ price' = p /\ units' = kept /\ receivables' = AfterPaying(promised)
      /\ cash' = cash + promised[day] /\ gain' = gain + kept * p - units * price + Scaled(owed)
  BY <1>1
<1>3. /\ phase = "market" /\ phase' = "contribute"
      /\ UNCHANGED <<plan, holder, events, day, contributed, credited, uncredited, fees, opening, navs,
                     payouts, shortfalls>>
  BY DEF Market, config, basis, paid
<1>4. /\ cash \in Nat /\ units \in Nat /\ price \in Nat /\ p \in Nat /\ p \in Prices /\ fees \in Nat /\ gain \in Int
      /\ contributed \in Nat /\ receivables \in [PayDays -> Nat] /\ day \in Days
      /\ UnitScale \in Nat \ {0} /\ Distribution \in Nat
  BY MarketAssumption DEF Booked, Framed
<1>5. factor \in Nat /\ perUnit \in Nat
  BY <1>4
<1>6. kept \in Nat /\ owed \in Nat
  <2>1. kept \in Nat
    BY <1>4, <1>5, ProductIsNat
  <2> HIDE DEF kept
  <2>2. kept * perUnit \in Nat
    BY <1>5, <2>1, ProductIsNat
  <2>3. (kept * perUnit) \div UnitScale \in Nat
    BY <1>4, <2>2, Quotient
  <2> QED BY <2>1, <2>3
<1> HIDE DEF kept, owed
<1>7. /\ AfterPaying(promised) \in [PayDays -> Nat] /\ promised[day] \in Nat
      /\ Total(receivables) \in Nat /\ Total(AfterPaying(promised)) \in Nat
      /\ Total(AfterPaying(promised)) + promised[day] = Total(receivables) + owed
  BY <1>4, <1>6, MarketPromises
<1> HIDE DEF promised
<1>8. Receivable' = Total(AfterPaying(promised)) /\ Receivable = Total(receivables)
  BY <1>2 DEF Receivable
<1>9. PaidOut' = PaidOut /\ PaidOut \in Nat
  BY <1>3, PaidOutFacts DEF PaidOut
<1>10. cash' + Receivable' + fees' + PaidOut' = (cash + Receivable + fees + PaidOut) + owed
  <2>1. ASSUME NEW c \in Int, NEW q \in Int, NEW r \in Int, NEW s \in Int, NEW f \in Int, NEW o \in Int, NEW x \in Int,
               s + q = r + o
        PROVE  (c + q) + s + f + x = (c + r + f + x) + o
    BY <2>1
  <2>2. (cash + promised[day]) + Total(AfterPaying(promised)) + fees + PaidOut
        = (cash + Total(receivables) + fees + PaidOut) + owed
    <3>1. /\ cash \in Int /\ promised[day] \in Int /\ Total(receivables) \in Int /\ Total(AfterPaying(promised)) \in Int
          /\ fees \in Int /\ owed \in Int /\ PaidOut \in Int
      BY <1>4, <1>6, <1>7, <1>9
    <3> QED BY <1>7, <2>1, <3>1
  <2> QED BY <1>2, <1>3, <1>8, <1>9, <2>2, Zenon
<1>11. Scaled(cash' + Receivable' + fees' + PaidOut') = Scaled(cash + Receivable + fees + PaidOut) + Scaled(owed)
       /\ Scaled(cash + Receivable + fees + PaidOut) \in Int /\ Scaled(owed) \in Int
  <2>1. cash + Receivable + fees + PaidOut \in Int /\ owed \in Int
    BY <1>4, <1>6, <1>7, <1>8, <1>9
  <2> QED BY <1>10, <2>1, ScaledFacts
<1>12. /\ Scaled(cash + Receivable + fees + PaidOut) + units * price = Scaled(contributed) + gain
       /\ Scaled(contributed) \in Int
  <2>1. contributed \in Int
    BY <1>4
  <2> QED BY <2>1, ScaledFacts DEF Booked, AccountConserved
<1>13. kept * p \in Int /\ units * price \in Int
  BY <1>4, <1>6
<1>14. AccountConserved'
  <2>1. Scaled(cash' + Receivable' + fees' + PaidOut') + kept * p
        = Scaled(contributed) + (gain + kept * p - units * price + Scaled(owed))
    <3>1. ASSUME NEW a \in Int, NEW o \in Int, NEW c \in Int, NEW g \in Int, NEW x \in Int, NEW z \in Int,
                 a + z = c + g
          PROVE  (a + o) + x = c + (g + x - z + o)
      BY <3>1
    <3>2. gain \in Int
      BY <1>4
    <3> QED BY <1>11, <1>12, <1>13, <3>1, <3>2
  <2> QED BY <1>2, <1>3, <2>1 DEF AccountConserved, Scaled
<1>15. PlanFullyCredited' /\ ContributionsFunded'
  BY <1>3, <1>9 DEF Booked, PlanFullyCredited, ContributionsFunded, TotalUpTo
<1>16. contributed' = TotalUpTo(events', IF Contributing' THEN day - 1 ELSE day)
  BY <1>3 DEF Booked, Contributing
<1>17. /\ price' \in Prices /\ cash' \in Nat /\ units' \in Nat /\ receivables' \in [PayDays -> Nat] /\ gain' \in Int
       /\ contributed' \in Nat /\ credited' \in Nat /\ fees' \in Nat /\ opening' \in [Years -> Nat \cup {-1}]
  <2>1. cash + promised[day] \in Nat
    BY <1>4, <1>7
  <2>2. gain + kept * p - units * price + Scaled(owed) \in Int
    BY <1>4, <1>11, <1>13
  <2>3. credited \in Nat /\ opening \in [Years -> Nat \cup {-1}]
    BY DEF Booked
  <2> QED BY <1>2, <1>3, <1>4, <1>6, <1>7, <2>1, <2>2, <2>3, Zenon
<1> QED BY <1>3, <1>14, <1>15, <1>16, <1>17, BookedAgain

\* Every planned won is credited as it is contributed.
LEMMA ContributeBooks ==
  ASSUME Framed, Booked, Contribute
  PROVE  Booked'
<1> DEFINE e == events[day]
<1>1. /\ phase = "contribute" /\ phase' = "execute"
      /\ cash' = cash + e /\ contributed' = contributed + e
      /\ credited' = credited + CreditedPart(day) /\ uncredited' = uncredited + e - CreditedPart(day)
      /\ UNCHANGED <<plan, holder, events, day, units, price, receivables, fees, opening, navs, payouts, shortfalls, gain>>
  BY DEF Contribute, config, paid
<1>2. PlanMade /\ day \in Days /\ events \in [Days -> Nat] /\ e \in Nat
  BY <1>1 DEF Framed
<1>3. CreditedPart(day) = e
  BY <1>2 DEF PlanMade
<1> HIDE DEF e
<1>4. /\ cash \in Nat /\ units \in Nat /\ price \in Nat /\ fees \in Nat /\ gain \in Int
      /\ contributed \in Nat /\ credited \in Nat /\ uncredited = 0 /\ Receivable \in Nat
      /\ PaidOut \in Nat /\ credited >= contributed - PaidOut /\ credited =< contributed
  BY PaidOutFacts, PriceFacts DEF Booked, PlanFullyCredited
<1>5. PaidOut' = PaidOut /\ Receivable' = Receivable
  BY <1>1 DEF PaidOut, Receivable
<1>6. AccountConserved'
  <2>1. (cash + e) + Receivable + fees + PaidOut = (cash + Receivable + fees + PaidOut) + e
    BY <1>2, <1>4
  <2>2. Scaled((cash + Receivable + fees + PaidOut) + e) = Scaled(cash + Receivable + fees + PaidOut) + Scaled(e)
        /\ Scaled(cash + Receivable + fees + PaidOut) \in Int /\ Scaled(e) \in Int
    <3>1. cash + Receivable + fees + PaidOut \in Int /\ e \in Int
      BY <1>2, <1>4
    <3> QED BY <3>1, ScaledFacts
  <2>3. Scaled(contributed + e) = Scaled(contributed) + Scaled(e) /\ Scaled(contributed) \in Int
    <3>1. contributed \in Int /\ e \in Int
      BY <1>2, <1>4
    <3> QED BY <3>1, ScaledFacts
  <2>4. Scaled(cash + Receivable + fees + PaidOut) + units * price = Scaled(contributed) + gain
    BY DEF Booked, AccountConserved
  <2>5. units * price \in Int
    BY <1>4
  <2>6. Scaled((cash + e) + Receivable + fees + PaidOut) + units * price = Scaled(contributed + e) + gain
    BY <1>4, <2>1, <2>2, <2>3, <2>4, <2>5
  <2> QED BY <1>1, <1>5, <2>6 DEF AccountConserved, Scaled
<1>7. PlanFullyCredited'
  BY <1>1, <1>2, <1>3, <1>4, <1>5 DEF PlanFullyCredited
<1>8. contributed' = TotalUpTo(events, day)
  <2>1. contributed = TotalUpTo(events, day - 1)
    BY <1>1 DEF Booked, Contributing
  <2> QED BY <1>1, <1>2, <2>1, TotalUpToNext DEF e
<1>9. ContributionsFunded'
  <2>1. TotalUpTo(events, day) =< TotalUpTo(plan.available, day)
    BY <1>2 DEF PlanMade
  <2> QED BY <1>1, <1>8, <2>1 DEF ContributionsFunded, TotalUpTo
<1>10. contributed' = TotalUpTo(events', IF Contributing' THEN day - 1 ELSE day)
  BY <1>1, <1>8 DEF Contributing
<1>11. /\ price' \in Prices /\ cash' \in Nat /\ units' \in Nat /\ receivables' \in [PayDays -> Nat] /\ gain' \in Int
       /\ contributed' \in Nat /\ credited' \in Nat /\ fees' \in Nat /\ opening' \in [Years -> Nat \cup {-1}]
  BY <1>1, <1>2, <1>3, <1>4 DEF Booked
<1> QED BY <1>1, <1>6, <1>7, <1>9, <1>10, <1>11, BookedAgain

\* What is bought is paid for out of cash, the fee included.
LEMMA ExecuteBooks ==
  ASSUME Framed, Booked, Execute
  PROVE  Booked'
<1> DEFINE B == Bought
           c == UnitCost
<1>1. /\ phase = "execute" /\ phase' = "open"
      /\ UNCHANGED <<plan, holder, events, day, price, receivables, contributed, credited, uncredited, opening,
                     navs, payouts, shortfalls, gain>>
      /\ \/ units' = units + Scaled(B) /\ cash' = cash - B * c /\ fees' = fees + B * (c - price)
         \/ UNCHANGED <<units, cash, fees>>
  BY DEF Execute, config, basis, paid
<1>2. /\ cash \in Nat /\ units \in Nat /\ price \in Nat \ {0} /\ fees \in Nat /\ gain \in Int
      /\ contributed \in Nat /\ Receivable \in Nat /\ PaidOut \in Nat /\ UnitScale \in Nat \ {0}
      /\ c \in Nat \ {0} /\ c >= price
  BY PaidOutFacts, PriceFacts DEF Booked
<1>3. PaidOut' = PaidOut /\ Receivable' = Receivable
  BY <1>1 DEF PaidOut, Receivable
<1>4. B \in Nat /\ c * B =< cash
  <2>1. cash \div c \in Nat /\ c * (cash \div c) =< cash
    BY <1>2, Quotient
  <2> QED BY <2>1 DEF Bought
<1> HIDE DEF B, c
<1>5. /\ B * c \in Nat /\ B * c =< cash /\ B * (c - price) \in Nat /\ Scaled(B) \in Nat
      /\ B * c = B * (c - price) + B * price /\ B * price \in Nat
      /\ Scaled(B) * price = Scaled(B * price)
  <2>1. c - price \in Nat
    BY <1>2
  <2>2. B * (c - price) \in Nat /\ B * c \in Nat /\ B * price \in Nat /\ B * c = c * B
        /\ B * c = B * (c - price) + B * price
    BY <1>2, <1>4, <2>1
  <2>3. (B * UnitScale) * price = (B * price) * UnitScale /\ B * UnitScale \in Nat
    BY <1>2, <1>4
  <2> QED BY <1>4, <2>2, <2>3 DEF Scaled
<1>6. units' \in Nat /\ cash' \in Nat /\ fees' \in Nat
  BY <1>1, <1>2, <1>5
<1>7. AccountConserved'
  <2>1. Scaled(cash + Receivable + fees + PaidOut) + units * price = Scaled(contributed) + gain
    BY DEF Booked, AccountConserved
  <2>2. CASE UNCHANGED <<units, cash, fees>>
    BY <1>1, <1>3, <2>1, <2>2 DEF AccountConserved, Scaled
  <2>3. CASE units' = units + Scaled(B) /\ cash' = cash - B * c /\ fees' = fees + B * (c - price)
    <3>1. cash' + Receivable + fees' + PaidOut = (cash + Receivable + fees + PaidOut) - B * price
      <4>1. ASSUME NEW x \in Int, NEW y \in Int, NEW z \in Int, y = z + x
            PROVE  (cash - y) + Receivable + (fees + z) + PaidOut = (cash + Receivable + fees + PaidOut) - x
        BY <1>2, <4>1
      <4> QED BY <1>5, <2>3, <4>1
    <3>2. /\ Scaled(cash' + Receivable + fees' + PaidOut) = Scaled(cash + Receivable + fees + PaidOut) - Scaled(B * price)
          /\ Scaled(cash + Receivable + fees + PaidOut) \in Int /\ Scaled(B * price) \in Int
      <4>1. cash + Receivable + fees + PaidOut \in Int /\ B * price \in Int
        BY <1>2, <1>5
      <4> QED BY <3>1, <4>1, ScaledFacts
    <3>3. units' * price = units * price + Scaled(B * price) /\ units * price \in Int
      <4>1. ASSUME NEW x \in Nat PROVE (units + x) * price = units * price + x * price
        BY <1>2
      <4>2. units * price \in Int
        BY <1>2
      <4> QED BY <1>5, <2>3, <4>1, <4>2
    <3>4. Scaled(cash' + Receivable + fees' + PaidOut) + units' * price = Scaled(contributed) + gain
      BY <2>1, <3>2, <3>3
    <3> QED BY <1>1, <1>3, <3>4 DEF AccountConserved, Scaled
  <2> QED BY <1>1, <2>2, <2>3
<1>8. PlanFullyCredited' /\ ContributionsFunded'
  BY <1>1, <1>3 DEF Booked, PlanFullyCredited, ContributionsFunded, TotalUpTo
<1>9. contributed' = TotalUpTo(events', IF Contributing' THEN day - 1 ELSE day)
  BY <1>1 DEF Booked, Contributing
<1>10. /\ price' \in Prices /\ receivables' \in [PayDays -> Nat] /\ gain' \in Int
       /\ contributed' \in Nat /\ credited' \in Nat /\ opening' \in [Years -> Nat \cup {-1}]
  BY <1>1 DEF Booked
<1> QED BY <1>1, <1>6, <1>7, <1>8, <1>9, <1>10, BookedAgain

\* The last value on record is an amount.
LEMMA LastNavIsNat == ASSUME Booked PROVE LastNav \in Nat
BY DEF Booked, LastNav

\* Steps that leave the books alone.
LEMMA OtherBooks ==
  ASSUME Framed, Booked, PlanContributions \/ RejectPlan \/ OpenYear \/ RefusePayout
  PROVE  Booked'
<1>1. /\ UNCHANGED <<plan, holder, day, cash, units, price, receivables, contributed, credited, uncredited, fees,
                     navs, payouts, shortfalls, gain>>
      /\ phase # "stopped" /\ phase \notin {"snapshot", "done"} /\ phase' \notin {"snapshot", "done"}
  BY DEF PlanContributions, RejectPlan, OpenYear, RefusePayout, config, basis, paid
<1>2. PaidOut' = PaidOut /\ Receivable' = Receivable
  BY <1>1 DEF PaidOut, Receivable
<1>3. AccountConserved' /\ PlanFullyCredited' /\ ContributionsFunded'
  BY <1>1, <1>2 DEF Booked, AccountConserved, PlanFullyCredited, ContributionsFunded, TotalUpTo, Scaled
<1>4. /\ price' \in Prices /\ cash' \in Nat /\ units' \in Nat /\ receivables' \in [PayDays -> Nat] /\ gain' \in Int
      /\ contributed' \in Nat /\ credited' \in Nat /\ fees' \in Nat
  BY <1>1 DEF Booked
<1>5. opening' \in [Years -> Nat \cup {-1}]
  <2>1. CASE OpenYear
    <3>1. OpeningValue \in Nat
      BY PaidOutFacts, LastNavIsNat DEF OpeningValue
    <3>2. opening' = opening \/ opening' = [opening EXCEPT ![YearOf(day)] = OpeningValue]
      BY <2>1 DEF OpenYear
    <3> QED BY <3>1, <3>2 DEF Booked
  <2>2. CASE ~ OpenYear
    BY <2>2 DEF Booked, PlanContributions, RejectPlan, RefusePayout
  <2> QED BY <2>1, <2>2
<1>6. phase' # "stopped" => contributed' = TotalUpTo(events', IF Contributing' THEN day - 1 ELSE day)
  <2>1. CASE PlanContributions
    <3>1. day = 1 /\ phase' = "market" /\ contributed' = contributed /\ events' = Parts /\ phase = "plan"
      BY <2>1 DEF PlanContributions, Framed, basis, Parts
    <3>2. contributed = TotalUpTo(events, 0) /\ day - 1 = 0
      BY <3>1 DEF Booked, Contributing
    <3>3. TotalUpTo(events, 0) = 0 /\ TotalUpTo(Parts, 0) = 0
      BY PartsFacts, TotalsAreNat DEF Framed
    <3> QED BY <3>1, <3>2, <3>3 DEF Contributing
  <2>2. CASE OpenYear
    BY <2>2 DEF Booked, Contributing, OpenYear, config, basis
  <2>3. CASE RejectPlan \/ RefusePayout
    BY <2>3 DEF RejectPlan, RefusePayout
  <2> QED BY <2>1, <2>2, <2>3
<1> QED BY <1>1, <1>3, <1>4, <1>5, <1>6, BookedAgain

\* A session ends, with or without a payment.
LEMMA SessionBooks ==
  ASSUME Framed, Booked, NoPayout \/ Snapshot
  PROVE  Booked'
<1>1. /\ UNCHANGED <<plan, holder, events, cash, units, price, receivables, contributed, credited, uncredited, fees,
                     opening, payouts, shortfalls, gain>>
      /\ phase # "stopped" /\ phase # "done" /\ phase' # "stopped"
      /\ \/ phase = "payout" /\ phase' = "snapshot" /\ day' = day /\ navs' = navs
         \/ /\ phase = "snapshot" /\ navs' = Append(navs, Nav)
            /\ \/ day' = day + 1 /\ phase' = "market" /\ day + 1 \in Days
               \/ day' = day /\ phase' = "done"
  BY DEF NoPayout, Snapshot, config, basis, paid
<1>2. PaidOut' = PaidOut /\ Receivable' = Receivable
  BY <1>1 DEF PaidOut, Receivable
<1>3. day \in Nat /\ day \in Days /\ Nav \in Nat /\ navs \in Seq(Nat) /\ Len(navs) = day - 1
  BY <1>1, DayFacts, PaidOutFacts DEF Framed, Booked
<1>4. AccountConserved' /\ PlanFullyCredited'
  BY <1>1, <1>2 DEF Booked, AccountConserved, PlanFullyCredited, Scaled
<1>5. navs' \in Seq(Nat) /\ Len(navs') = IF phase' = "done" THEN day' ELSE day' - 1
  <2>1. Append(navs, Nav) \in Seq(Nat) /\ Len(Append(navs, Nav)) = day
    <3>1. ASSUME NEW n \in Nat PROVE Append(navs, n) \in Seq(Nat) /\ Len(Append(navs, n)) = day
      BY <1>3
    <3> QED BY <1>3, <3>1
  <2> HIDE DEF Nav
  <2>2. CASE phase = "payout"
    BY <1>1, <1>3, <2>2
  <2>3. CASE phase = "snapshot"
    BY <1>1, <1>3, <2>1, <2>3
  <2> QED BY <1>1, <2>2, <2>3
<1>6. \A p \in payouts' : Passed(p.day)'
  <2>1. ASSUME NEW p \in payouts PROVE p.day \in Nat /\ (p.day < day \/ (p.day = day /\ phase = "snapshot"))
    <3>1. p.day \in Days /\ Passed(p.day)
      BY <1>1 DEF Booked
    <3> QED BY <1>1, <3>1, DayFacts DEF Passed
  <2>2. ASSUME NEW p \in payouts PROVE p.day < day' \/ (p.day = day' /\ phase' \in {"snapshot", "done"})
    BY <1>1, <1>3, <2>1
  <2> QED BY <1>1, <2>2 DEF Passed
<1>7. contributed' = TotalUpTo(events', IF Contributing' THEN day' - 1 ELSE day')
  <2>1. contributed = TotalUpTo(events, day)
    BY <1>1 DEF Booked, Contributing
  <2>2. (IF Contributing' THEN day' - 1 ELSE day') = day
    BY <1>1, <1>3 DEF Contributing
  <2>3. TotalUpTo(events', day) = TotalUpTo(events, day)
    BY <1>1
  <2> QED BY <1>1, <2>1, <2>2, <2>3
<1>8. ContributionsFunded'
  <2>1. plan.available \in [Days -> Nat]
    BY PlanFacts DEF Framed
  <2>2. CASE day' = day
    BY <1>1, <2>2 DEF Booked, ContributionsFunded, TotalUpTo
  <2>3. CASE day' = day + 1 /\ day + 1 \in Days
    <3> DEFINE n == day + 1
    <3>1. n \in Days /\ n - 1 = day
      BY <1>3, <2>3
    <3>2. TotalUpTo(plan.available, n) = TotalUpTo(plan.available, day) + plan.available[n]
          /\ TotalUpTo(plan.available, day) \in Nat /\ plan.available[n] \in Nat
      BY <2>1, <3>1, TotalUpToNext
    <3>3. contributed =< TotalUpTo(plan.available, day) /\ contributed \in Nat
      BY DEF Booked, ContributionsFunded
    <3>4. contributed =< TotalUpTo(plan.available, n)
      BY <3>2, <3>3
    <3> QED BY <1>1, <2>3, <3>4 DEF ContributionsFunded, TotalUpTo
  <2> QED BY <1>1, <2>2, <2>3
<1>9. /\ price' \in Prices /\ cash' \in Nat /\ units' \in Nat /\ receivables' \in [PayDays -> Nat]
      /\ contributed' \in Nat /\ credited' \in Nat /\ fees' \in Nat /\ gain' \in Int
      /\ opening' \in [Years -> Nat \cup {-1}] /\ IsFiniteSet(payouts') /\ shortfalls' \in [Days -> Nat]
      /\ \A p \in payouts' : p.day \in Days /\ p.gross \in Nat /\ p.free \in 0 .. p.gross /\ p.tax \in 0 .. 2 * p.gross
  BY <1>1 DEF Booked
<1>10. Len(navs') =< day'
  BY <1>1, <1>3, <1>5
<1> QED BY <1>4, <1>5, <1>6, <1>7, <1>8, <1>9, <1>10 DEF Booked

\* What is paid is requested and payable, and a sale fits into the units.
LEMMA PayableFacts ==
  ASSUME Framed, Booked, NEW sale, sale = Greater(0, Payable - cash), NEW sold, sold = Scaled(sale) \div price
  PROVE  /\ Requested \in Nat /\ Payable \in Nat /\ Payable =< Requested
         /\ sale \in Nat /\ sold \in Nat /\ sold =< units /\ cash + sale - Payable \in Nat
         /\ sold * price = Scaled(sale)
<1> DEFINE X == (units * price) \div UnitScale
<1>1. /\ cash \in Nat /\ units \in Nat /\ price \in Nat \ {0} /\ UnitScale \in Nat \ {0} /\ UnitScale % price = 0
  BY PriceFacts DEF Booked
<1>2. units * price \in Nat
  BY <1>1, ProductIsNat
<1>3. X \in Nat /\ UnitScale * X =< units * price
  BY <1>1, <1>2, Quotient
<1>4. Requested \in Nat
  BY PlanFacts, DayFacts DEF Framed, Requested
<1>5. Payable = Lesser(Requested, cash + X)
  BY DEF Payable
<1> HIDE DEF X
<1>6. Payable \in Nat /\ Payable =< Requested /\ Payable =< cash + X
  BY <1>1, <1>3, <1>4, <1>5 DEF Lesser
<1>7. sale \in Nat /\ sale =< X /\ cash + sale - Payable \in Nat
  BY <1>1, <1>3, <1>6 DEF Greater
<1>8. sold \in Nat /\ sold * price = Scaled(sale)
  <2>1. ((sale * UnitScale) \div price) \in Nat /\ ((sale * UnitScale) \div price) * price = sale * UnitScale
    <3>1. sale \in Nat /\ UnitScale \in Nat /\ price \in Nat \ {0} /\ UnitScale % price = 0
      BY <1>1, <1>7
    <3>2. ASSUME NEW a \in Nat, NEW s \in Nat, NEW b \in Nat \ {0}, s % b = 0
          PROVE  ((a * s) \div b) \in Nat /\ ((a * s) \div b) * b = a * s
      BY <3>2, ExactQuotient
    <3> QED BY <3>1, <3>2
  <2>2. Scaled(sale) = sale * UnitScale
    BY DEF Scaled
  <2>3. sold = (sale * UnitScale) \div price
    BY <2>2
  <2> QED BY Zenon, <2>1, <2>2, <2>3
<1>9. Scaled(sale) =< units * price
  <2>1. UnitScale * sale =< UnitScale * X /\ UnitScale * sale = Scaled(sale)
    BY <1>1, <1>3, <1>7, ProductIsMonotone DEF Scaled
  <2>2. UnitScale * sale \in Nat /\ UnitScale * X \in Nat
    BY <1>1, <1>3, <1>7, ProductIsNat
  <2> QED BY <1>2, <1>3, <2>1, <2>2
<1>10. sold =< units
  <2> SUFFICES ASSUME units + 1 =< sold PROVE FALSE
    BY <1>1, <1>8
  <2>1. (units + 1) * price =< sold * price /\ (units + 1) * price = units * price + price
    BY <1>1, <1>8, ProductIsMonotone
  <2> QED BY <1>1, <1>2, <1>8, <1>9, <2>1
<1> QED BY <1>4, <1>6, <1>7, <1>8, <1>10

\* Each of the two taxes is less than what it is taken from.
LEMMA PayoutTaxFacts ==
  ASSUME NEW taxable \in Nat
  PROVE  PayoutTax(taxable) \in 0 .. 2 * taxable
<1> DEFINE rate == IF taxable + holder.other[YearOf(day)] <= PensionLaw.threshold
                   THEN PensionLaw.annuityRate ELSE PensionLaw.aboveRate
<1>1. rate \in 0 .. 99 /\ PensionLaw.localRate \in 0 .. 99
  BY LawFacts
<1> HIDE DEF rate
<1>2. Won(taxable, rate) \in Nat /\ Won(taxable, rate) =< taxable
  BY <1>1, WonFacts
<1>3. Won(Won(taxable, rate), PensionLaw.localRate) \in Nat
      /\ Won(Won(taxable, rate), PensionLaw.localRate) =< Won(taxable, rate)
  BY <1>1, <1>2, WonFacts
<1>4. PayoutTax(taxable) = Won(taxable, rate) + Won(Won(taxable, rate), PensionLaw.localRate)
  BY DEF PayoutTax, WithLocal, WithLocalUnder, rate
<1> QED BY <1>2, <1>3, <1>4

\* A payment leaves the account as it is booked.
LEMMA PayoutBooks ==
  ASSUME Framed, Booked, Payout
  PROVE  /\ Booked'
         /\ PaidOut' = PaidOut + Payable
         /\ Payable # 0 => \E p \in payouts' : payouts' = payouts \cup {p} /\ p.day = day /\ p.gross = Payable
         /\ Payable = 0 => payouts' = payouts
<1> DEFINE P == Payable
           free == TaxFree(P)
           taxable == P - free
           sale == Greater(0, P - cash)
           sold == Scaled(sale) \div price
           new == [day |-> day, gross |-> P, free |-> free, tax |-> PayoutTax(taxable)]
<1>1. /\ phase = "payout" /\ phase' = "snapshot"
      /\ shortfalls' = [shortfalls EXCEPT ![day] = Requested - P]
      /\ payouts' = IF P = 0 THEN payouts ELSE payouts \cup {new}
      /\ uncredited' = uncredited - free
      /\ credited' = credited - Lesser(taxable, credited)
      /\ units' = units - sold
      /\ cash' = cash + sale - P
      /\ UNCHANGED <<plan, holder, events, day, price, receivables, contributed, fees, opening, navs, gain>>
  BY DEF Payout, config
<1>2. /\ cash \in Nat /\ units \in Nat /\ price \in Nat \ {0} /\ fees \in Nat /\ gain \in Int
      /\ contributed \in Nat /\ credited \in Nat /\ Receivable \in Nat /\ PaidOut \in Nat /\ UnitScale \in Nat \ {0}
      /\ uncredited = 0 /\ credited >= contributed - PaidOut /\ credited =< contributed
      /\ IsFiniteSet(payouts) /\ PaidOut = GrossOf(payouts)
  BY PaidOutFacts, PriceFacts DEF Booked, PlanFullyCredited
<1>3. /\ Requested \in Nat /\ P \in Nat /\ P =< Requested
      /\ sale \in Nat /\ sold \in Nat /\ sold =< units /\ cash + sale - P \in Nat
      /\ sold * price = Scaled(sale)
  BY PayableFacts
<1>4. free = 0 /\ taxable = P
  BY <1>2, <1>3 DEF TaxFree, Lesser
<1>5. /\ new.day = day /\ new.gross = P /\ new.free = free /\ new.tax = PayoutTax(taxable)
      /\ day \in Days /\ day \in Nat
  BY DayFacts DEF Framed
<1>6. new.free \in 0 .. P /\ new.tax \in 0 .. 2 * P
  <2>1. PayoutTax(taxable) \in 0 .. 2 * taxable
    BY <1>3, <1>4, PayoutTaxFacts
  <2> QED BY <1>3, <1>4, <1>5, <2>1
<1> HIDE DEF P, free, taxable, sale, sold, new
<1>7. \A p \in payouts : /\ p.day \in Days /\ p.gross \in Nat /\ p.free \in 0 .. p.gross /\ p.tax \in 0 .. 2 * p.gross
                         /\ p.day \in Nat /\ p.day < day
  BY <1>1, DayFacts DEF Booked, Passed
<1>8. new \notin payouts
  BY <1>5, <1>7
<1>9. /\ IsFiniteSet(payouts') /\ PaidOut' = PaidOut + P
      /\ \A p \in payouts' : /\ p.day \in Days /\ p.gross \in Nat /\ p.free \in 0 .. p.gross /\ p.tax \in 0 .. 2 * p.gross
                             /\ (p.day < day \/ p.day = day)
  <2>1. CASE P = 0
    BY <1>1, <1>2, <1>7, <2>1 DEF PaidOut
  <2>2. CASE P # 0
    <3>1. payouts' = payouts \cup {new}
      BY <1>1, <2>2
    <3>2. \A p \in payouts \cup {new} : p.gross \in Nat
      BY <1>3, <1>5, <1>7
    <3>3. IsFiniteSet(payouts \cup {new}) /\ GrossOf(payouts \cup {new}) = GrossOf(payouts) + new.gross
      BY <1>2, <1>8, <3>2, GrossOfMore
    <3>4. PaidOut' = GrossOf(payouts')
      BY DEF PaidOut, GrossOf
    <3>5. PaidOut' = PaidOut + P
      BY <1>2, <1>5, <3>1, <3>3, <3>4
    <3> QED BY <1>3, <1>5, <1>6, <1>7, <3>1, <3>3, <3>5
  <2> QED BY <2>1, <2>2
<1>10. Receivable' = Receivable
  BY <1>1 DEF Receivable
<1>11. AccountConserved'
  <2>1. Scaled(cash + Receivable + fees + PaidOut) + units * price = Scaled(contributed) + gain
    BY DEF Booked, AccountConserved
  <2>2. cash' + Receivable + fees + PaidOut' = (cash + Receivable + fees + PaidOut) + sale
    BY <1>1, <1>2, <1>3, <1>9
  <2>3. /\ Scaled(cash' + Receivable + fees + PaidOut') = Scaled(cash + Receivable + fees + PaidOut) + Scaled(sale)
        /\ Scaled(cash + Receivable + fees + PaidOut) \in Int /\ Scaled(sale) \in Int
    <3>1. cash + Receivable + fees + PaidOut \in Int /\ sale \in Int
      BY <1>2, <1>3
    <3> QED BY <2>2, <3>1, ScaledFacts
  <2>4. units' * price = units * price - Scaled(sale) /\ units * price \in Int
    <3>1. (units - sold) * price = units * price - sold * price /\ units * price \in Int
      BY <1>2, <1>3
    <3> QED BY <1>1, <1>3, <3>1
  <2>5. Scaled(cash' + Receivable + fees + PaidOut') + units' * price = Scaled(contributed) + gain
    BY <2>1, <2>3, <2>4
  <2> QED BY <1>1, <1>10, <2>5 DEF AccountConserved, Scaled
<1>12. PlanFullyCredited' /\ credited' \in Nat
  BY <1>1, <1>2, <1>3, <1>4, <1>9 DEF PlanFullyCredited, Lesser
<1>13. ContributionsFunded' /\ contributed' = TotalUpTo(events', IF Contributing' THEN day' - 1 ELSE day')
  BY <1>1 DEF Booked, ContributionsFunded, TotalUpTo, Contributing
<1>14. \A p \in payouts' : Passed(p.day)'
  BY <1>1, <1>9 DEF Passed
<1>15. /\ price' \in Prices /\ cash' \in Nat /\ units' \in Nat /\ receivables' \in [PayDays -> Nat]
       /\ contributed' \in Nat /\ fees' \in Nat /\ gain' \in Int /\ opening' \in [Years -> Nat \cup {-1}]
       /\ navs' \in Seq(Nat) /\ Len(navs') =< day' /\ Len(navs') = day' - 1
  BY <1>1, <1>2, <1>3 DEF Booked
<1>16. shortfalls' \in [Days -> Nat]
  <2>1. Requested - P \in Nat
    BY <1>3
  <2>2. shortfalls \in [Days -> Nat] /\ shortfalls' = [shortfalls EXCEPT ![day] = Requested - P]
    BY <1>1 DEF Booked
  <2> QED BY <2>1, <2>2
<1>17. Booked'
  BY <1>1, <1>9, <1>11, <1>12, <1>13, <1>14, <1>15, <1>16 DEF Booked
<1>18. Payable # 0 => \E p \in payouts' : payouts' = payouts \cup {p} /\ p.day = day /\ p.gross = Payable
  BY <1>1, <1>5 DEF P
<1>19. Payable = 0 => payouts' = payouts
  BY <1>1 DEF P
<1> QED BY <1>9, <1>17, <1>18, <1>19 DEF P

\* Every step keeps the books.
LEMMA BookedStep ==
  ASSUME Framed, Booked, [Next]_vars
  PROVE  Booked'
<1>1. CASE UNCHANGED vars
  <2>1. /\ UNCHANGED <<plan, holder, phase, day, events, cash, units, price, receivables, contributed, credited,
                       uncredited, fees, opening, navs, payouts, shortfalls, attempted, gain>>
    BY <1>1 DEF vars
  <2> QED BY <2>1 DEF Booked, AccountConserved, PlanFullyCredited, ContributionsFunded, Contributing, Passed,
              PaidOut, Receivable, Scaled, TotalUpTo
<1>2. CASE Next
  BY <1>2, MarketBooks, ContributeBooks, ExecuteBooks, OtherBooks, SessionBooks, PayoutBooks DEF Next
<1> QED BY <1>1, <1>2

\* No payout is behind the account at first.
LEMMA AttemptedInitially == Init => Attempted
<1> SUFFICES ASSUME Init PROVE Attempted
  OBVIOUS
<1>1. Attempts = {}
  <2>1. ASSUME NEW y \in Years PROVE ~ Passed(LastDay(y))
    <3>1. LastDay(y) \in Nat /\ LastDay(y) >= 1
      BY LastDayIsNat, DayFacts
    <3> QED BY <3>1 DEF Passed, Init
  <2> QED BY <2>1 DEF Attempts
<1>2. Cardinality(Attempts) = 0 /\ attempted = 0
  BY <1>1, FS_EmptySet DEF Init
<1> QED BY <1>2, CalendarAssumption DEF Attempted

AccountInv == Framed /\ Attempted /\ Booked

\* The account starts sound.
LEMMA AccountInitially == Init => AccountInv
BY FramedInitially, AttemptedInitially, BookedInitially DEF AccountInv

\* ... and every step keeps it so.
LEMMA AccountStep == AccountInv /\ [Next]_vars => AccountInv'
<1> SUFFICES ASSUME AccountInv, [Next]_vars PROVE AccountInv'
  OBVIOUS
<1>1. Framed /\ Attempted /\ Booked
  BY DEF AccountInv
<1>2. Framed' /\ Attempted' /\ Booked'
  BY <1>1, FramedStep, AttemptedStep, BookedStep
<1> QED BY <1>2 DEF AccountInv

\* The invariant gives the run's property.
LEMMA AccountInvIsSound == AccountInv => AccountSound
<1> SUFFICES ASSUME AccountInv PROVE AccountSound
  OBVIOUS
<1>1. Framed /\ Attempted /\ Booked
  BY DEF AccountInv
<1>2. uncredited = 0
  BY <1>1 DEF Booked, PlanFullyCredited
<1>3. Len(navs) =< LastYear * SessionsPerYear
  <2>1. Len(navs) =< day /\ navs \in Seq(Nat) /\ day \in 1 .. LastYear * SessionsPerYear
    BY <1>1 DEF Booked, Framed, Days
  <2>2. Len(navs) \in Nat /\ LastYear * SessionsPerYear \in Int
    BY <2>1, CalendarAssumption
  <2> QED BY <2>1, <2>2
<1>4. TypeOK
  BY <1>1, <1>2, <1>3 DEF TypeOK, Framed, Attempted, Booked
<1>5. AccountConserved /\ LeastContribution /\ ContributionsFunded /\ PlanFullyCredited
  BY <1>1 DEF Framed, Booked
<1> QED BY <1>4, <1>5 DEF AccountSound, BooksBalance, PlanSound

\* A behaviour of the research is, seen from the ledger, one of the ledger.
LEMMA LedgerOfResearch ==
  /\ PensionInit => Init
  /\ [PensionNext]_<<subject, vars, panelsVars, fxVars, campaignVars, selectionVars>> => [Next]_vars
<1>1. PensionInit => Init
  BY Zenon DEF PensionInit, LedgerRests
<1>2. [PensionNext]_<<subject, vars, panelsVars, fxVars, campaignVars, selectionVars>> => [Next]_vars
  <2>1. PensionNext => Next \/ UNCHANGED vars
    BY Zenon DEF PensionNext
  <2>2. UNCHANGED <<subject, vars, panelsVars, fxVars, campaignVars, selectionVars>> => UNCHANGED vars
    BY Zenon
  <2> QED BY <2>1, <2>2
<1> QED BY <1>1, <1>2

\* Whatever the plan, the holder and the market, no path of the pension account
\* creates or loses money or brings an amount below zero, and its contributions are
\* the least that earn the credit, funded when due and wholly credited
\* (pension_engine.py:245-379).
THEOREM AccountIsSound == PensionSpec => []AccountSound
<1>1. PensionInit => AccountInv
  BY LedgerOfResearch, AccountInitially
<1>2. AccountInv /\ [PensionNext]_<<subject, vars, panelsVars, fxVars, campaignVars, selectionVars>> => AccountInv'
  BY LedgerOfResearch, AccountStep
<1> QED BY <1>1, <1>2, AccountInvIsSound, PTL DEF PensionSpec

-----------------------------------------------------------------------------
(* What a year's limit is measured on *)

Late == phase \in {"payout", "snapshot", "done", "stopped"}
Opened(d) == d < day \/ (d = day /\ Late)
StartsIn(y) == holder.started # Never /\ YearOf(holder.started) = y
MeasuredOn(y) == IF StartsIn(y) THEN holder.started ELSE FirstDay(y)
PaidOn(d) == GrossOf({q \in payouts : q.day = d})
NavOf(d) == IF d =< Len(navs) THEN navs[d] ELSE Nav
Measured(y) ==
  IF StartsIn(y) THEN NavOf(holder.started) + PaidOn(holder.started)
  ELSE IF FirstDay(y) = 1 THEN 0 ELSE navs[FirstDay(y) - 1]

\* A year's value is measured once, on its first session or at the start of
\* the pension, and never again.
Openings == \A y \in Years : opening[y] = IF Opened(MeasuredOn(y)) THEN Measured(y) ELSE -1

\* A year is measured on one of its sessions.
LEMMA MeasuredOnFacts ==
  ASSUME holder \in Holders, NEW y \in Years
  PROVE  /\ MeasuredOn(y) \in Days /\ MeasuredOn(y) \in Nat /\ YearOf(MeasuredOn(y)) = y
         /\ FirstDay(y) =< MeasuredOn(y)
         /\ FirstDay(y) \in Nat /\ FirstDay(y) >= 1
<1>1. CASE StartsIn(y)
  <2>1. holder.started \in Days /\ YearOf(holder.started) = y /\ MeasuredOn(y) = holder.started
    BY <1>1, HolderFacts DEF StartsIn, MeasuredOn
  <2> QED BY <2>1, DayFacts, SessionsFacts
<1>2. CASE ~ StartsIn(y)
  <2>1. MeasuredOn(y) = FirstDay(y)
    BY <1>2 DEF MeasuredOn
  <2>2. FirstDay(y) \in Days /\ FirstDay(y) \in FirstDay(y) .. LastDay(y) /\ FirstDay(y) \in Nat /\ FirstDay(y) >= 1
    BY CalendarFacts, SessionsFacts
  <2>3. YearOf(FirstDay(y)) = y
    BY <2>2, CalendarFacts
  <2> QED BY <2>1, <2>2, <2>3
<1> QED BY <1>1, <1>2

\* What a session paid is an amount.
LEMMA PaidOnFacts ==
  ASSUME Booked, NEW d
  PROVE  IsFiniteSet({q \in payouts : q.day = d}) /\ PaidOn(d) \in Nat
<1>1. IsFiniteSet({q \in payouts : q.day = d})
  BY FS_Subset DEF Booked
<1>2. \A q \in {q \in payouts : q.day = d} : q.gross \in Nat
  BY DEF Booked
<1> QED BY <1>1, <1>2, GrossIsNat DEF PaidOn

\* A value that has been measured is an amount.
LEMMA MeasuredIsNat ==
  ASSUME AccountInv, phase # "stopped" \/ Len(navs) = day - 1, NEW y \in Years, Opened(MeasuredOn(y))
  PROVE  Measured(y) \in Nat
<1>1. /\ holder \in Holders /\ day \in Nat /\ day \in Days /\ navs \in Seq(Nat) /\ Len(navs) \in {day - 1, day}
      /\ Nav \in Nat /\ Booked
  BY PaidOutFacts, DayFacts DEF AccountInv, Framed, Booked
<1>2. MeasuredOn(y) =< day /\ MeasuredOn(y) \in Nat /\ FirstDay(y) =< MeasuredOn(y) /\ FirstDay(y) \in Nat /\ FirstDay(y) >= 1
  BY <1>1, MeasuredOnFacts DEF Opened
<1>3. CASE StartsIn(y)
  <2>1. holder.started \in Days /\ holder.started \in Nat /\ holder.started >= 1
    BY <1>1, <1>3, HolderFacts, DayFacts DEF StartsIn
  <2>2. NavOf(holder.started) \in Nat
    BY <1>1, <2>1 DEF NavOf
  <2>3. PaidOn(holder.started) \in Nat
    BY <1>1, PaidOnFacts
  <2> QED BY <1>3, <2>2, <2>3 DEF Measured
<1>4. CASE ~ StartsIn(y)
  <2>1. CASE FirstDay(y) = 1
    BY <1>4, <2>1 DEF Measured
  <2>2. CASE FirstDay(y) # 1
    <3>1. FirstDay(y) - 1 \in 1 .. Len(navs)
      BY <1>1, <1>2, <2>2
    <3>2. navs[FirstDay(y) - 1] \in Nat
      BY <1>1, <3>1
    <3> QED BY <1>4, <2>2, <3>2 DEF Measured
  <2> QED BY <2>1, <2>2
<1> QED BY <1>3, <1>4

\* A value that leaves the account whole shifts its valuation by as much.
LEMMA QuotientShift ==
  ASSUME NEW x \in Int, NEW b \in Nat \ {0}, NEW p \in Int
  PROVE  (x - b * p) \div b = x \div b - p
<1> DEFINE q == x \div b
           r == (x - b * p) \div b
<1>0. x - b * p \in Int
  OBVIOUS
<1>1. q \in Int /\ b * q =< x
  BY Quotient
<1>2. r \in Int /\ b * r =< x - b * p
  BY <1>0, Quotient
<1>3. q - p =< r
  <2> HIDE DEF q
  <2>1. b * (q - p) = b * q - b * p /\ b * q \in Int /\ b * p \in Int /\ q - p \in Int
    BY <1>1
  <2>2. b * (q - p) =< x - b * p
    BY <1>1, <2>1
  <2> QED BY <1>0, <2>1, <2>2, QuotientIsGreatest
<1>4. r + p =< q
  <2> HIDE DEF r
  <2>1. b * (r + p) = b * r + b * p /\ b * r \in Int /\ b * p \in Int /\ r + p \in Int
    BY <1>2
  <2>2. b * (r + p) =< x
    BY <1>2, <2>1
  <2> QED BY <2>1, <2>2, QuotientIsGreatest
<1> HIDE DEF q, r
<1>5. r = q - p
  BY <1>1, <1>2, <1>3, <1>4
<1> QED BY <1>5 DEF q, r

\* A payment takes its gross from the account's value, whatever it sells.
LEMMA NavAfterPayout ==
  ASSUME AccountInv, Payout
  PROVE  Nav' = Nav - Payable
<1> DEFINE sale == Greater(0, Payable - cash)
           sold == Scaled(sale) \div price
           x == Scaled(cash + Receivable) + units * price
<1>1. /\ units' = units - sold /\ cash' = cash + sale - Payable /\ price' = price /\ Receivable' = Receivable
  BY DEF Payout, Receivable
<1>2. /\ Payable \in Nat /\ sale \in Nat /\ sold \in Nat /\ sold * price = Scaled(sale)
  BY PayableFacts DEF AccountInv
<1>3. cash \in Nat /\ units \in Nat /\ price \in Nat \ {0} /\ Receivable \in Nat /\ UnitScale \in Nat \ {0}
  BY PriceFacts, PaidOutFacts DEF AccountInv, Booked
<1> HIDE DEF sale, sold
<1>4. cash' + Receivable' = (cash + Receivable + sale) - Payable
  BY <1>1, <1>2, <1>3
<1>5. /\ Scaled(cash' + Receivable') = Scaled(cash + Receivable) + Scaled(sale) - Scaled(Payable)
      /\ Scaled(cash + Receivable) \in Int /\ Scaled(sale) \in Int /\ Scaled(Payable) \in Int
  <2>1. cash + Receivable + sale \in Int /\ Payable \in Int /\ cash + Receivable \in Int /\ sale \in Int
    BY <1>2, <1>3
  <2>2. Scaled((cash + Receivable + sale) - Payable) = Scaled(cash + Receivable + sale) - Scaled(Payable)
        /\ Scaled(Payable) \in Int
    BY <2>1, ScaledFacts
  <2>3. Scaled(cash + Receivable + sale) = Scaled(cash + Receivable) + Scaled(sale)
        /\ Scaled(cash + Receivable) \in Int /\ Scaled(sale) \in Int
    BY <2>1, ScaledFacts
  <2> QED BY <1>4, <2>2, <2>3
<1>6. units' * price = units * price - Scaled(sale) /\ units * price \in Int
  <2>1. (units - sold) * price = units * price - sold * price /\ units * price \in Int
    BY <1>2, <1>3
  <2> QED BY <1>1, <1>2, <2>1
<1>7. Scaled(cash' + Receivable') + units' * price' = x - UnitScale * Payable /\ x \in Int
  <2>1. Scaled(Payable) = UnitScale * Payable
    BY <1>2, <1>3 DEF Scaled
  <2> QED BY <1>1, <1>5, <1>6, <2>1
<1>8. Nav' = (Scaled(cash' + Receivable') + units' * price') \div UnitScale
  BY DEF Nav, Scaled
<1>9. Nav = x \div UnitScale
  BY DEF Nav
<1> HIDE DEF x
<1>10. (x - UnitScale * Payable) \div UnitScale = x \div UnitScale - Payable
  <2>1. Payable \in Int /\ x \in Int
    BY <1>2, <1>7
  <2> QED BY <1>3, <2>1, QuotientShift
<1> QED BY <1>7, <1>8, <1>9, <1>10

\* Nothing moves what was measured but the session's own payment.
LEMMA OpeningsStay ==
  ASSUME Framed, Openings, UNCHANGED <<holder, opening, navs, payouts, day>>, navs \in Seq(Nat), Len(navs) >= day - 1,
         Late' <=> Late, Late => Nav' = Nav
  PROVE  Openings'
<1>1. day \in Nat /\ Len(navs) \in Nat /\ holder \in Holders
  BY DayFacts DEF Framed
<1>2. ASSUME NEW y \in Years, NEW m, m = MeasuredOn(y)
      PROVE  opening'[y] = IF Opened(MeasuredOn(y))' THEN Measured(y)' ELSE -1
  <2>1. m \in Nat /\ MeasuredOn(y)' = m /\ (StartsIn(y)' <=> StartsIn(y)) /\ (StartsIn(y) => m = holder.started)
    BY <1>1, <1>2, MeasuredOnFacts DEF MeasuredOn, StartsIn
  <2>2. opening[y] = IF Opened(m) THEN Measured(y) ELSE -1
    BY <1>2 DEF Openings
  <2>3. Opened(m)' <=> Opened(m)
    BY DEF Opened
  <2>4. Opened(m) => NavOf(m)' = NavOf(m)
    BY <1>1, <2>1 DEF Opened, NavOf
  <2>5. PaidOn(m)' = PaidOn(m)
    BY DEF PaidOn
  <2>6. Opened(m) => Measured(y)' = Measured(y)
    <3>1. CASE StartsIn(y)
      <4>1. Measured(y) = NavOf(m) + PaidOn(m) /\ Measured(y)' = NavOf(m)' + PaidOn(m)'
        BY <2>1, <3>1 DEF Measured
      <4> QED BY <2>4, <2>5, <4>1
    <3>2. CASE ~ StartsIn(y)
      BY <2>1, <3>2 DEF Measured
    <3> QED BY <3>1, <3>2
  <2>7. Opened(MeasuredOn(y))' <=> Opened(m)'
    BY <2>1 DEF Opened
  <2> QED BY <2>2, <2>3, <2>6, <2>7
<1> QED BY <1>2 DEF Openings

\* Until the session's payout it has paid nothing.
LEMMA NothingPaidToday ==
  ASSUME AccountInv, phase \notin {"snapshot", "done", "stopped"}
  PROVE  /\ \A p \in payouts : p.day \in Nat /\ p.day < day
         /\ PaidOn(day) = 0
<1>1. \A p \in payouts : p.day \in Nat /\ p.day < day
  BY DayFacts DEF AccountInv, Booked, Passed
<1>2. {q \in payouts : q.day = day} = {}
  BY <1>1
<1> QED BY <1>1, <1>2, GrossOfNone DEF PaidOn

\* Opening a year measures it on the session it is due.
LEMMA OpenYearOpenings ==
  ASSUME AccountInv, Openings, OpenYear
  PROVE  Openings'
<1> DEFINE z == YearOf(day)
           C == opening[z] = -1 /\ (StartsThisYear => day >= holder.started)
<1>1. /\ phase = "open" /\ phase' = "payout"
      /\ opening' = IF C THEN [opening EXCEPT ![z] = OpeningValue] ELSE opening
      /\ UNCHANGED <<holder, day, cash, units, price, receivables, navs, payouts>>
  BY DEF OpenYear, config, paid
<1>2. /\ day \in Nat /\ day \in Days /\ day >= 1 /\ z \in Years /\ FirstDay(z) =< day /\ holder \in Holders
      /\ navs \in Seq(Nat) /\ Len(navs) = day - 1 /\ opening \in [Years -> Nat \cup {-1}]
  BY <1>1, DayFacts DEF AccountInv, Framed, Booked
<1>3. Nav' = Nav /\ PaidOn(day) = 0
  BY <1>1, NothingPaidToday DEF Nav, Receivable, Scaled
<1>4. ASSUME NEW d PROVE (Opened(d) <=> d < day) /\ (Opened(d)' <=> d < day \/ d = day) /\ PaidOn(d)' = PaidOn(d)
  BY <1>1 DEF Opened, Late, PaidOn
<1>5. ASSUME NEW y \in Years, NEW m, m = MeasuredOn(y)
      PROVE  opening'[y] = IF Opened(MeasuredOn(y))' THEN Measured(y)' ELSE -1
  <2>1. m \in Nat /\ MeasuredOn(y)' = m /\ YearOf(m) = y /\ (StartsIn(y)' <=> StartsIn(y))
        /\ (StartsIn(y) => m = holder.started) /\ (~ StartsIn(y) => m = FirstDay(y))
        /\ FirstDay(y) \in Nat /\ FirstDay(y) >= 1 /\ FirstDay(y) =< m
    BY <1>1, <1>2, <1>5, MeasuredOnFacts DEF MeasuredOn, StartsIn
  <2>2. opening[y] = IF m < day THEN Measured(y) ELSE -1
    BY <1>4, <1>5 DEF Openings
  <2>3. m < day => Measured(y) \in Nat
    BY <1>1, <1>4, <1>5, MeasuredIsNat
  <2> HIDE DEF z
  <2>4. m < day => Measured(y)' = Measured(y)
    <3>1. m < day /\ StartsIn(y) => NavOf(m)' = NavOf(m)
      BY <1>1, <1>2, <2>1 DEF NavOf
    <3>2. PaidOn(m)' = PaidOn(m)
      BY <1>4
    <3>3. CASE StartsIn(y)
      <4>1. Measured(y) = NavOf(m) + PaidOn(m) /\ Measured(y)' = NavOf(m)' + PaidOn(m)'
        BY <1>1, <2>1, <3>3 DEF Measured
      <4> QED BY <3>1, <3>2, <3>3, <4>1
    <3>4. CASE ~ StartsIn(y)
      BY <1>1, <2>1, <3>4 DEF Measured
    <3> QED BY <3>3, <3>4
  <2>5. CASE m < day
    <3>1. opening[y] # -1
      BY <2>2, <2>3, <2>5
    <3>2. opening'[y] = opening[y]
      BY <1>1, <3>1
    <3> QED BY <1>4, <2>1, <2>2, <2>4, <2>5, <3>2 
  <2>6. CASE m = day
    <3>1. y = z /\ opening[z] = -1
      BY <2>1, <2>2, <2>6 DEF z
    <3>2. StartsThisYear <=> StartsIn(y)
      BY <3>1 DEF StartsThisYear, StartsIn, z
    <3>3. StartsIn(y) => holder.started = day
      BY <2>1, <2>6
    <3>4. C
      BY <1>2, <3>1, <3>2, <3>3
    <3>5. opening'[y] = OpeningValue
      BY <1>1, <1>2, <3>1, <3>4
    <3>6. Measured(y)' = OpeningValue
      <4>1. CASE StartsIn(y)
        <5>1. OpeningValue = Nav
          BY <3>2, <3>3, <4>1 DEF OpeningValue
        <5>2. NavOf(m)' = Nav /\ PaidOn(m)' = 0
          BY <1>1, <1>2, <1>3, <1>4, <2>6 DEF NavOf
        <5>3. Measured(y)' = NavOf(m)' + PaidOn(m)'
          BY <1>1, <2>1, <3>3, <4>1 DEF Measured
        <5>4. Nav \in Nat
          BY PaidOutFacts DEF AccountInv
        <5> QED BY <5>1, <5>2, <5>3, <5>4
      <4>2. CASE ~ StartsIn(y)
        <5>1. OpeningValue = LastNav /\ FirstDay(y) = day
          BY <2>1, <2>6, <3>2, <4>2 DEF OpeningValue
        <5>2. LastNav = IF day = 1 THEN 0 ELSE navs[day - 1]
          BY <1>2 DEF LastNav
        <5>3. Measured(y)' = IF FirstDay(y) = 1 THEN 0 ELSE navs[FirstDay(y) - 1]
          BY <1>1, <2>1, <4>2 DEF Measured
        <5> QED BY <5>1, <5>2, <5>3
      <4> QED BY <4>1, <4>2
    <3> QED BY <1>4, <2>1, <2>6, <3>5, <3>6 
  <2>7. CASE m > day
    <3>1. opening[y] = -1 /\ ~ Opened(m)'
      BY <1>2, <1>4, <2>1, <2>2, <2>7
    <3>2. y = z => StartsThisYear /\ ~ (day >= holder.started)
      <4>1. y = z => StartsIn(y)
        BY <1>2, <2>1, <2>7
      <4> QED BY <1>2, <2>1, <2>7, <4>1 DEF StartsThisYear, StartsIn, z
    <3>3. opening'[y] = opening[y]
      BY <1>1, <3>2
    <3> QED BY <2>1, <3>1, <3>3 
  <2> QED BY <1>2, <2>1, <2>5, <2>6, <2>7
<1> QED BY <1>5 DEF Openings

\* A payment on the day the pension starts is added back to the value.
LEMMA PayoutOpenings ==
  ASSUME AccountInv, Openings, Payout
  PROVE  Openings'
<1>1. /\ phase = "payout" /\ phase' = "snapshot" /\ UNCHANGED <<holder, opening, navs, day>>
  BY DEF Payout, config
<1>2. /\ day \in Nat /\ day \in Days /\ holder \in Holders /\ navs \in Seq(Nat) /\ Len(navs) = day - 1
      /\ Nav \in Nat /\ Payable \in Nat
  BY <1>1, DayFacts, PaidOutFacts, PayableFacts DEF AccountInv, Framed, Booked
<1>3. Nav' = Nav - Payable
  BY NavAfterPayout
<1>4. (\A p \in payouts : p.day \in Nat /\ p.day < day) /\ PaidOn(day) = 0
  BY <1>1, NothingPaidToday
<1>5. /\ Payable # 0 => \E p \in payouts' : payouts' = payouts \cup {p} /\ p.day = day /\ p.gross = Payable
      /\ Payable = 0 => payouts' = payouts
  BY PayoutBooks DEF AccountInv
<1>6. ASSUME NEW d \in Nat, d # day PROVE PaidOn(d)' = PaidOn(d)
  <2>1. {q \in payouts' : q.day = d} = {q \in payouts : q.day = d}
    BY <1>5, <1>6
  <2> QED BY <2>1 DEF PaidOn
<1>7. ASSUME NEW d, d = day PROVE PaidOn(d)' = Payable
  <2>1. CASE Payable = 0
    <3>1. PaidOn(d)' = PaidOn(d)
      BY <1>5, <2>1 DEF PaidOn
    <3> QED BY <1>4, <1>7, <2>1, <3>1
  <2>2. CASE Payable # 0
    <3>1. PICK p \in payouts' : payouts' = payouts \cup {p} /\ p.day = day /\ p.gross = Payable
      BY <1>5, <2>2
    <3>2. {q \in payouts' : q.day = d} = {p}
      BY <1>4, <1>7, <3>1
    <3>3. GrossOf({p}) = Payable
      BY <1>2, <3>1, GrossOfOne
    <3> QED BY <3>2, <3>3 DEF PaidOn
  <2> QED BY <2>1, <2>2
<1>8. ASSUME NEW y \in Years, NEW m, m = MeasuredOn(y)
      PROVE  opening'[y] = IF Opened(MeasuredOn(y))' THEN Measured(y)' ELSE -1
  <2>1. m \in Nat /\ MeasuredOn(y)' = m /\ (StartsIn(y)' <=> StartsIn(y)) /\ (StartsIn(y) => m = holder.started)
    BY <1>1, <1>2, <1>8, MeasuredOnFacts DEF MeasuredOn, StartsIn
  <2>2. opening[y] = IF Opened(m) THEN Measured(y) ELSE -1
    BY <1>8 DEF Openings
  <2>3. (Opened(m)' <=> Opened(m)) /\ (Opened(m) => m =< day)
    BY <1>1, <1>2, <2>1 DEF Opened, Late
  <2>4. ASSUME m =< day PROVE NavOf(m)' + PaidOn(m)' = NavOf(m) + PaidOn(m)
    <3>1. CASE m = day
      <4>1. NavOf(m)' = Nav' /\ NavOf(m) = Nav
        BY <1>1, <1>2, <3>1 DEF NavOf
      <4>2. PaidOn(m)' = Payable /\ PaidOn(m) = 0
        BY <1>4, <1>7, <3>1
      <4> QED BY <1>2, <1>3, <4>1, <4>2
    <3>2. CASE m # day
      <4>1. NavOf(m)' = NavOf(m)
        BY <1>1, <1>2, <2>1, <2>4, <3>2 DEF NavOf
      <4>2. PaidOn(m)' = PaidOn(m)
        BY <1>6, <2>1, <3>2
      <4> QED BY <4>1, <4>2
    <3> QED BY <3>1, <3>2
  <2>5. Opened(m) => Measured(y)' = Measured(y)
    <3>1. CASE StartsIn(y)
      <4>1. Measured(y) = NavOf(m) + PaidOn(m) /\ Measured(y)' = NavOf(m)' + PaidOn(m)'
        BY <1>1, <2>1, <3>1 DEF Measured
      <4> QED BY <2>3, <2>4, <4>1
    <3>2. CASE ~ StartsIn(y)
      BY <1>1, <2>1, <3>2 DEF Measured
    <3> QED BY <3>1, <3>2
  <2>6. Opened(MeasuredOn(y))' <=> Opened(m)'
    BY <2>1 DEF Opened
  <2> QED BY <1>1, <2>2, <2>3, <2>5, <2>6
<1> QED BY <1>8 DEF Openings

\* The value recorded for the session is the one measured.
LEMMA SnapshotOpenings ==
  ASSUME AccountInv, Openings, Snapshot
  PROVE  Openings'
<1>1. /\ phase = "snapshot" /\ navs' = Append(navs, Nav) /\ UNCHANGED <<holder, opening, payouts>>
      /\ \/ day' = day + 1 /\ phase' = "market"
         \/ day' = day /\ phase' = "done"
  BY DEF Snapshot, config, paid
<1>2. /\ day \in Nat /\ day \in Days /\ holder \in Holders /\ navs \in Seq(Nat) /\ Len(navs) = day - 1
      /\ Nav \in Nat
  BY <1>1, DayFacts, PaidOutFacts DEF AccountInv, Framed, Booked
<1>3. /\ Len(navs') = day /\ navs'[day] = Nav /\ \A i \in 1 .. day - 1 : navs'[i] = navs[i]
  <2>1. ASSUME NEW n, n = Nav, NEW s, s = Append(navs, n)
        PROVE  Len(s) = day /\ s[day] = n /\ \A i \in 1 .. day - 1 : s[i] = navs[i]
    BY <1>2, <2>1
  <2> QED BY <1>1, <2>1
<1>4. ASSUME NEW y \in Years, NEW m, m = MeasuredOn(y)
      PROVE  opening'[y] = IF Opened(MeasuredOn(y))' THEN Measured(y)' ELSE -1
  <2>1. m \in Nat /\ MeasuredOn(y)' = m /\ (StartsIn(y)' <=> StartsIn(y)) /\ (StartsIn(y) => m = holder.started)
        /\ m >= 1 /\ FirstDay(y) =< m /\ FirstDay(y) \in Nat /\ FirstDay(y) >= 1
    BY <1>1, <1>2, <1>4, MeasuredOnFacts, DayFacts DEF MeasuredOn, StartsIn
  <2>2. opening[y] = IF Opened(m) THEN Measured(y) ELSE -1
    BY <1>4 DEF Openings
  <2>3. (Opened(m)' <=> m =< day) /\ (Opened(m) <=> m =< day)
    BY <1>1, <1>2, <2>1 DEF Opened, Late
  <2>4. ASSUME m =< day PROVE NavOf(m)' = NavOf(m)
    <3>1. CASE m = day
      BY <1>2, <1>3, <3>1 DEF NavOf
    <3>2. CASE m # day
      BY <1>2, <1>3, <2>1, <2>4, <3>2 DEF NavOf
    <3> QED BY <3>1, <3>2
  <2>5. PaidOn(m)' = PaidOn(m)
    BY <1>1 DEF PaidOn
  <2>6. ASSUME m =< day PROVE Measured(y)' = Measured(y)
    <3>1. CASE StartsIn(y)
      <4>1. Measured(y) = NavOf(m) + PaidOn(m) /\ Measured(y)' = NavOf(m)' + PaidOn(m)'
        BY <1>1, <2>1, <3>1 DEF Measured
      <4> QED BY <2>4, <2>5, <2>6, <4>1
    <3>2. CASE ~ StartsIn(y)
      <4>1. FirstDay(y) # 1 => navs'[FirstDay(y) - 1] = navs[FirstDay(y) - 1]
        BY <1>2, <1>3, <2>1, <2>6
      <4> QED BY <2>1, <3>2, <4>1 DEF Measured
    <3> QED BY <3>1, <3>2
  <2>7. Opened(MeasuredOn(y))' <=> Opened(m)'
    BY <2>1 DEF Opened
  <2> QED BY <1>1, <2>2, <2>3, <2>6, <2>7
<1> QED BY <1>4 DEF Openings

\* Every step but the refusal of a plan keeps the measured values.
LEMMA OpeningsStep ==
  ASSUME AccountInv, Openings, [Next]_vars, ~ RejectPlan, Len(navs) >= day - 1
  PROVE  Openings'
<1>1. Framed /\ navs \in Seq(Nat)
  BY DEF AccountInv, Booked
<1>2. CASE PlanContributions \/ Market \/ Contribute \/ Execute
  <2>1. UNCHANGED <<holder, opening, navs, payouts, day>> /\ ~ Late /\ ~ Late'
    BY <1>2 DEF PlanContributions, Market, Contribute, Execute, Late, config, paid
  <2> QED BY <1>1, <2>1, OpeningsStay
<1>3. CASE NoPayout \/ RefusePayout \/ UNCHANGED vars
  <2>1. UNCHANGED <<holder, opening, navs, payouts, day, cash, units, price, receivables>> /\ (Late' <=> Late)
    BY <1>3 DEF NoPayout, RefusePayout, vars, Late, config, paid
  <2>2. Nav' = Nav
    BY <2>1 DEF Nav, Receivable, Scaled
  <2> QED BY <1>1, <2>1, <2>2, OpeningsStay
<1> QED BY <1>2, <1>3, OpenYearOpenings, PayoutOpenings, SnapshotOpenings DEF Next

-----------------------------------------------------------------------------
(* Payments and what was scheduled *)

PensionYearOf(y) == 1 + y - YearOf(holder.eligible)
WithinLimit(p) ==
  PensionYearOf(YearOf(p.day)) =< LimitFinalYear =>
    p.gross * 100 * (LimitFinalYear + 1 - PensionYearOf(YearOf(p.day))) =< opening[YearOf(p.day)] * LimitMultiplier
Limits == \A p \in payouts : Eligible(p.day) /\ Passed(p.day) /\ WithinLimit(p)

\* What was paid and what was not are what the attempted years had scheduled.
PaidAsScheduled ==
  /\ PaidOut + Total(shortfalls) = SumFunctionOnSet(plan.withdrawals, Attempts)
  /\ \A d \in Days : ~ Passed(d) => shortfalls[d] = 0
  /\ phase = "done" => LastNav = Nav

PaidInv ==
  \/ phase = "stopped" /\ payouts = {}
  \/ /\ Openings /\ Limits
     /\ Len(navs) = IF phase = "done" THEN day ELSE day - 1
     /\ phase # "stopped" => PaidAsScheduled

\* Who was paid was measured before.
LEMMA PaidAfterMeasured ==
  ASSUME AccountInv, NEW d \in Days, Eligible(d), Passed(d) \/ (d = day /\ Late)
  PROVE  /\ YearOf(d) \in Years /\ Opened(MeasuredOn(YearOf(d)))
         /\ holder.started \in Days /\ holder.started =< d
<1>1. holder \in Holders /\ holder.started # Never /\ holder.started =< d /\ day \in Nat
  BY DayFacts DEF AccountInv, Framed, Eligible
<1>2. holder.started \in Days /\ YearOf(d) \in Years /\ FirstDay(YearOf(d)) =< d /\ d \in Nat
      /\ FirstDay(YearOf(d)) \in Nat
  BY <1>1, HolderFacts, DayFacts, SessionsFacts
<1>3. holder.started \in Nat
  BY <1>2, DayFacts
<1>4. MeasuredOn(YearOf(d)) =< d /\ MeasuredOn(YearOf(d)) \in Nat
  BY <1>1, <1>2, <1>3 DEF MeasuredOn
<1>5. d < day \/ (d = day /\ Late)
  BY DEF Passed, Late
<1>6. Opened(MeasuredOn(YearOf(d)))
  BY <1>1, <1>2, <1>4, <1>5 DEF Opened
<1> QED BY <1>1, <1>2, <1>6

\* Payments stay within their limits while their years' values stay.
LEMMA LimitsStay ==
  ASSUME AccountInv, AccountInv', Limits, phase # "stopped", UNCHANGED <<holder, payouts>>,
         \A p \in payouts : opening'[YearOf(p.day)] = opening[YearOf(p.day)],
         phase' = "stopped" => day' = day /\ phase \notin {"snapshot", "done"}
  PROVE  Limits'
<1>1. ASSUME NEW p \in payouts PROVE Eligible(p.day)' /\ Passed(p.day)' /\ WithinLimit(p)'
  <2>1. Eligible(p.day)'
    BY DEF Limits, Eligible
  <2>2. WithinLimit(p)'
    BY DEF Limits, WithinLimit, PensionYearOf
  <2>3. CASE phase' = "stopped"
    <3>1. p.day < day
      BY <2>3, NothingPaidToday
    <3> QED BY <2>1, <2>2, <2>3, <3>1 DEF Passed
  <2>4. CASE phase' # "stopped"
    BY <2>1, <2>2, <2>4 DEF AccountInv, Booked
  <2> QED BY <2>3, <2>4
<1> QED BY <1>1 DEF Limits

\* Opening a year touches no year that has paid.
LEMMA OpenYearLimits ==
  ASSUME AccountInv, Openings, Limits, OpenYear, NEW p \in payouts
  PROVE  opening'[YearOf(p.day)] = opening[YearOf(p.day)]
<1>1. p.day \in Days /\ Eligible(p.day) /\ Passed(p.day) /\ Len(navs) = day - 1 /\ phase = "open"
  BY DEF AccountInv, Booked, Limits, OpenYear
<1>2. YearOf(p.day) \in Years /\ Opened(MeasuredOn(YearOf(p.day)))
  BY <1>1, PaidAfterMeasured
<1>3. opening[YearOf(p.day)] = Measured(YearOf(p.day)) /\ Measured(YearOf(p.day)) \in Nat
  BY <1>1, <1>2, MeasuredIsNat DEF Openings
<1>4. opening[YearOf(p.day)] # -1
  BY <1>3
<1> DEFINE z == YearOf(day)
<1>5. opening' = opening \/ (opening[z] = -1 /\ opening' = [opening EXCEPT ![z] = OpeningValue])
  BY DEF OpenYear
<1>6. opening \in [Years -> Nat \cup {-1}]
  BY DEF AccountInv, Booked
<1> QED BY <1>2, <1>4, <1>5, <1>6

\* A lawful payment is within the limit of its year.
LEMMA PayoutLimits ==
  ASSUME AccountInv, AccountInv', Openings, Limits, Payout
  PROVE  Limits'
<1>1. /\ phase = "payout" /\ phase' = "snapshot" /\ UNCHANGED <<holder, opening, day>> /\ Due
      /\ (Payable > 0 => Lawful)
  BY DEF Payout, config
<1>2. /\ Payable # 0 => \E p \in payouts' : payouts' = payouts \cup {p} /\ p.day = day /\ p.gross = Payable
      /\ Payable = 0 => payouts' = payouts
      /\ Payable \in Nat /\ day \in Days /\ Eligible(day)
  BY <1>1, PayoutBooks, PayableFacts DEF AccountInv, Framed, Due
<1>3. \A p \in payouts' : Passed(p.day)'
  BY <1>1 DEF AccountInv, Booked
<1>4. ASSUME NEW p \in payouts PROVE Eligible(p.day)' /\ WithinLimit(p)'
  BY <1>1 DEF Limits, Eligible, WithinLimit, PensionYearOf
<1>5. ASSUME NEW p, p.day = day, p.gross = Payable, Payable # 0 PROVE Eligible(p.day)' /\ WithinLimit(p)'
  <2> DEFINE y == YearOf(day)
             k == LimitFinalYear + 1 - PensionYear
  <2>1. Eligible(p.day)'
    BY <1>1, <1>2, <1>5 DEF Eligible
  <2>2. y \in Years /\ Opened(MeasuredOn(y))
    BY <1>1, <1>2, PaidAfterMeasured DEF Late
  <2>3. opening[y] \in Nat
    <3>1. opening[y] = Measured(y)
      BY <2>2 DEF Openings
    <3> QED BY <1>1, <2>2, <3>1, MeasuredIsNat
  <2>4. PensionYear = PensionYearOf(y) /\ PensionYear \in Int
    <3>1. y \in Int /\ YearOf(holder.eligible) \in Int
      <4>1. y \in Years /\ holder.eligible \in Days
        BY <1>2, <2>2, HolderFacts DEF AccountInv, Framed
      <4>2. YearOf(holder.eligible) \in Years
        BY <4>1, DayFacts
      <4> HIDE DEF y
      <4>3. Years \subseteq Int
        BY YearFacts
      <4> QED BY <4>1, <4>2, <4>3
    <3> QED BY <3>1 DEF PensionYear, PensionYearOf
  <2>5. ASSUME PensionYear =< LimitFinalYear PROVE Payable * 100 * k =< opening[y] * LimitMultiplier
    <3>1. Payable =< AnnualLimit
      BY <1>1, <1>2, <1>5, <2>5 DEF Lawful
    <3>2. k \in Nat \ {0} /\ LimitMultiplier \in Nat
      BY <2>4, <2>5, MarketAssumption
    <3>3. AnnualLimit = (opening[y] * LimitMultiplier) \div (100 * k)
      <4>1. Greater(0, opening[y]) = opening[y]
        BY <2>3 DEF Greater
      <4> QED BY <4>1 DEF AnnualLimit
    <3> HIDE DEF k, y
    <3>4. opening[y] * LimitMultiplier \in Nat /\ 100 * k \in Nat \ {0}
      BY <2>3, <3>2, ProductIsNat
    <3>5. AnnualLimit \in Nat /\ (100 * k) * AnnualLimit =< opening[y] * LimitMultiplier
      BY <3>3, <3>4, Quotient
    <3>6. (100 * k) * Payable =< (100 * k) * AnnualLimit
      BY <1>2, <3>1, <3>4, <3>5, ProductIsMonotone
    <3>7. Payable * 100 * k = (100 * k) * Payable
      BY <1>2, <3>2
    <3>8. (100 * k) * Payable \in Nat /\ (100 * k) * AnnualLimit \in Nat
      BY <1>2, <3>4, <3>5, ProductIsNat
    <3> QED BY <3>4, <3>5, <3>6, <3>7, <3>8
  <2>6. WithinLimit(p)
    BY <1>5, <2>4, <2>5 DEF WithinLimit
  <2>7. WithinLimit(p)'
    BY <1>1, <2>6 DEF WithinLimit, PensionYearOf
  <2> QED BY <2>1, <2>7
<1>6. \A p \in payouts' : Eligible(p.day)' /\ WithinLimit(p)'
  BY <1>2, <1>4, <1>5
<1> QED BY <1>3, <1>6 DEF Limits

\* A step that pays nothing settles nothing.
LEMMA SettledStays ==
  ASSUME AccountInv, PaidAsScheduled, UNCHANGED <<plan, payouts, shortfalls>>, Attempts' = Attempts,
         \A d \in Days : Passed(d) => Passed(d)', phase' = "done" => LastNav' = Nav'
  PROVE  PaidAsScheduled'
<1>1. PaidOut' = PaidOut /\ Total(shortfalls)' = Total(shortfalls)
  BY DEF PaidOut
<1>2. SumFunctionOnSet(plan.withdrawals, Attempts)' = SumFunctionOnSet(plan.withdrawals, Attempts)
  BY Zenon
<1> QED BY <1>1, <1>2 DEF PaidAsScheduled

\* A payout pays or misses what its year had scheduled.
LEMMA PayoutSettles ==
  ASSUME AccountInv, PaidAsScheduled, Payout
  PROVE  PaidAsScheduled'
<1>1. /\ phase = "payout" /\ phase' = "snapshot" /\ UNCHANGED <<plan, day>>
      /\ shortfalls' = [shortfalls EXCEPT ![day] = Requested - Payable]
  BY DEF Payout, config
<1>2. Framed /\ Booked /\ Attempted /\ plan \in Plans /\ day \in Days /\ day \in Nat
  BY DayFacts DEF AccountInv, Framed
<1>3. Requested \in Nat /\ Payable \in Nat /\ Payable =< Requested /\ PaidOut \in Nat /\ PaidOut' = PaidOut + Payable
  BY <1>2, PayableFacts, PayoutBooks, PaidOutFacts
<1> DEFINE z == YearOf(day)
           w == plan.withdrawals
<1>4. Attempts' = Attempts \cup {z} /\ z \notin Attempts /\ z \in Years /\ Attempts \in SUBSET Years
  <2>1. [Next]_vars
    BY DEF Next
  <2>2. Attempts \in SUBSET Years
    BY DEF Attempts
  <2> QED BY <1>2, <2>1, <2>2, AttemptedStep
<1>5. w \in [Years -> Nat] /\ Requested = w[z] /\ w' = w
  BY <1>1, <1>2, PlansAssumption DEF Requested
<1>6. Total(shortfalls)' = Total(shortfalls) + (Requested - Payable) /\ Total(shortfalls) \in Nat
  <2>1. ~ Passed(day) /\ shortfalls[day] = 0
    BY <1>1, <1>2 DEF Passed, PaidAsScheduled
  <2>2. shortfalls \in [Days -> Nat] /\ shortfalls' \in [Days -> Nat] /\ IsFiniteSet(Days)
    BY <1>1, <1>2, <1>3, YearFacts DEF Booked
  <2>3. shortfalls'[day] = Requested - Payable /\ \A d \in Days : d # day => shortfalls'[d] = shortfalls[d]
    BY <1>1, <1>2, <2>2
  <2>4. /\ Total(shortfalls) \in Nat
        /\ Total(shortfalls') = Total(shortfalls) - shortfalls[day] + shortfalls'[day]
    BY <1>2, <2>2, <2>3, TotalOfChanged, ZenonT(40)
  <2> QED BY <1>3, <2>1, <2>3, <2>4
<1>7. SumFunctionOnSet(w, Attempts)' = SumFunctionOnSet(w, Attempts) + Requested
  <2>1. IsFiniteSet(Attempts)
    BY <1>4, SomeYears
  <2>2. \A y \in Attempts \cup {z} : w[y] \in Int
    BY <1>4, <1>5
  <2>3. SumFunctionOnSet(w, Attempts \cup {z}) = SumFunctionOnSet(w, Attempts) + w[z]
    BY <1>4, <2>1, <2>2, SumOfMore
  <2> QED BY <1>4, <1>5, <2>3
<1>8. PaidOut + Total(shortfalls) = SumFunctionOnSet(w, Attempts)
  BY DEF PaidAsScheduled
<1>9. ASSUME NEW d \in Days, ~ Passed(d)' PROVE shortfalls'[d] = 0
  <2>1. d # day /\ ~ Passed(d)
    BY <1>1, <1>9 DEF Passed
  <2>2. shortfalls \in [Days -> Nat] /\ shortfalls[d] = 0
    BY <1>2, <2>1 DEF Booked, PaidAsScheduled
  <2> QED BY <1>1, <2>1, <2>2
<1>10. PaidOut' + Total(shortfalls)' = SumFunctionOnSet(w, Attempts)'
  <2> HIDE DEF w, z
  <2> QED BY <1>3, <1>6, <1>7, <1>8
<1> QED BY <1>1, <1>9, <1>10 DEF PaidAsScheduled

\* Every step of a running account keeps its payments settled.
LEMMA SettledStep ==
  ASSUME AccountInv, PaidAsScheduled, [Next]_vars, phase' # "stopped"
  PROVE  PaidAsScheduled'
<1>0. Framed /\ Attempted /\ day \in Nat /\ (~ Payout => Attempts' = Attempts)
  BY AttemptedStep, DayFacts DEF AccountInv, Framed
<1>1. CASE PlanContributions \/ Market \/ Contribute \/ Execute \/ OpenYear
  <2>1. /\ UNCHANGED <<plan, payouts, shortfalls, day>> /\ phase \notin {"snapshot", "done", "payout"}
        /\ phase' \notin {"snapshot", "done"}
    BY <1>1 DEF PlanContributions, Market, Contribute, Execute, OpenYear, config, paid
  <2>2. \A d \in Days : Passed(d) => Passed(d)'
    BY <2>1 DEF Passed
  <2>3. ~ Payout
    BY <2>1 DEF Payout
  <2> QED BY <1>0, <2>1, <2>2, <2>3, SettledStays
<1>2. CASE NoPayout
  <2>1. /\ UNCHANGED <<plan, payouts, shortfalls, day>> /\ phase = "payout" /\ phase' = "snapshot" /\ ~ Due
    BY <1>2 DEF NoPayout, config, paid
  <2>2. \A d \in Days : Passed(d) => Passed(d)'
    BY <2>1 DEF Passed
  <2>3. ~ Payout
    BY <2>1 DEF Payout
  <2> QED BY <1>0, <2>1, <2>2, <2>3, SettledStays
<1>3. CASE Snapshot
  <2>1. /\ UNCHANGED <<plan, payouts, shortfalls, cash, units, price, receivables>> /\ phase = "snapshot" /\ navs' = Append(navs, Nav)
        /\ (day' = day + 1 /\ phase' = "market") \/ (day' = day /\ phase' = "done")
    BY <1>3 DEF Snapshot, config, paid
  <2>2. \A d \in Days : Passed(d) => Passed(d)'
    BY <1>0, <2>1, YearFacts DEF Passed
  <2>3. ~ Payout
    BY <2>1 DEF Payout
  <2>4. Nav' = Nav /\ LastNav' = Nav
    <3>1. Nav' = Nav
      BY <2>1 DEF Nav, Receivable, Scaled
    <3>2. navs \in Seq(Nat) /\ Nav \in Nat
      BY PaidOutFacts DEF AccountInv, Booked
    <3>3. navs' # <<>> /\ navs'[Len(navs')] = Nav
      BY <2>1, <3>2
    <3> QED BY <3>1, <3>3 DEF LastNav
  <2> QED BY <1>0, <2>1, <2>2, <2>3, <2>4, SettledStays
<1>4. CASE UNCHANGED vars
  <2>1. UNCHANGED <<plan, phase, payouts, shortfalls, day, navs, cash, units, price, receivables>>
    BY <1>4 DEF vars
  <2>2. \A d \in Days : Passed(d) => Passed(d)'
    BY <2>1 DEF Passed
  <2>3. phase' = "done" => LastNav' = Nav'
    BY <2>1 DEF PaidAsScheduled, LastNav, Nav, Receivable, Scaled
  <2>4. Attempts' = Attempts
    BY <1>4 DEF vars, Attempts, DueIn, PayoutDay, Eligible, Passed
  <2> QED BY <2>1, <2>2, <2>3, <2>4, SettledStays
<1>5. CASE RejectPlan \/ RefusePayout
  BY <1>5 DEF RejectPlan, RefusePayout
<1> QED BY <1>1, <1>2, <1>3, <1>4, <1>5, PayoutSettles DEF Next

\* Nothing is paid or measured at first.
LEMMA PaidInitially == Init => PaidInv
<1> SUFFICES ASSUME Init PROVE PaidInv
  OBVIOUS
<1>1. /\ phase = "plan" /\ day = 1 /\ navs = <<>> /\ payouts = {} /\ holder \in Holders
      /\ opening = [y \in Years |-> -1] /\ shortfalls = [d \in Days |-> 0]
  BY DEF Init
<1>2. Openings
  <2>1. ASSUME NEW y \in Years PROVE ~ Opened(MeasuredOn(y)) /\ opening[y] = -1
    <3>1. MeasuredOn(y) \in Nat /\ MeasuredOn(y) >= 1
      BY <1>1, MeasuredOnFacts, DayFacts
    <3> QED BY <1>1, <3>1 DEF Opened, Late
  <2> QED BY <2>1 DEF Openings
<1>3. PaidOut = 0
  BY <1>1, GrossOfNone DEF PaidOut, GrossOf
<1>4. Total(shortfalls) = 0
  <2>1. IsFiniteSet(Days) /\ \A d \in Days : shortfalls[d] = 0
    BY <1>1, YearFacts
  <2>2. DOMAIN shortfalls = Days
    BY <1>1
  <2>3. Total(shortfalls) = SumFunctionOnSet(shortfalls, Days)
    BY <2>2, TotalIsSum
  <2> QED BY <2>1, <2>3, SumOfZeros
<1>5. SumFunctionOnSet(plan.withdrawals, Attempts) = 0
  <2>1. ASSUME NEW y \in Years PROVE ~ Passed(LastDay(y))
    <3>1. LastDay(y) \in Nat /\ LastDay(y) >= 1
      BY LastDayIsNat, DayFacts
    <3> QED BY <1>1, <3>1 DEF Passed
  <2>2. Attempts = {}
    BY <2>1 DEF Attempts
  <2> QED BY <2>2, SumOfNone
<1>6. PaidAsScheduled
  BY <1>1, <1>3, <1>4, <1>5 DEF PaidAsScheduled
<1> QED BY <1>1, <1>2, <1>6 DEF PaidInv, Limits

\* Every step keeps the payments within their limits.
LEMMA LimitsStep ==
  ASSUME AccountInv, AccountInv', Openings, Limits, [Next]_vars, phase # "stopped"
  PROVE  Limits'
<1>1. CASE OpenYear
  <2>1. UNCHANGED <<holder, payouts>> /\ phase' = "payout"
    BY <1>1 DEF OpenYear, config, paid
  <2>2. \A p \in payouts : opening'[YearOf(p.day)] = opening[YearOf(p.day)]
    BY <1>1, OpenYearLimits
  <2> QED BY <2>1, <2>2, LimitsStay
<1>2. CASE PlanContributions \/ RejectPlan \/ Market \/ Contribute \/ Execute \/ NoPayout \/ RefusePayout
           \/ Snapshot \/ UNCHANGED vars
  <2>1. UNCHANGED <<holder, payouts, opening>>
    BY <1>2 DEF PlanContributions, RejectPlan, Market, Contribute, Execute, NoPayout, RefusePayout, Snapshot,
                vars, config, paid
  <2>2. phase' = "stopped" => day' = day /\ phase \notin {"snapshot", "done"}
    BY <1>2 DEF PlanContributions, RejectPlan, Market, Contribute, Execute, NoPayout, RefusePayout, Snapshot, vars
  <2> QED BY <2>1, <2>2, LimitsStay
<1> QED BY <1>1, <1>2, PayoutLimits DEF Next

\* Every step keeps the payments' invariant.
LEMMA PaidStep ==
  ASSUME AccountInv, AccountInv', PaidInv, [Next]_vars
  PROVE  PaidInv'
<1>0. Framed /\ Booked /\ Booked' /\ day \in Nat /\ navs \in Seq(Nat)
  BY DayFacts DEF AccountInv, Framed, Booked
<1>1. CASE phase = "stopped"
  <2>1. UNCHANGED vars
    BY <1>1 DEF Next, PlanContributions, RejectPlan, Market, Contribute, Execute, OpenYear, Payout, NoPayout,
                RefusePayout, Snapshot
  <2>2. UNCHANGED <<plan, holder, phase, day, opening, navs, payouts>>
    BY <2>1 DEF vars
  <2>3. CASE payouts = {}
    BY <1>1, <2>2, <2>3 DEF PaidInv
  <2>4. CASE payouts # {}
    <3>1. Openings /\ Limits /\ Len(navs) = day - 1
      BY <1>1, <2>4 DEF PaidInv
    <3>2. Openings'
      BY <1>0, <2>1, <3>1, OpeningsStep, <1>1 DEF RejectPlan
    <3>3. Limits'
      BY <2>2, <3>1 DEF Limits, Eligible, Passed, WithinLimit, PensionYearOf
    <3> QED BY <1>1, <2>2, <3>1, <3>2, <3>3 DEF PaidInv
  <2> QED BY <2>3, <2>4
<1>2. CASE RejectPlan
  <2>1. phase = "plan" /\ phase' = "stopped" /\ payouts' = payouts
    BY <1>2 DEF RejectPlan, paid
  <2>2. ASSUME NEW p \in payouts PROVE FALSE
    <3>1. p.day \in Nat /\ p.day >= 1 /\ day = 1
      BY <1>0, <2>1, DayFacts DEF Booked, Framed
    <3>2. p.day < day
      BY <1>0, <2>1 DEF Booked, Passed
    <3> QED BY <3>1, <3>2
  <2> QED BY <2>1, <2>2 DEF PaidInv
<1>3. CASE phase # "stopped" /\ ~ RejectPlan
  <2>1. Openings /\ Limits /\ PaidAsScheduled /\ Len(navs) = IF phase = "done" THEN day ELSE day - 1
    BY <1>3 DEF PaidInv
  <2>2. Openings'
    <3>1. Len(navs) >= day - 1
      BY <1>0, <2>1
    <3> QED BY <1>3, <2>1, <3>1, OpeningsStep
  <2>3. Limits'
    BY <1>3, <2>1, LimitsStep
  <2>4. phase' # "stopped" => PaidAsScheduled'
    BY <2>1, SettledStep
  <2>5. Len(navs') = IF phase' = "done" THEN day' ELSE day' - 1
    <3>1. CASE phase' # "stopped"
      BY <1>0, <3>1 DEF Booked
    <3>2. CASE phase' = "stopped"
      <4>1. RefusePayout
        BY <1>3, <3>2 DEF Next, vars, PlanContributions, Market, Contribute, Execute, OpenYear, Payout, NoPayout, Snapshot
      <4>2. phase = "payout" /\ UNCHANGED <<navs, day>>
        BY <4>1 DEF RefusePayout, config
      <4> QED BY <2>1, <3>2, <4>2
    <3> QED BY <3>1, <3>2
  <2> QED BY <2>2, <2>3, <2>4, <2>5 DEF PaidInv
<1> QED BY <1>1, <1>2, <1>3

\* Limits kept on measured values are kept on the values on record.
LEMMA PaidIsLawful ==
  ASSUME AccountInv, PaidInv
  PROVE  PayoutsLawful
<1> SUFFICES ASSUME NEW p \in payouts, p.day =< Len(navs),
                    NEW y, y = YearOf(p.day), 1 + y - YearOf(holder.eligible) =< LimitFinalYear,
                    NEW value, value = IF y = YearOf(holder.started)
                                       THEN navs[holder.started] + MapThenSumSet(Gross, {q \in payouts : q.day = holder.started})
                                       ELSE navs[FirstDay(y) - 1]
             PROVE  p.gross * 100 * (LimitFinalYear + 1 - (1 + y - YearOf(holder.eligible))) =< value * LimitMultiplier
  BY DEF PayoutsLawful
<1>1. Openings /\ Limits
  BY DEF PaidInv
<1>2. Eligible(p.day) /\ Passed(p.day) /\ WithinLimit(p) /\ p.day \in Days /\ p.day \in Nat /\ holder \in Holders
      /\ navs \in Seq(Nat)
  BY <1>1, DayFacts DEF AccountInv, Framed, Booked, Limits
<1>3. y \in Years /\ Opened(MeasuredOn(y)) /\ holder.started \in Days /\ holder.started =< p.day /\ holder.started # Never
  BY <1>2, PaidAfterMeasured DEF Eligible
<1>4. opening[y] = Measured(y)
  BY <1>1, <1>3 DEF Openings
<1>5. value = Measured(y)
  <2>1. CASE y = YearOf(holder.started)
    <3>1. StartsIn(y)
      BY <1>3, <2>1 DEF StartsIn
    <3>2. NavOf(holder.started) = navs[holder.started]
      <4>1. holder.started \in Nat /\ Len(navs) \in Nat
        BY <1>2, <1>3, DayFacts
      <4>2. holder.started =< Len(navs)
        BY <1>2, <1>3, <4>1
      <4> QED BY <4>2 DEF NavOf
    <3> QED BY <2>1, <3>1, <3>2 DEF Measured, PaidOn, GrossOf
  <2>2. CASE y # YearOf(holder.started)
    <3>1. ~ StartsIn(y)
      BY <2>2 DEF StartsIn
    <3>2. FirstDay(y) # 1
      <4>1. YearOf(holder.started) =< y /\ YearOf(holder.started) \in Nat /\ y \in Nat /\ YearOf(holder.started) >= 1
        <5>1. YearOf(holder.started) \in Years /\ YearOf(holder.started) =< YearOf(p.day)
          BY <1>2, <1>3, YearsInOrder, DayFacts
        <5>2. \A z \in Years : z \in Nat /\ z >= 1
          BY DEF Years
        <5> QED BY <1>3, <5>1, <5>2
      <4>2. y >= 2
        BY <2>2, <4>1
      <4>3. (y - 1) * SessionsPerYear >= 1
        <5>1. ASSUME NEW a \in Nat \ {0}, NEW b \in Nat \ {0} PROVE a * b >= 1
          OBVIOUS
        <5> QED BY <4>1, <4>2, <5>1, CalendarAssumption
      <4>4. (y - 1) * SessionsPerYear \in Int
        BY <4>1, CalendarAssumption
      <4> QED BY <4>3, <4>4 DEF FirstDay
    <3> QED BY <2>2, <3>1, <3>2 DEF Measured
  <2> QED BY <2>1, <2>2
<1> QED BY <1>2, <1>4, <1>5 DEF WithinLimit, PensionYearOf

\* A complete path has paid what was scheduled and holds nothing.
LEMMA PaidIsInFull ==
  ASSUME AccountInv, PaidInv
  PROVE  TerminalPaidInFull
<1> SUFFICES ASSUME phase = "done", RetirementTerminal
             PROVE  PaidOut = Total(plan.withdrawals) /\ cash = 0 /\ Receivable = 0 /\ units * price < UnitScale
  BY DEF TerminalPaidInFull
<1> DEFINE w == plan.withdrawals
           W == {y \in Years : w[y] > 0}
<1>1. /\ attempted = Cardinality(W) /\ (\A d \in Days : shortfalls[d] = 0) /\ LastNav = 0
  BY DEF RetirementTerminal
<1>2. Framed /\ Booked /\ attempted = Cardinality(Attempts) /\ PaidAsScheduled
  BY DEF AccountInv, Attempted, PaidInv
<1>3. w \in [Years -> Nat]
  BY <1>2, PlansAssumption DEF Framed
<1>4. Attempts = W
  <2>1. Attempts \subseteq W
    <3>1. ASSUME NEW y \in Attempts PROVE y \in W
      <4>1. y \in Years /\ PayoutDay(LastDay(y))
        BY DEF Attempts, DueIn
      <4>2. LastDay(y) \in FirstDay(y) .. LastDay(y)
        BY <4>1, CalendarFacts, SessionsFacts
      <4>3. YearOf(LastDay(y)) = y
        BY <4>1, <4>2, CalendarFacts
      <4> QED BY <4>1, <4>3 DEF PayoutDay
    <3> QED BY <3>1
  <2>2. IsFiniteSet(W)
    BY SomeYears
  <2> HIDE DEF W
  <2> QED BY <1>1, <1>2, <2>1, <2>2, FS_Subset
<1>5. PaidOut = Total(w)
  <2>1. Total(shortfalls) = 0
    <3>1. shortfalls \in [Days -> Nat] /\ IsFiniteSet(Days)
      BY <1>2, YearFacts DEF Booked
    <3>2. Total(shortfalls) = SumFunctionOnSet(shortfalls, DOMAIN shortfalls) /\ DOMAIN shortfalls = Days
      BY <3>1, TotalIsSum
    <3> QED BY <1>1, <3>1, <3>2, SumOfZeros
  <2>2. PaidOut \in Nat /\ PaidOut + Total(shortfalls) = SumFunctionOnSet(w, W)
    BY <1>2, <1>4, PaidOutFacts DEF PaidAsScheduled
  <2>3. SumFunctionOnSet(w, Years) = SumFunctionOnSet(w, W)
    <3> DEFINE V == Years \ W
    <3>1. IsFiniteSet(W) /\ IsFiniteSet(V) /\ W \cap V = {} /\ W \cup V = Years
      BY SomeYears
    <3>2. \A y \in W \cup V : w[y] \in Int
      BY <1>3
    <3>3. \A y \in V : w[y] = 0
      BY <1>3
    <3>4. \A y \in W : w[y] \in Nat
      BY <1>3
    <3> HIDE DEF V, W, w
    <3>5. SumFunctionOnSet(w, W \cup V) = SumFunctionOnSet(w, W) + SumFunctionOnSet(w, V)
      BY <3>1, <3>2, SumOfUnion
    <3>6. SumFunctionOnSet(w, V) = 0 /\ SumFunctionOnSet(w, W) \in Nat
      BY <3>1, <3>3, <3>4, SumOfZeros, SumIsNat
    <3> QED BY <3>1, <3>5, <3>6
  <2>4. Total(w) = SumFunctionOnSet(w, Years)
    <3>1. DOMAIN w = Years
      BY <1>3
    <3> QED BY <3>1, TotalIsSum
  <2> QED BY <2>1, <2>2, <2>3, <2>4
<1>6. cash = 0 /\ Receivable = 0 /\ units * price < UnitScale
  <2>1. Nav = 0
    BY <1>1, <1>2 DEF PaidAsScheduled
  <2>2. cash \in Nat /\ Receivable \in Nat /\ units \in Nat /\ price \in Nat /\ UnitScale \in Nat \ {0}
    BY <1>2, PaidOutFacts, PriceFacts DEF Booked
  <2>3. ASSUME NEW a \in Nat, NEW v \in Nat, NEW s \in Nat \ {0}, (a * s + v) \div s = 0
        PROVE  a = 0 /\ v < s
    <3>1. a * s \in Nat
      BY ProductIsNat
    <3>2. a * s + v < s
      <4>1. a * s + v \in Int
        BY <3>1
      <4>2. a * s + v < s * ((a * s + v) \div s) + s
        BY <4>1, Quotient
      <4> QED BY <2>3, <4>2
    <3>3. a >= 1 => a * s >= s
      OBVIOUS
    <3> QED BY <3>1, <3>2, <3>3
  <2>4. units * price \in Nat /\ cash + Receivable \in Nat
    BY <2>2, ProductIsNat
  <2>5. ((cash + Receivable) * UnitScale + units * price) \div UnitScale = 0
    BY <2>1 DEF Nav, Scaled
  <2>6. cash + Receivable = 0 /\ units * price < UnitScale
    BY <2>2, <2>3, <2>4, <2>5
  <2> QED BY <2>2, <2>6
<1> QED BY <1>5, <1>6

\* Whatever the plan, the holder and the market, every payment is within the limit
\* measured on the value before its year or at the pension's start, and a path is
\* called complete only when it paid all that was scheduled and holds nothing
\* (pension_engine.py:343-381 and 449).
THEOREM PayoutsAreSound == PensionSpec => []PayoutsSound
<1>1. PensionInit => AccountInv /\ PaidInv
  BY LedgerOfResearch, AccountInitially, PaidInitially
<1>2. AccountInv /\ PaidInv /\ [PensionNext]_<<subject, vars, panelsVars, fxVars, campaignVars, selectionVars>>
        => (AccountInv /\ PaidInv)'
  BY LedgerOfResearch, AccountStep, PaidStep
<1>3. AccountInv /\ PaidInv => PayoutsSound
  BY PaidIsLawful, PaidIsInFull DEF PayoutsSound
<1> QED BY <1>1, <1>2, <1>3, PTL DEF PensionSpec

-----------------------------------------------------------------------------
(* The won rate of a campaign *)

\* What the second source had told a campaign of this day.
SecondQuotes == IF held["fx"] = "absent" THEN {} ELSE {q \in fallback : q.at <= fxDay}

\* An accepted campaign holds what the two sources admit on its day.
FxInv ==
  /\ fxDay \in 0 .. LastQuoteDay
  /\ baseQuotes \subseteq 1 .. LastQuoteDay
  /\ fallback \subseteq [date : 1 .. LastQuoteDay, at : Nat]
  /\ held \in [Sources -> {"absent", "damaged", "trusted"}]
  /\ Accepted => /\ SourcesHold /\ held["cpi"] # "damaged" /\ baseQuotes # {}
                 /\ campaign.admitted = Admitted(baseQuotes, SecondQuotes)
                 /\ ~OverCap(FallbackSessions(baseQuotes, campaign.admitted))

LEMMA FxInitially == FxInit => FxInv
BY FxAssumption DEF FxInit, FxInv, Accepted

LEMMA FxStep == FxInv /\ [FxNext]_fxVars => FxInv'
<1> SUFFICES ASSUME FxInv, [FxNext]_fxVars PROVE FxInv'
  OBVIOUS
<1>1. CASE QuoteDay
  <2>1. fxDay + 1 \in 1 .. LastQuoteDay /\ fxDay' = fxDay + 1
    BY <1>1, FxAssumption DEF QuoteDay, FxInv
  <2>2. baseQuotes' \subseteq 1 .. LastQuoteDay
    BY <1>1, <2>1 DEF QuoteDay, FxInv
  <2>3. fallback' \subseteq [date : 1 .. LastQuoteDay, at : Nat]
    <3>1. PICK second \in {{}} \cup {{late} : late \in Lateness} :
            fallback' = fallback \cup {[date |-> fxDay', at |-> fxDay' + late] : late \in second}
      BY <1>1 DEF QuoteDay
    <3>2. second \subseteq Nat
      BY FxAssumption
    <3>3. \A late \in second : [date |-> fxDay', at |-> fxDay' + late] \in [date : 1 .. LastQuoteDay, at : Nat]
      BY <2>1, <3>2
    <3> QED BY <3>1, <3>3 DEF FxInv
  <2>4. ~Accepted'
    BY <1>1 DEF QuoteDay, Accepted
  <2> QED BY <1>1, <2>1, <2>2, <2>3, <2>4 DEF QuoteDay, FxInv
<1>2. CASE FailCampaign
  BY <1>2 DEF FailCampaign, FxInv, Accepted
<1>3. CASE RunCampaign
  <2>1. UNCHANGED <<fxDay, baseQuotes, fallback, held>> /\ SourcesHold /\ baseQuotes # {}
    BY <1>3 DEF RunCampaign
  <2> DEFINE admitted == Admitted(baseQuotes, SecondQuotes)
  <2>2. Accepted' => held["cpi"] # "damaged" /\ campaign'.admitted = admitted /\ ~OverCap(FallbackSessions(baseQuotes, admitted))
    BY <1>3 DEF RunCampaign, Accepted, SecondQuotes
  <2>3. admitted' = admitted /\ SourcesHold'
    BY <2>1 DEF Admitted, SecondQuotes, SourcesHold
  <2>4. \A a : OverCap(FallbackSessions(baseQuotes, a))' = OverCap(FallbackSessions(baseQuotes, a))
    BY <2>1 DEF OverCap, FallbackSessions, SessionsTraded
  <2> QED BY <2>1, <2>2, <2>3, <2>4 DEF FxInv, OverCap, FallbackSessions, SessionsTraded
<1>4. CASE UNCHANGED fxVars
  BY <1>4 DEF fxVars, FxInv, Accepted, SourcesHold, Admitted, SecondQuotes, OverCap, FallbackSessions, SessionsTraded
<1> QED BY <1>1, <1>2, <1>3, <1>4 DEF FxNext

LEMMA FxInvIsSound == FxInv => FxSound
<1> SUFFICES ASSUME FxInv, Accepted PROVE FxSound
  BY DEF FxSound, FallbackInterior, FallbackShareTrue, DamageNeverAbsence
<1>1. /\ LastQuoteDay \in Nat /\ IsFiniteSet(1 .. LastQuoteDay)
  BY FxAssumption, IntervalIsFinite
<1>2. /\ IsFiniteSet(baseQuotes) /\ baseQuotes # {} /\ baseQuotes \subseteq Int
      /\ campaign.admitted = Admitted(baseQuotes, SecondQuotes)
      /\ ~OverCap(FallbackSessions(baseQuotes, campaign.admitted)) /\ SourcesHold
  <2>1. baseQuotes \subseteq 1 .. LastQuoteDay
    BY DEF FxInv
  <2>2. IsFiniteSet(baseQuotes)
    BY <1>1, <2>1, FS_Subset
  <2> QED BY <2>1, <2>2 DEF FxInv
<1>3. Min(baseQuotes) \in baseQuotes /\ Max(baseQuotes) \in baseQuotes
  BY <1>2, ExtremesOf
<1>4. ASSUME NEW d \in campaign.admitted
      PROVE  /\ d \notin baseQuotes /\ Min(baseQuotes) < d /\ d < Max(baseQuotes)
             /\ [date |-> d, at |-> d] \in fallback /\ d \in 1 .. LastQuoteDay
  BY <1>2 DEF Admitted, SecondQuotes, FxInv
<1>5. FallbackInterior
  BY <1>3, <1>4 DEF FallbackInterior
<1>6. FallbackShareTrue
  <2> DEFINE quotes == baseQuotes \cup campaign.admitted
             valuedOn(s) == {d \in quotes : d <= s /\ \A e \in quotes : e <= s => e <= d}
             truly == {s \in SessionsTraded : \E d \in valuedOn(s) : d \notin baseQuotes}
  <2>1. quotes \subseteq 1 .. LastQuoteDay
    BY <1>4 DEF FxInv
  <2>2. ASSUME NEW s \in SessionsTraded
        PROVE  (\E d \in valuedOn(s) : d \notin baseQuotes)
                 <=> LET known == {d \in quotes : d <= s} IN known # {} /\ Max(known) \in campaign.admitted
    <3> DEFINE known == {d \in quotes : d <= s}
    <3>1. known \subseteq 1 .. LastQuoteDay
      BY <2>1
    <3>2. IsFiniteSet(known) /\ known \subseteq Int
      BY <1>1, <3>1, FS_Subset
    <3>3. known # {} => Max(known) \in known /\ \A e \in known : e <= Max(known)
      <4> HIDE DEF known
      <4> QED BY <3>2, ExtremesOf
    <3>4. \A d \in valuedOn(s) : d \in known /\ d = Max(known)
      <4> SUFFICES ASSUME NEW d \in valuedOn(s) PROVE d \in known /\ d = Max(known)
        OBVIOUS
      <4>1. d \in known /\ \A e \in known : e <= d
        OBVIOUS
      <4>2. Max(known) \in known /\ d <= Max(known) /\ Max(known) <= d
        BY <3>3, <4>1
      <4>3. d \in 1 .. LastQuoteDay /\ Max(known) \in 1 .. LastQuoteDay
        BY <3>1, <4>1, <4>2
      <4>4. d = Max(known)
        <5> HIDE DEF known, quotes
        <5> QED BY <4>2, <4>3
      <4> QED BY <4>1, <4>4
    <3>5. known # {} => Max(known) \in valuedOn(s)
      BY <3>3
    <3>6. \A d \in quotes : d \notin baseQuotes <=> d \in campaign.admitted
      BY <1>4
    <3> QED BY <3>3, <3>4, <3>5, <3>6
  <2>3. truly = FallbackSessions(baseQuotes, campaign.admitted)
    BY <2>2 DEF FallbackSessions
  <2> HIDE DEF truly
  <2>4. ~(100 * Cardinality(truly) > CapPercent * Cardinality(SessionsTraded))
    BY <1>2, <2>3 DEF OverCap
  <2>5. Cardinality(truly) \in Nat /\ Cardinality(SessionsTraded) \in Nat /\ CapPercent \in Nat
    <3>1. SessionsTraded \subseteq 1 .. LastQuoteDay
      BY FxAssumption DEF SessionsTraded, QuoteDays
    <3>2. IsFiniteSet(SessionsTraded) /\ truly \subseteq SessionsTraded
      BY <1>1, <3>1, FS_Subset DEF truly
    <3>3. IsFiniteSet(truly)
      BY <3>2, FS_Subset
    <3> QED BY <3>2, <3>3, FS_CardinalityType, FxAssumption
  <2>6. 100 * Cardinality(truly) <= CapPercent * Cardinality(SessionsTraded)
    BY <2>4, <2>5
  <2> QED BY <2>6 DEF truly, FallbackShareTrue
<1>7. DamageNeverAbsence
  BY <1>2 DEF FxInv, SourcesHold, Sources, DamageNeverAbsence
<1> QED BY <1>5, <1>6, <1>7 DEF FxSound

\* A behaviour of the research is, seen from the exchange rate, one of it.
LEMMA FxOfResearch ==
  /\ PensionInit => FxInit
  /\ [PensionNext]_<<subject, vars, panelsVars, fxVars, campaignVars, selectionVars>> => [FxNext]_fxVars
BY DEF PensionInit, FxRests, PensionNext

\* Whatever the two sources quote and however late, a campaign fills only days
\* between two quotes of the first, with quotes known on their day; every session
\* that rests on the second counts toward the cap; and what is damaged is never
\* taken for absence (pension_fx.py build_krw_fx_series).
THEOREM ExchangeRateIsSound == PensionSpec => []FxSound
<1>1. PensionInit => FxInv
  BY FxOfResearch, FxInitially
<1>2. FxInv /\ [PensionNext]_<<subject, vars, panelsVars, fxVars, campaignVars, selectionVars>> => FxInv'
  BY FxOfResearch, FxStep
<1> QED BY <1>1, <1>2, FxInvIsSound, PTL DEF PensionSpec

-----------------------------------------------------------------------------
(* The caches of a campaign *)

\* Whatever is cached is what its key stands for.
CachedRight ==
  /\ \A h, w, p : BaselineKey(h, w, p) \in DOMAIN baselineCache =>
       baselineCache[BaselineKey(h, w, p)] = ExitOf(engine[<<Baseline, p, w>>])
  /\ \A h, arm, w : GeneralKey(h, arm, w) \in DOMAIN generalCache =>
       generalCache[GeneralKey(h, arm, w)] = General(arm, Available(w), w)
CampaignInv == cpi \in IndexRows /\ CachedRight /\ CachesFresh /\ RealValuesKnown

\* A cached answer is the engine's.
LEMMA CacheAnswers ==
  ASSUME CachedRight, NEW h, NEW w
  PROVE  /\ \A p : BaselineExit(h, w, p) = ExitOf(engine[<<Baseline, p, w>>])
         /\ \A arm : Cached(generalCache, GeneralKey(h, arm, w), General(arm, Available(w), w)) = General(arm, Available(w), w)
BY Zenon DEF CachedRight, BaselineExit, Cached

\* A shortcut of the side account changes nothing.
LEMMA SideIsGeneral ==
  ASSUME NEW arm, NEW deposit, NEW w
  PROVE  SideValue(arm, deposit, w, General(arm, Available(w), w)) = General(arm, deposit.side, w)
<1>1. ASSUME DOMAIN deposit.side = {} PROVE General(arm, deposit.side, w) = 0
  <2> DEFINE worth(d) == deposit.side[d] * (2 + Yield[arm] * (LastDate(w[2]) - d))
  <2>1. General(arm, deposit.side, w) = MapThenSumSet(worth, {})
    BY <1>1, Zenon DEF General
  <2>2. MapThenSumSet(worth, {}) = SumFunctionOnSet([d \in {} |-> worth(d)], {})
    <3> HIDE DEF worth
    <3> QED BY ZenonT(40) DEF SumFunctionOnSet, MapThenSumSet, FoldFunctionOnSet, MapThenFoldSet
  <2> QED BY <2>1, <2>2, SumOfNone
<1> QED BY <1>1, Zenon DEF SideValue

\* An index value in use was published by its date.
LEMMA IndexKnown ==
  ASSUME cpi \in IndexRows, NEW d, IndexAt(d) # Missing
  PROVE  \E q \in cpi : q.value = IndexAt(d) /\ q.at <= d
<1> DEFINE known == IF cpi = Missing THEN {} ELSE {r \in cpi : r.at <= d}
           period == [r \in known |-> r.period]
           latest == CHOOSE r \in known : \A q \in known : q.period <= r.period
<1>1. known # {} /\ cpi # Missing /\ IndexAt(d) = latest.value
  BY DEF IndexAt
<1>2. IsFiniteSet(known) /\ \A r \in known : period[r] \in Int /\ period[r] = r.period
  BY <1>1, CampaignAssumption, FS_Subset
<1>3. \E r \in known : \A q \in known : period[q] =< period[r]
  <2> HIDE DEF known, period
  <2> QED BY <1>1, <1>2, GreatestPlace
<1>4. latest \in known
  BY <1>2, <1>3
<1> HIDE DEF latest
<1> QED BY <1>1, <1>4

LEMMA RowFacts ==
  ASSUME NEW b, NEW cell, NEW out, NEW base, NEW r, r = Row(b, cell, out, base)
  PROVE  /\ r.profile = cell.profile /\ r.window = cell.window /\ r.base = base
         /\ r.real # Missing => /\ IndexAt(FirstDate(r.window[1])) # Missing /\ IndexAt(LastDate(r.window[2])) # Missing
                                /\ r.real = <<IndexAt(FirstDate(r.window[1])), IndexAt(LastDate(r.window[2]))>>
BY DEF Row

LEMMA CampaignStep == CampaignInv /\ [CampaignNext]_campaignVars => CampaignInv'
<1> SUFFICES ASSUME CampaignInv, [CampaignNext]_campaignVars PROVE CampaignInv'
  OBVIOUS
<1>1. CASE Evaluate
  <2>1. PICK cell, h, arm, out, base, row, general :
          /\ out = engine[<<arm, cell.profile, cell.window>>] /\ arm = ArmOf(block)
          /\ base = BaselineExit(h, cell.window, cell.profile)
          /\ general = Cached(generalCache, GeneralKey(h, arm, cell.window), General(arm, Available(cell.window), cell.window))
          /\ row = Row(block, cell, out, base) /\ rows' = rows \cup {row}
          /\ baselineCache' = Caching(baselineCache, BaselineKey(h, cell.window, cell.profile), base)
          /\ generalCache' \in {generalCache, Caching(generalCache, GeneralKey(h, arm, cell.window), general)}
          /\ householdRows' \in {householdRows, householdRows \cup {HouseholdRow(block, cell, out, general)}}
          /\ engine' = engine /\ cpi' = cpi
    BY <1>1 DEF Evaluate, given
  <2>2. base = ExitOf(engine[<<Baseline, cell.profile, cell.window>>]) /\ general = General(arm, Available(cell.window), cell.window)
    BY <2>1, CacheAnswers DEF CampaignInv
  <2>3. CachedRight'
    <3>1. \A i, w, p : BaselineKey(i, w, p) \in DOMAIN baselineCache' => baselineCache'[BaselineKey(i, w, p)] = ExitOf(engine[<<Baseline, p, w>>])
      BY <2>1, <2>2 DEF CampaignInv, CachedRight, Caching, BaselineKey
    <3>2. \A i, a, w : GeneralKey(i, a, w) \in DOMAIN generalCache' => generalCache'[GeneralKey(i, a, w)] = General(a, Available(w), w)
      BY <2>1, <2>2 DEF CampaignInv, CachedRight, Caching, GeneralKey
    <3> QED BY <2>1, <3>1, <3>2 DEF CachedRight, ExitOf
  <2>4. CachesFresh'
    <3>1. row.base = ExitOf(engine[<<Baseline, row.profile, row.window>>])
      BY <2>1, <2>2, RowFacts
    <3>2. PICK r : r = HouseholdRow(block, cell, out, general)
      OBVIOUS
    <3>3. r.general = General(r.arm, Available(r.window), r.window) /\ r.side = General(r.arm, r.plan.side, r.window)
      <4>1. PICK deposit : deposit = CashPlan(out, cell.window)
        OBVIOUS
      <4>2. /\ r.arm = arm /\ r.window = cell.window /\ r.general = general /\ r.plan = deposit
            /\ r.side = SideValue(arm, deposit, cell.window, general)
        BY <2>1, <3>2, <4>1 DEF HouseholdRow
      <4> QED BY <2>2, <4>2, SideIsGeneral
    <3> QED BY <2>1, <3>1, <3>2, <3>3 DEF CampaignInv, CachesFresh
  <2>5. RealValuesKnown'
    <3>1. row.real # Missing =>
            /\ \E q \in cpi : q.value = row.real[1] /\ q.at <= FirstDate(row.window[1])
            /\ \E q \in cpi : q.value = row.real[2] /\ q.at <= LastDate(row.window[2])
      BY <2>1, RowFacts, IndexKnown DEF CampaignInv
    <3> QED BY <2>1, <3>1 DEF CampaignInv, RealValuesKnown
  <2> QED BY <2>1, <2>3, <2>4, <2>5 DEF CampaignInv
<1>2. CASE Summarize
  <2> DEFINE h == HorizonOf(block)
             asked == IF tally.ratios = {} THEN {} ELSE RollingCohorts(h, h) \X Range(Profiles)
  <2>1. /\ baselineCache' = [k \in DOMAIN baselineCache \cup {BaselineKey(h, a[1], a[2]) : a \in asked} |->
                 IF k \in DOMAIN baselineCache THEN baselineCache[k]
                 ELSE LET a == CHOOSE a \in asked : BaselineKey(h, a[1], a[2]) = k IN BaselineExit(h, a[1], a[2])]
        /\ UNCHANGED <<given, rows, householdRows, generalCache>>
    BY <1>2 DEF Summarize
  <2> HIDE DEF h, asked
  <2>2. ASSUME NEW i, NEW w, NEW p, BaselineKey(i, w, p) \in DOMAIN baselineCache'
        PROVE  baselineCache'[BaselineKey(i, w, p)] = ExitOf(engine[<<Baseline, p, w>>])
    <3> DEFINE k == BaselineKey(i, w, p)
               a == CHOOSE a \in asked : BaselineKey(h, a[1], a[2]) = k
    <3>1. CASE k \in DOMAIN baselineCache
      BY <2>1, <3>1 DEF CampaignInv, CachedRight
    <3>2. CASE k \notin DOMAIN baselineCache
      <4>1. a \in asked /\ BaselineKey(h, a[1], a[2]) = k /\ baselineCache'[k] = BaselineExit(h, a[1], a[2])
        BY <2>1, <2>2, <3>2
      <4>2. a[1] = w /\ a[2] = p
        <5> HIDE DEF a
        <5> QED BY <4>1 DEF BaselineKey
      <4> QED BY <4>1, <4>2, CacheAnswers DEF CampaignInv
    <3> QED BY <3>1, <3>2
  <2>3. engine' = engine /\ cpi' = cpi /\ UNCHANGED <<rows, householdRows, generalCache>>
    BY <2>1 DEF given
  <2>4. CachedRight'
    BY <2>2, <2>3 DEF CampaignInv, CachedRight, ExitOf
  <2> QED BY <2>3, <2>4 DEF CampaignInv, CachesFresh, RealValuesKnown
<1>3. CASE StopCampaign \/ UNCHANGED campaignVars
  BY <1>3 DEF StopCampaign, campaignVars, caches, given, CampaignInv, CachedRight, CachesFresh, RealValuesKnown
<1> QED BY <1>1, <1>2, <1>3 DEF CampaignNext

\* What a campaign reports of a cell is that cell's: the figures its caches
\* give are those the engines answer for this baseline, profile, arm and
\* window, and a real value divides by index values published by its dates
\* (pension_campaign.py:392-408 and :282-297, pension_household.py:302-354).
THEOREM CampaignFiguresAreTheirOwn == PensionSpec => [](CachesFresh /\ RealValuesKnown)
<1>1. PensionInit => CampaignInv
  BY DEF PensionInit, CampaignRests, CampaignInit, CampaignInv, CachedRight, CachesFresh, RealValuesKnown
<1>2. [PensionNext]_<<subject, vars, panelsVars, fxVars, campaignVars, selectionVars>> => [CampaignNext]_campaignVars
  BY DEF PensionNext
<1>3. CampaignInv => CachesFresh /\ RealValuesKnown
  BY DEF CampaignInv
<1> QED BY <1>1, <1>2, <1>3, CampaignStep, PTL DEF PensionSpec

-----------------------------------------------------------------------------
(* The selection: returns multiplied over the panel *)

Factors(x, lo, hi) == \A d \in lo .. hi : x[d] \in Nat
RunsOver(g, x, lo, hi) == g[lo] = 1 /\ \A d \in lo + 1 .. hi : g[d] = g[d - 1] * x[d]

\* A running product over a span of months has a value.
LEMMA RunningProduct ==
  ASSUME NEW lo \in Int, NEW hi \in Int, lo =< hi, NEW x, Factors(x, lo, hi)
  PROVE  \E g \in [lo .. hi -> Nat] : RunsOver(g, x, lo, hi)
<1> USE DEF Factors, RunsOver
<1> DEFINE D == lo .. hi
           m == [d \in D |-> d - lo]
           V == [d \in D |-> [g \in [D -> Nat] |-> IF d = lo THEN 1 ELSE g[d - 1] * x[d]]]
<1>1. ASSUME NEW d \in D, d # lo PROVE d - 1 \in D /\ m[d - 1] < m[d]
  BY <1>1
<1>2. ASSUME NEW d \in D, NEW g \in [D -> Nat] PROVE (IF d = lo THEN 1 ELSE g[d - 1] * x[d]) \in Nat
  BY <1>1
<1>3. V \in [D -> [[D -> Nat] -> Nat]]
  BY <1>2
<1>4. \A d \in D : \A g, h \in [D -> Nat] : (\A e \in D : m[e] < m[d] => g[e] = h[e]) => V[d][g] = V[d][h]
  BY <1>1
<1>5. \E g \in [D -> Nat] : \A d \in D : g[d] = V[d][g]
  <2>1. PICK N \in Nat : N = hi - lo
    OBVIOUS
  <2> DEFINE R == Nat
  <2>3. N \in Nat /\ m \in [D -> 0 .. N] /\ R # {}
    BY <2>1
  <2>2. RecursOn(D, R, m, V)
    <3> HIDE DEF D, m, V, Factors, RunsOver
    <3> QED BY <1>3, <1>4 DEF RecursOn
  <2>4. \E g \in [D -> R] : \A d \in D : g[d] = V[d][g]
    <3> HIDE DEF D, R, m, V, Factors, RunsOver
    <3> QED BY <2>2, <2>3, RecursionOnMeasure
  <2> QED BY <2>4
<1>6. PICK g \in [D -> Nat] : \A d \in D : g[d] = V[d][g]
  BY <1>5
<1>7. lo \in D /\ \A d \in lo + 1 .. hi : d \in D /\ d # lo
  OBVIOUS
<1>8. \A d \in D : g[d] = IF d = lo THEN 1 ELSE g[d - 1] * x[d]
  BY <1>6
<1> QED BY <1>7, <1>8

\* p multiplies what each month leads to, q what it starts from.
Products(p, q, mark, lo, hi) ==
  /\ p \in [lo .. hi -> Nat] /\ q \in [lo .. hi -> Nat]
  /\ \A d \in lo .. hi : mark[d] \in Nat
  /\ p[lo] = 1 /\ q[lo] = 1
  /\ \A d \in lo + 1 .. hi : p[d] = p[d - 1] * mark[d] /\ q[d] = q[d - 1] * mark[d - 1]

\* Only the first and the last mark remain of the two products.
LEMMA ProductsTelescope ==
  ASSUME NEW lo \in Int, NEW hi \in Int, lo =< hi, NEW p, NEW q, NEW mark, Products(p, q, mark, lo, hi)
  PROVE  p[hi] * mark[lo] = q[hi] * mark[hi]
<1> DEFINE Agree(n) == p[lo + n] * mark[lo] = q[lo + n] * mark[lo + n]
           Kept == {n \in Nat : lo + n =< hi => Agree(n)}
<1>1. 0 \in Kept
  BY DEF Products
<1>2. ASSUME NEW n \in Nat, n \in Kept, lo + (n + 1) =< hi PROVE Agree(n + 1)
  <2>1. PICK d \in lo + 1 .. hi : d = lo + (n + 1) /\ d - 1 = lo + n
    BY <1>2
  <2>2. /\ p[d] = p[d - 1] * mark[d] /\ q[d] = q[d - 1] * mark[d - 1]
        /\ p[d - 1] \in Nat /\ q[d - 1] \in Nat /\ mark[d] \in Nat /\ mark[d - 1] \in Nat /\ mark[lo] \in Nat
    BY DEF Products
  <2>3. p[d - 1] * mark[lo] = q[d - 1] * mark[d - 1]
    BY <1>2, <2>1
  <2>4. \A a, b, c, e, f \in Nat : a * c = b * e => (a * f) * c = (b * e) * f
    OBVIOUS
  <2>5. (p[d - 1] * mark[d]) * mark[lo] = (q[d - 1] * mark[d - 1]) * mark[d]
    <3> HIDE DEF Kept
    <3> QED BY <2>2, <2>3, <2>4
  <2>6. p[d] * mark[lo] = q[d] * mark[d]
    BY <2>2, <2>5
  <2> QED BY <2>1, <2>6
<1>3. \A n \in Nat : n \in Kept
  <2>1. ASSUME NEW n \in Nat, n \in Kept PROVE n + 1 \in Kept
    BY <1>2, <2>1
  <2> HIDE DEF Kept
  <2> QED BY <1>1, <2>1, CountsUp
<1>4. PICK n \in Nat : lo + n = hi
  OBVIOUS
<1>5. Agree(n)
  BY <1>3, <1>4
<1> QED BY <1>4, <1>5

-----------------------------------------------------------------------------
(* The selection: the panel *)

LEMMA MonthOfDay ==
  ASSUME NEW d \in Nat
  PROVE  MarkMonth(d) \in Nat /\ DaysPerMonth * MarkMonth(d) =< d /\ d < DaysPerMonth * MarkMonth(d) + DaysPerMonth
<1>1. DaysPerMonth \in Nat \ {0}
  BY MarksAssumption
<1>2. d \div DaysPerMonth \in Int /\ DaysPerMonth * (d \div DaysPerMonth) =< d /\ d < DaysPerMonth * (d \div DaysPerMonth) + DaysPerMonth
  BY <1>1, Quotient
<1>3. 0 =< d \div DaysPerMonth
  BY <1>1, QuotientIsGreatest
<1> QED BY <1>2, <1>3 DEF MarkMonth

FirstMonth == MarkMonth(EstimationStart)
FinalMonth == MarkMonth(EstimationEnd)

LEMMA MonthsFacts ==
  /\ FirstMonth \in Nat /\ FinalMonth \in Nat /\ FirstMonth =< FinalMonth
  /\ EstimationMonths = FirstMonth .. FinalMonth
  /\ Min(EstimationMonths) = FirstMonth /\ Max(EstimationMonths) = FinalMonth
  /\ Cardinality(EstimationMonths) = FinalMonth - FirstMonth + 1
<1>1. FirstMonth \in Nat /\ FinalMonth \in Nat
  BY MarksAssumption, MonthOfDay DEF FirstMonth, FinalMonth
<1>2. FirstMonth =< FinalMonth
  BY MarksAssumption, QuotientIsMonotone DEF FirstMonth, FinalMonth, MarkMonth
<1>3. EstimationMonths = FirstMonth .. FinalMonth
  BY DEF EstimationMonths, FirstMonth, FinalMonth
<1>4. PICK lo \in Nat, hi \in Nat : lo = FirstMonth /\ hi = FinalMonth /\ lo =< hi
  BY <1>1, <1>2
<1>5. Cardinality(lo .. hi) = hi - lo + 1
  BY <1>4, FS_Interval
<1>6. Min(lo .. hi) = lo /\ Max(lo .. hi) = hi
  <2>1. lo .. hi \subseteq Int /\ lo \in lo .. hi /\ hi \in lo .. hi /\ \A y \in lo .. hi : lo =< y /\ hi >= y
    BY <1>4
  <2> QED BY <2>1, MinIs, MaxIs
<1> QED BY <1>3, <1>4, <1>5, <1>6

LEMMA DayFactsOf ==
  ASSUME marks \in MarkSets, NEW t \in DOMAIN marks, NEW m
  PROVE  /\ IsFiniteSet(DaysIn(t, m)) /\ DaysIn(t, m) \subseteq Nat
         /\ \A d \in DaysIn(t, m) : /\ d \in DOMAIN marks[t] /\ marks[t][d] \in Nat /\ marks[t][d] > 0
                                    /\ MarkMonth(d) = m /\ EstimationStart <= d /\ d <= EstimationEnd
<1>1. IsFiniteSet(DOMAIN marks[t]) /\ \A d \in DOMAIN marks[t] : d \in Nat /\ marks[t][d] \in Nat
  BY MarksAssumption
<1>2. DaysIn(t, m) \subseteq DOMAIN marks[t]
  BY DEF DaysIn, DaysInAll
<1>3. IsFiniteSet(DaysIn(t, m))
  BY <1>1, <1>2, FS_Subset
<1> QED BY <1>1, <1>2, <1>3 DEF DaysIn, DaysInAll

\* The last mark of a month in the window is the last one of any days that are
\* not later than the month's own.
LEMMA LastMarkIs ==
  ASSUME marks \in MarkSets, NEW t \in DOMAIN marks, NEW m, DaysIn(t, m) # {}
  PROVE  /\ Max(DaysIn(t, m)) \in DaysIn(t, m) /\ LastMark(t, m) \in Nat
         /\ \A S \in SUBSET Nat :
              DaysIn(t, m) \subseteq S /\ (\A d \in S : d > Max(DaysIn(t, m)) => d \in DaysIn(t, m))
                => marks[t][Max(S)] = LastMark(t, m)
<1>1. /\ Max(DaysIn(t, m)) \in DaysIn(t, m) /\ \A d \in DaysIn(t, m) : d =< Max(DaysIn(t, m))
      /\ DaysIn(t, m) \subseteq Nat
  BY DayFactsOf, ExtremesOf
<1>2. LastMark(t, m) \in Nat
  BY <1>1, DayFactsOf DEF LastMark
<1>3. ASSUME NEW S \in SUBSET Nat, DaysIn(t, m) \subseteq S, \A d \in S : d > Max(DaysIn(t, m)) => d \in DaysIn(t, m)
      PROVE  marks[t][Max(S)] = LastMark(t, m)
  <2>1. PICK top \in S : top = Max(DaysIn(t, m)) /\ top \in Nat
    BY <1>1, <1>3
  <2>2. \A y \in S : top >= y
    BY <2>1, <1>3, <1>1
  <2>3. S \subseteq Int
    OBVIOUS
  <2>4. Max(S) = top
    BY <2>2, <2>3, MaxIs
  <2> QED BY <2>1, <2>4 DEF LastMark
<1> QED BY <1>1, <1>2, <1>3

\* The panel of monthly returns.
PanelReturns ==
  [m \in EstimationMonths \ {Min(EstimationMonths)} |->
     [end |-> Max({Max(DaysIn(t, m)) : t \in DOMAIN marks}),
      of  |-> [t \in DOMAIN marks |-> <<LastMark(t, m - 1), LastMark(t, m)>>]]]
Paneled == returns # Undefined =>
  /\ returns = PanelReturns /\ FirstMonth < FinalMonth
  /\ \A t \in DOMAIN marks, m \in EstimationMonths : DaysIn(t, m) # {}

\* What was multiplied is the product of the marks.
LEMMA MultipliedIs ==
  ASSUME marks \in MarkSets, Paneled, returns # Undefined, NEW t \in DOMAIN marks
  PROVE  Multiplied(t, 2) * LastMark(t, FirstMonth) = Multiplied(t, 1) * LastMark(t, FinalMonth)
<1>1. PICK lo \in Nat, hi \in Nat : lo = FirstMonth /\ hi = FinalMonth /\ lo < hi /\ EstimationMonths = lo .. hi
                                    /\ Min(EstimationMonths) = lo /\ Max(EstimationMonths) = hi
  BY MonthsFacts DEF Paneled
<1> DEFINE mark == [m \in lo .. hi |-> LastMark(t, m)]
           taken(k) == [m \in lo .. hi |-> IF m = lo THEN 1 ELSE returns[m].of[t][k]]
<1>2. \A m \in lo .. hi : mark[m] = LastMark(t, m) /\ mark[m] \in Nat
  BY <1>1, LastMarkIs DEF Paneled
<1>3. \A m \in lo + 1 .. hi : returns[m].of[t][2] = mark[m] /\ returns[m].of[t][1] = mark[m - 1]
  <2> SUFFICES ASSUME NEW m \in lo + 1 .. hi PROVE returns[m].of[t][2] = mark[m] /\ returns[m].of[t][1] = mark[m - 1]
    OBVIOUS
  <2>1. m \in EstimationMonths \ {Min(EstimationMonths)} /\ m \in lo .. hi /\ m - 1 \in lo .. hi
    BY <1>1
  <2>2. returns[m] = [end |-> Max({Max(DaysIn(u, m)) : u \in DOMAIN marks}),
                      of  |-> [u \in DOMAIN marks |-> <<LastMark(u, m - 1), LastMark(u, m)>>]]
    <3>1. returns = PanelReturns
      BY DEF Paneled
    <3> QED BY <2>1, <3>1, Zenon DEF PanelReturns
  <2>3. returns[m].of[t] = <<LastMark(t, m - 1), LastMark(t, m)>>
    BY <2>2
  <2> QED BY <1>2, <2>1, <2>3
<1>4. ASSUME NEW k \in {1, 2}
      PROVE  \E g \in [lo .. hi -> Nat] :
               /\ Multiplied(t, k) = g[hi] /\ g[lo] = 1
               /\ \A m \in lo + 1 .. hi : g[m] = g[m - 1] * returns[m].of[t][k]
  <2>1. \A m \in lo .. hi : taken(k)[m] \in Nat
    <3> SUFFICES ASSUME NEW m \in lo .. hi PROVE (IF m = lo THEN 1 ELSE returns[m].of[t][k]) \in Nat
      OBVIOUS
    <3>1. m # lo => m \in lo + 1 .. hi /\ m - 1 \in lo .. hi
      OBVIOUS
    <3> HIDE DEF mark
    <3>2. m # lo => returns[m].of[t][k] \in Nat
      BY <1>2, <1>3, <3>1
    <3> QED BY <3>2
  <2>2. PICK y : y = taken(k)
    OBVIOUS
  <2>3. PICK run \in [lo .. hi -> Nat] : RunsOver(run, y, lo, hi)
    <3>1. lo \in Int /\ hi \in Int /\ lo =< hi
      BY <1>1
    <3>2. Factors(y, lo, hi)
      BY <2>1, <2>2 DEF Factors
    <3> HIDE DEF taken
    <3> QED BY <3>1, <3>2, RunningProduct
  <2>4. run = [m \in EstimationMonths |-> IF m = Min(EstimationMonths) THEN 1 ELSE run[m - 1] * returns[m].of[t][k]]
    <3>1. \A m \in lo .. hi : m # lo => m \in lo + 1 .. hi /\ y[m] = returns[m].of[t][k]
      BY <1>1, <2>2
    <3>2. \A m \in EstimationMonths : run[m] = IF m = Min(EstimationMonths) THEN 1 ELSE run[m - 1] * returns[m].of[t][k]
      BY <1>1, <2>3, <3>1 DEF RunsOver
    <3>3. run \in [EstimationMonths -> Nat]
      BY <1>1
    <3> QED BY <3>2, <3>3
  <2>5. \E g : g = [m \in EstimationMonths |-> IF m = Min(EstimationMonths) THEN 1 ELSE g[m - 1] * returns[m].of[t][k]]
    BY <2>4, Zenon
  <2>6. PICK h : /\ h = [m \in EstimationMonths |-> IF m = Min(EstimationMonths) THEN 1 ELSE h[m - 1] * returns[m].of[t][k]]
                 /\ Multiplied(t, k) = h[Max(EstimationMonths)]
    BY <2>5, Zenon DEF Multiplied
  <2>7. h[lo] = 1 /\ \A m \in lo + 1 .. hi : h[m] = h[m - 1] * returns[m].of[t][k]
    BY <2>6, <1>1
  <2>8. \A m \in lo + 1 .. hi : returns[m].of[t][k] \in Nat
    <3>1. \A m \in lo + 1 .. hi : m \in lo .. hi /\ m - 1 \in lo .. hi
      BY <1>1
    <3> HIDE DEF mark
    <3>2. \A m \in lo + 1 .. hi : returns[m].of[t][1] \in Nat /\ returns[m].of[t][2] \in Nat
      BY <1>2, <1>3, <3>1
    <3> QED BY <3>2
  <2>9. \A m \in lo .. hi : h[m] \in Nat
    <3> DEFINE Kept == {n \in Nat : lo + n =< hi => h[lo + n] \in Nat}
    <3>1. 0 \in Kept
      BY <2>7
    <3>2. ASSUME NEW n \in Nat, n \in Kept PROVE n + 1 \in Kept
      <4> SUFFICES ASSUME lo + (n + 1) =< hi PROVE h[lo + (n + 1)] \in Nat
        OBVIOUS
      <4>1. PICK m \in lo + 1 .. hi : m = lo + (n + 1) /\ m - 1 = lo + n
        BY <1>1
      <4>2. h[m - 1] \in Nat /\ h[m] = h[m - 1] * returns[m].of[t][k] /\ returns[m].of[t][k] \in Nat
        BY <1>1, <2>7, <2>8, <3>2, <4>1
      <4> QED BY <4>1, <4>2, ProductIsNat
    <3>3. \A n \in Nat : n \in Kept
      <4> HIDE DEF Kept
      <4> QED BY <3>1, <3>2, CountsUp
    <3> SUFFICES ASSUME NEW m \in lo .. hi PROVE h[m] \in Nat
      OBVIOUS
    <3>4. PICK n \in Nat : m = lo + n /\ lo + n =< hi
      BY <1>1
    <3> QED BY <3>3, <3>4
  <2>10. h \in [lo .. hi -> Nat] /\ Multiplied(t, k) = h[hi]
    BY <1>1, <2>6, <2>9
  <2> QED BY <2>7, <2>10
<1>5. PICK p \in [lo .. hi -> Nat] : /\ Multiplied(t, 2) = p[hi] /\ p[lo] = 1
                                     /\ \A m \in lo + 1 .. hi : p[m] = p[m - 1] * returns[m].of[t][2]
  BY <1>4
<1>6. PICK q \in [lo .. hi -> Nat] : /\ Multiplied(t, 1) = q[hi] /\ q[lo] = 1
                                     /\ \A m \in lo + 1 .. hi : q[m] = q[m - 1] * returns[m].of[t][1]
  BY <1>4
<1>7. mark[lo] = LastMark(t, lo) /\ mark[hi] = LastMark(t, hi)
  BY <1>1
<1> HIDE DEF mark, taken
<1>8. Products(p, q, mark, lo, hi)
  BY <1>2, <1>3, <1>5, <1>6 DEF Products
<1>9. p[hi] * mark[lo] = q[hi] * mark[hi]
  BY <1>1, <1>8, ProductsTelescope
<1> QED BY <1>1, <1>5, <1>6, <1>7, <1>9

\* The panel compounds to what the tickers gained inside the window.
LEMMA PanelChains == marks \in MarkSets /\ Paneled => ReturnsChain
<1> SUFFICES ASSUME marks \in MarkSets, Paneled, returns # Undefined, NEW t \in DOMAIN marks
             PROVE  LET marked == {d \in DOMAIN marks[t] : marks[t][d] > 0}
                        base == Min(EstimationMonths)
                        first == Max({d \in marked : d < (base + 1) * DaysPerMonth})
                        last == Max({d \in marked : d <= EstimationEnd})
                    IN  /\ Multiplied(t, 2) * marks[t][first] = Multiplied(t, 1) * marks[t][last]
                        /\ DOMAIN returns = EstimationMonths \ {base}
                        /\ \A m \in DOMAIN returns : returns[m].end <= EstimationEnd /\ MarkMonth(returns[m].end) = m
  BY DEF ReturnsChain
<1>1. PICK lo \in Nat, hi \in Nat : lo = FirstMonth /\ hi = FinalMonth /\ lo < hi /\ EstimationMonths = lo .. hi
                                    /\ Min(EstimationMonths) = lo /\ Max(EstimationMonths) = hi
  BY MonthsFacts DEF Paneled
<1>2. DaysIn(t, lo) # {} /\ DaysIn(t, hi) # {}
  BY <1>1 DEF Paneled
<1>3. EstimationStart \in Nat /\ EstimationEnd \in Nat /\ DaysPerMonth \in Nat \ {0}
  BY MarksAssumption
<1> DEFINE marked == {d \in DOMAIN marks[t] : marks[t][d] > 0}
           early == {d \in marked : d < (lo + 1) * DaysPerMonth}
           seen == {d \in marked : d <= EstimationEnd}
<1>4. marked \subseteq Nat /\ \A d \in DOMAIN marks[t] : d \in Nat
  BY MarksAssumption
<1>5. \A m, d : d \in DaysIn(t, m) <=> d \in marked /\ MarkMonth(d) = m /\ EstimationStart <= d /\ d <= EstimationEnd
  BY DEF DaysIn, DaysInAll
<1>6. \A d \in Nat : /\ MarkMonth(d) \in Nat
                     /\ DaysPerMonth * MarkMonth(d) =< d /\ d < DaysPerMonth * MarkMonth(d) + DaysPerMonth
  BY MonthOfDay
<1>7. \A d, e \in Nat : d =< e => MarkMonth(d) =< MarkMonth(e)
  BY <1>3, QuotientIsMonotone DEF MarkMonth
<1>8. (lo + 1) * DaysPerMonth = DaysPerMonth * lo + DaysPerMonth
  BY <1>1, <1>3
<1>9. marks[t][Max(early)] = LastMark(t, lo)
  <2>1. DaysIn(t, lo) \subseteq early
    BY <1>5, <1>4, <1>6, <1>8
  <2>2. ASSUME NEW d \in early, d > Max(DaysIn(t, lo)) PROVE d \in DaysIn(t, lo)
    <3>1. Max(DaysIn(t, lo)) \in DaysIn(t, lo)
      BY <1>2, LastMarkIs
    <3>2. PICK e \in Nat : e = Max(DaysIn(t, lo)) /\ e \in DaysIn(t, lo) /\ MarkMonth(e) = lo /\ EstimationStart =< e
      BY <1>4, <1>5, <3>1
    <3>3. d \in Nat /\ d \in marked /\ e < d /\ d < DaysPerMonth * lo + DaysPerMonth
      BY <1>4, <1>8, <2>2, <3>2
    <3>4. lo =< MarkMonth(d) /\ MarkMonth(d) \in Nat /\ DaysPerMonth * MarkMonth(d) =< d
      BY <1>6, <1>7, <3>2, <3>3
    <3>5. MarkMonth(d) = lo
      BY <3>4, <1>3, ProductIsMonotone, <3>3
    <3>6. d <= EstimationEnd
      <4> SUFFICES ASSUME EstimationEnd < d PROVE FALSE
        BY <1>3, <3>3
      <4>1. MarkMonth(EstimationEnd) =< MarkMonth(d)
        BY <1>3, <1>7, <3>3
      <4> QED BY <1>1, <3>5, <4>1 DEF FinalMonth
    <3>7. EstimationStart <= d
      BY <1>3, <3>2, <3>3
    <3> QED BY <1>5, <3>3, <3>5, <3>6, <3>7
  <2>3. early \in SUBSET Nat
    BY <1>4
  <2> HIDE DEF early, marked
  <2> QED BY <1>2, <2>1, <2>2, <2>3, LastMarkIs
<1>10. marks[t][Max(seen)] = LastMark(t, hi)
  <2>1. DaysIn(t, hi) \subseteq seen
    BY <1>5
  <2>2. ASSUME NEW d \in seen, d > Max(DaysIn(t, hi)) PROVE d \in DaysIn(t, hi)
    <3>1. Max(DaysIn(t, hi)) \in DaysIn(t, hi)
      BY <1>2, LastMarkIs
    <3>2. PICK e \in Nat : e = Max(DaysIn(t, hi)) /\ MarkMonth(e) = hi /\ EstimationStart =< e
      BY <1>4, <1>5, <3>1
    <3>3. d \in Nat /\ d \in marked /\ e < d /\ d <= EstimationEnd
      BY <1>4, <2>2, <3>2
    <3>4. hi =< MarkMonth(d) /\ MarkMonth(d) =< MarkMonth(EstimationEnd)
      BY <1>3, <1>7, <3>2, <3>3
    <3>5. MarkMonth(d) = hi
      <4>1. MarkMonth(d) \in Nat
        BY <1>6, <3>3
      <4> QED BY <1>1, <3>4, <4>1 DEF FinalMonth
    <3>6. EstimationStart <= d
      BY <1>3, <3>2, <3>3
    <3> QED BY <1>5, <3>3, <3>5, <3>6
  <2>3. seen \in SUBSET Nat
    BY <1>4
  <2> HIDE DEF seen, marked
  <2> QED BY <1>2, <2>1, <2>2, <2>3, LastMarkIs
<1>11. Multiplied(t, 2) * marks[t][Max(early)] = Multiplied(t, 1) * marks[t][Max(seen)]
  BY <1>1, <1>9, <1>10, MultipliedIs
<1>12. DOMAIN returns = EstimationMonths \ {lo}
  BY <1>1 DEF Paneled, PanelReturns
<1>13. ASSUME NEW m \in DOMAIN returns PROVE returns[m].end <= EstimationEnd /\ MarkMonth(returns[m].end) = m
  <2> DEFINE lasts == [u \in DOMAIN marks |-> Max(DaysIn(u, m))]
  <2>1. returns[m].end = Max({Max(DaysIn(u, m)) : u \in DOMAIN marks})
    BY <1>1, <1>12 DEF Paneled, PanelReturns
  <2>2. \A u \in DOMAIN marks : lasts[u] \in DaysIn(u, m)
    BY <1>12, LastMarkIs DEF Paneled
  <2>3. \A u \in DOMAIN marks : lasts[u] \in Int /\ MarkMonth(lasts[u]) = m /\ lasts[u] <= EstimationEnd
    <3> HIDE DEF lasts
    <3> QED BY <2>2, DayFactsOf
  <2>4. {Max(DaysIn(u, m)) : u \in DOMAIN marks} = {lasts[u] : u \in DOMAIN marks}
    OBVIOUS
  <2>5. IsFiniteSet(DOMAIN marks) /\ DOMAIN marks # {}
    BY MarksAssumption
  <2> HIDE DEF lasts
  <2>6. PICK u \in DOMAIN marks : Max({lasts[v] : v \in DOMAIN marks}) = lasts[u]
    BY <2>3, <2>5, MaxOfValues
  <2> QED BY <2>1, <2>3, <2>4, <2>6
<1> QED BY <1>1, <1>11, <1>12, <1>13

-----------------------------------------------------------------------------
(* The selection: the historical evidence *)

Posed == /\ marks \in MarkSets /\ lines \in Lines /\ estimate \in Estimates
         /\ tails \in Tails /\ campaigns \in CampaignLists

\* What has been read of an arm's worst ratios.
OwnRatios(a) == {s.worst : s \in {s \in ReadSoFar : s.arm = a /\ s.horizon \in AllowedHorizons}}
Heard(w, own) ==
  IF own = {} \/ Undefined \in own THEN w = Undefined
  ELSE w \in own /\ \A r \in own : w =< r
Evidence ==
  /\ worst \in [ArmSet -> Int \cup {Undefined}] /\ undefinedArms \subseteq ArmSet
  /\ \A a \in ArmSet : Heard(worst[a], OwnRatios(a)) /\ (a \in undefinedArms <=> Undefined \in OwnRatios(a))
Reading == at \in (Nat \ {0}) \X Nat

LEMMA CampaignFacts ==
  ASSUME Posed
  PROVE  /\ Len(campaigns) \in Nat /\ DOMAIN campaigns = 1 .. Len(campaigns)
         /\ \A c \in DOMAIN campaigns :
              /\ Len(campaigns[c].summaries) \in Nat /\ DOMAIN campaigns[c].summaries = 1 .. Len(campaigns[c].summaries)
              /\ \A i \in DOMAIN campaigns[c].summaries : campaigns[c].summaries[i].worst \in Int \cup {Undefined}
<1>1. /\ campaigns \in Seq(Range(campaigns))
      /\ \A c \in Range(campaigns) : /\ c.summaries \in Seq(Range(c.summaries))
                                     /\ \A s \in Range(c.summaries) : s.worst \in Int \cup {Undefined}
  BY SelectionAssumption DEF Posed
<1>2. \A c \in DOMAIN campaigns : campaigns[c] \in Range(campaigns)
  BY DEF Range
<1>3. \A s : s \in Seq(Range(s)) => Len(s) \in Nat /\ DOMAIN s = 1 .. Len(s)
  OBVIOUS
<1>4. \A s : \A i \in DOMAIN s : s[i] \in Range(s)
  BY DEF Range
<1> HIDE DEF Range
<1> QED BY <1>1, <1>2, <1>3, <1>4

\* Where a summary that has been read stands.
ReadAt(c, i, here) == c < here[1] \/ (c = here[1] /\ i < here[2])

LEMMA ReadSoFarIs ==
  ASSUME Posed, Reading
  PROVE  \A s : s \in ReadSoFar <=> \E c \in DOMAIN campaigns : \E i \in DOMAIN campaigns[c].summaries :
                                      ReadAt(c, i, at) /\ s = campaigns[c].summaries[i]
BY CampaignFacts DEF Reading, ReadSoFar, ReadAt

LEMMA ReadSoFarFacts ==
  ASSUME Posed, Reading
  PROVE  \A a : OwnRatios(a) \subseteq Int \cup {Undefined}
BY ReadSoFarIs, CampaignFacts DEF OwnRatios

\* A ratio more is read.
LEMMA HeardMore ==
  ASSUME NEW own, own \subseteq Int \cup {Undefined}, NEW w \in Int \cup {Undefined}, Heard(w, own),
         NEW r \in Int \cup {Undefined}, Undefined \notin Int
  PROVE  Heard(IF r = Undefined \/ Undefined \in own THEN Undefined
               ELSE IF w = Undefined THEN r ELSE Min({w, r}), own \cup {r})
<1>1. CASE r = Undefined \/ Undefined \in own
  BY <1>1 DEF Heard
<1>2. CASE ~(r = Undefined \/ Undefined \in own) /\ w = Undefined
  <2>1. own = {}
    BY <1>2 DEF Heard
  <2> QED BY <1>2, <2>1 DEF Heard
<1>3. CASE ~(r = Undefined \/ Undefined \in own) /\ w # Undefined
  <2>1. own # {} /\ w \in own /\ (\A q \in own : w =< q) /\ w \in Int /\ r \in Int /\ own \subseteq Int
    BY <1>3 DEF Heard
  <2>2. Min({w, r}) = IF w =< r THEN w ELSE r
    <3>1. CASE w =< r
      BY <2>1, <3>1, MinIs
    <3>2. CASE ~(w =< r)
      BY <2>1, <3>2, MinIs
    <3> QED BY <3>1, <3>2
  <2>3. PICK v : v = Min({w, r}) /\ v \in own \cup {r} /\ (\A q \in own \cup {r} : v =< q) /\ v \in Int
    BY <2>1, <2>2
  <2> QED BY <1>3, <2>3 DEF Heard
<1> QED BY <1>1, <1>2, <1>3

LEMMA EvidenceInitially == SelectionInit => Evidence /\ Reading /\ Posed
<1> SUFFICES ASSUME SelectionInit PROVE Evidence /\ Reading /\ Posed
  OBVIOUS
<1>1. Reading /\ Posed
  BY DEF SelectionInit, Reading, Posed
<1>2. ReadSoFar = {}
  <2>1. at = <<1, 0>>
    BY DEF SelectionInit
  <2>2. \A c \in DOMAIN campaigns : \A i \in DOMAIN campaigns[c].summaries : c \in 1 .. Len(campaigns) /\ i \in Nat
    BY <1>1, CampaignFacts
  <2>3. \A c \in DOMAIN campaigns : \A i \in DOMAIN campaigns[c].summaries : ~ReadAt(c, i, at)
    BY <1>1, <2>1, <2>2, CampaignFacts DEF ReadAt
  <2> QED BY <1>1, <2>3, ReadSoFarIs
<1>3. \A a : OwnRatios(a) = {}
  BY <1>2 DEF OwnRatios
<1> QED BY <1>1, <1>3 DEF SelectionInit, Evidence, Heard

LEMMA ReadSummaryKeeps ==
  ASSUME Posed, Reading, Evidence, ReadSummary
  PROVE  Reading' /\ Evidence'
<1> DEFINE s == Campaign.summaries[at[2]]
<1>1. at[1] \in Nat /\ at[2] \in Nat /\ at[1] =< Len(campaigns) /\ at[2] \in DOMAIN Campaign.summaries
  BY DEF Reading, ReadSummary
<1>2. Campaign = campaigns[at[1]]
  BY DEF Campaign
<1>3. PICK c, i :
        /\ c \in DOMAIN campaigns /\ i \in DOMAIN campaigns[c].summaries
        /\ c = at[1] /\ i = at[2] /\ s = campaigns[c].summaries[i]
        /\ c \in Nat /\ i \in Nat
  BY <1>1, CampaignFacts, <1>2 DEF Reading
<1>4. UNCHANGED selectionGiven /\ Posed'
  BY DEF ReadSummary, selectionGiven, Posed
<1>5. at' = IF i < Len(campaigns[c].summaries) THEN <<c, i + 1>> ELSE <<c + 1, 0>>
  BY <1>2, <1>3 DEF ReadSummary
<1>6. Reading'
  BY <1>3, <1>5 DEF Reading
<1>7. \A d \in DOMAIN campaigns : \A j \in DOMAIN campaigns[d].summaries :
        ReadAt(d, j, at') <=> ReadAt(d, j, at) \/ (d = c /\ j = i)
  <2> SUFFICES ASSUME NEW d \in DOMAIN campaigns, NEW j \in DOMAIN campaigns[d].summaries
               PROVE  ReadAt(d, j, at') <=> ReadAt(d, j, at) \/ (d = c /\ j = i)
    OBVIOUS
  <2>1. /\ d \in Nat /\ j \in 1 .. Len(campaigns[d].summaries) /\ Len(campaigns[d].summaries) \in Nat
        /\ i \in 1 .. Len(campaigns[c].summaries) /\ Len(campaigns[c].summaries) \in Nat
    BY <1>3, CampaignFacts
  <2>2. CASE i < Len(campaigns[c].summaries)
    BY <1>3, <1>5, <2>1, <2>2 DEF ReadAt
  <2>3. CASE ~(i < Len(campaigns[c].summaries))
    <3>1. at' = <<c + 1, 0>> /\ i = Len(campaigns[c].summaries)
      BY <1>5, <2>1, <2>3
    <3>2. d = c => j =< i
      BY <2>1, <3>1
    <3> QED BY <1>3, <2>1, <3>1, <3>2 DEF ReadAt
  <2> QED BY <2>2, <2>3
<1>8. \A r : r \in ReadSoFar' <=> r \in ReadSoFar \/ r = s
  <2>1. campaigns' = campaigns
    BY <1>4 DEF selectionGiven
  <2>2. \A r : r \in ReadSoFar' <=> \E d \in DOMAIN campaigns : \E j \in DOMAIN campaigns[d].summaries :
                                     ReadAt(d, j, at') /\ r = campaigns[d].summaries[j]
    <3>1. at'[1] \in Nat /\ at'[2] \in Nat /\ \A d \in DOMAIN campaigns : d \in Nat
      BY <1>6, CampaignFacts DEF Reading
    <3>2. \A r : r \in ReadSoFar' <=> \E d \in DOMAIN campaigns : \E j \in DOMAIN campaigns[d].summaries :
                                     d <= at'[1] /\ (d < at'[1] \/ j < at'[2]) /\ r = campaigns[d].summaries[j]
      BY <2>1 DEF ReadSoFar
    <3>3. \A d \in DOMAIN campaigns : \A j : d <= at'[1] /\ (d < at'[1] \/ j < at'[2]) <=> ReadAt(d, j, at')
      BY <3>1 DEF ReadAt
    <3> QED BY <3>2, <3>3
  <2> QED BY <1>3, <1>7, <2>2, ReadSoFarIs
<1> DEFINE counted == Counts(s)
<1>9. \A a : OwnRatios(a)' = OwnRatios(a) \cup (IF s.arm = a /\ s.horizon \in AllowedHorizons THEN {s.worst} ELSE {})
  <2> HIDE DEF s
  <2> QED BY <1>8 DEF OwnRatios
<1>10. s.worst \in Int \cup {Undefined}
  BY <1>3, CampaignFacts
<1>11. Undefined \notin Int
  BY SelectionAssumption
<1>12. CASE Counts(s)
  <2>1. /\ worst' = [worst EXCEPT ![s.arm] = Merged(s.arm, s.worst)]
        /\ undefinedArms' = IF s.worst = Undefined THEN undefinedArms \cup {s.arm} ELSE undefinedArms
    BY <1>12 DEF ReadSummary
  <2>2. s.arm \in ArmSet /\ s.horizon \in AllowedHorizons
    BY <1>12 DEF Counts
  <2> HIDE DEF s
  <2>3. Merged(s.arm, s.worst) = IF s.worst = Undefined \/ Undefined \in OwnRatios(s.arm) THEN Undefined
                                 ELSE IF worst[s.arm] = Undefined THEN s.worst ELSE Min({worst[s.arm], s.worst})
    BY <2>2 DEF Merged, Evidence
  <2>4. Heard(Merged(s.arm, s.worst), OwnRatios(s.arm) \cup {s.worst})
    <3>1. worst[s.arm] \in Int \cup {Undefined} /\ Heard(worst[s.arm], OwnRatios(s.arm)) /\ OwnRatios(s.arm) \subseteq Int \cup {Undefined}
      BY <2>2, ReadSoFarFacts DEF Evidence
    <3>2. PICK own, w, r : own = OwnRatios(s.arm) /\ w = worst[s.arm] /\ r = s.worst
      OBVIOUS
    <3>3. Heard(IF r = Undefined \/ Undefined \in own THEN Undefined
                ELSE IF w = Undefined THEN r ELSE Min({w, r}), own \cup {r})
      BY <1>10, <1>11, <3>1, <3>2, HeardMore
    <3> QED BY <2>3, <3>2, <3>3
  <2>5. Merged(s.arm, s.worst) \in Int \cup {Undefined}
    <3>1. OwnRatios(s.arm) \cup {s.worst} \subseteq Int \cup {Undefined}
      BY <1>10, ReadSoFarFacts
    <3> QED BY <2>4, <3>1 DEF Heard
  <2>6. ASSUME NEW a \in ArmSet PROVE Heard(worst'[a], OwnRatios(a)') /\ (a \in undefinedArms' <=> Undefined \in OwnRatios(a)')
    <3>1. CASE a = s.arm
      BY <1>9, <2>1, <2>2, <3>1, <2>4 DEF Evidence
    <3>2. CASE a # s.arm
      BY <1>9, <2>1, <2>2, <3>2 DEF Evidence
    <3> QED BY <3>1, <3>2
  <2>7. worst' \in [ArmSet -> Int \cup {Undefined}] /\ undefinedArms' \subseteq ArmSet
    BY <2>1, <2>2, <2>5 DEF Evidence
  <2> QED BY <1>6, <2>6, <2>7 DEF Evidence
<1>13. CASE ~Counts(s)
  <2>1. UNCHANGED <<worst, undefinedArms>>
    BY <1>13 DEF ReadSummary
  <2>2. \A a \in ArmSet : OwnRatios(a)' = OwnRatios(a)
    <3> HIDE DEF s
    <3> QED BY <1>9, <1>13 DEF Counts
  <2> QED BY <1>6, <2>1, <2>2 DEF Evidence
<1> QED BY <1>12, <1>13

LEMMA OpenCampaignKeeps ==
  ASSUME Posed, Reading, Evidence, OpenCampaign
  PROVE  Reading' /\ Evidence' /\ ReadSoFar' = ReadSoFar
<1>1. UNCHANGED selectionGiven /\ Posed' /\ UNCHANGED <<worst, undefinedArms>> /\ campaigns' = campaigns
  BY DEF OpenCampaign, selectionGiven, Posed
<1>2. at' = at \/ (at[2] = 0 /\ at' = <<at[1], 1>>)
  BY DEF OpenCampaign
<1>3. Reading'
  BY <1>2 DEF Reading
<1>4. \A c \in DOMAIN campaigns : \A i \in DOMAIN campaigns[c].summaries : i < at'[2] <=> i < at[2]
  BY <1>2, CampaignFacts DEF Reading
<1>5. at'[1] = at[1]
  BY <1>2 DEF Reading
<1>6. ReadSoFar' = ReadSoFar
  BY <1>1, <1>4, <1>5 DEF ReadSoFar
<1>7. \A a : OwnRatios(a)' = OwnRatios(a)
  BY <1>6 DEF OwnRatios
<1> QED BY <1>1, <1>3, <1>6, <1>7 DEF Evidence

-----------------------------------------------------------------------------
(* The selection: the verdict *)

LEMMA ArmFacts ==
  /\ IsFiniteSet(ArmSet) /\ ArmSet # {} /\ Undefined \notin ArmSet /\ Undefined \notin Int
  /\ DOMAIN SelectionArms = 1 .. Len(SelectionArms) /\ Len(SelectionArms) \in Nat \ {0}
  /\ \A i \in DOMAIN SelectionArms : SelectionArms[i] \in ArmSet
  /\ \A a \in ArmSet : IdRank[a] \in Nat
<1>1. SelectionArms \in Seq(ArmSet) /\ SelectionArms # <<>> /\ Undefined \notin ArmSet /\ Undefined \notin Int
  BY SelectionAssumption
<1>2. DOMAIN SelectionArms = 1 .. Len(SelectionArms) /\ Len(SelectionArms) \in Nat \ {0}
  BY <1>1
<1>3. ArmSet = {SelectionArms[i] : i \in DOMAIN SelectionArms}
  BY DEF ArmSet, Range
<1>4. IsFiniteSet(1 .. Len(SelectionArms))
  BY <1>2, FS_Interval
<1>5. IsFiniteSet(ArmSet)
  BY <1>2, <1>3, <1>4, ImageFinite
<1>6. ArmSet # {}
  BY <1>2, <1>3
<1>7. \A a \in ArmSet : IdRank[a] \in Nat
  BY SelectionAssumption
<1> QED BY <1>1, <1>2, <1>3, <1>5, <1>6, <1>7

LEMMA LineFacts ==
  ASSUME Posed, NEW a \in ArmSet
  PROVE  /\ lines[a].tickers \in Nat /\ lines[a].volatility \in Nat
         /\ lines[a].intercept \in Int /\ lines[a].slope \in Int
         /\ tails[a].multiple \in Int /\ tails[a].drawdown \in Int
BY SelectionAssumption DEF Posed

\* Every scenario of the grid is a number.
LEMMA GridIsInt == Posed => \A i \in 1 .. GridPoints : DeltaGrid[i] \in Int
<1> SUFFICES ASSUME Posed PROVE \A i \in 1 .. GridPoints : DeltaGrid[i] \in Int
  OBVIOUS
<1>1. PICK w, s, n : /\ w = GridWidth /\ s = estimate.deviation /\ n = GridPoints - 1
                     /\ w \in Int /\ s \in Int /\ n \in Nat \ {0} /\ estimate.mean \in Int
  BY SelectionAssumption DEF Posed
<1>2. w * s \in Int /\ 2 * w * s \in Int
  BY <1>1
<1>3. PICK step \in Int : step = (2 * w * s) \div n
  BY <1>1, <1>2, Quotient
<1>4. DeltaGrid = [i \in 1 .. GridPoints |-> IF i = 1 + GridPoints \div 2 THEN estimate.mean
                                             ELSE (estimate.mean - w * s) + (i - 1) * step]
  BY <1>1, <1>3 DEF DeltaGrid
<1>5. \A i \in 1 .. GridPoints : (i - 1) * step \in Int /\ (estimate.mean - w * s) \in Int
  BY <1>1, <1>2, <1>3
<1> QED BY <1>1, <1>4, <1>5

\* What an arm gives up where it does worst.
LEMMA RegretFacts ==
  ASSUME Posed, NEW a \in ArmSet
  PROVE  /\ MaxRegret(a) \in Int
         /\ \A i \in 1 .. GridPoints : /\ Growth(a, i) \in Int /\ BestGrowth(i) \in Int
                                       /\ BestGrowth(i) - Growth(a, i) =< MaxRegret(a)
<1>1. \A b \in ArmSet : \A i \in 1 .. GridPoints : Growth(b, i) \in Int
  BY LineFacts, GridIsInt DEF Growth
<1>2. ASSUME NEW i \in 1 .. GridPoints PROVE BestGrowth(i) \in Int
  <2> DEFINE f == [b \in ArmSet |-> Growth(b, i)]
  <2>1. \A b \in ArmSet : f[b] \in Int
    BY <1>1
  <2>2. BestGrowth(i) = Max({f[b] : b \in ArmSet})
    BY DEF BestGrowth
  <2> HIDE DEF f
  <2> QED BY <2>1, <2>2, ArmFacts, MaxOfValues
<1> DEFINE lost == [i \in 1 .. GridPoints |-> BestGrowth(i) - Growth(a, i)]
<1>3. \A i \in 1 .. GridPoints : lost[i] \in Int
  BY <1>1, <1>2
<1>4. MaxRegret(a) = Max({lost[i] : i \in 1 .. GridPoints})
  BY DEF MaxRegret
<1>5. IsFiniteSet(1 .. GridPoints) /\ 1 .. GridPoints # {}
  <2>1. PICK n \in Nat : n = GridPoints /\ n >= 3
    BY SelectionAssumption
  <2>2. IsFiniteSet(1 .. n)
    BY FS_Interval
  <2> QED BY <2>1, <2>2
<1>6. MaxRegret(a) \in Int /\ \A i \in 1 .. GridPoints : lost[i] =< MaxRegret(a)
  <2>1. PICK S, f : S = 1 .. GridPoints /\ f = lost
    OBVIOUS
  <2>2. IsFiniteSet(S) /\ S # {} /\ \A x \in S : f[x] \in Int
    BY <1>3, <1>5, <2>1
  <2>3. Max({f[x] : x \in S}) \in Int /\ \A x \in S : f[x] =< Max({f[y] : y \in S})
    BY <2>2, MaxOfValues
  <2> HIDE DEF lost
  <2> QED BY <1>4, <2>1, <2>3
<1> QED BY <1>1, <1>2, <1>6

\* The ceiling lies the tolerance above the regret of some arm.
LEMMA CeilingFacts ==
  ASSUME Posed
  PROVE  RegretCeiling \in Int /\ \E a \in ArmSet : MaxRegret(a) =< RegretCeiling
<1> DEFINE f == [a \in ArmSet |-> MaxRegret(a)]
           regrets == {f[a] : a \in ArmSet}
<1>1. \A a \in ArmSet : f[a] \in Int
  BY RegretFacts
<1>2. RegretCeiling = Min(regrets) + Tolerance /\ Tolerance \in Nat
  BY SelectionAssumption DEF RegretCeiling
<1>3. IsFiniteSet(regrets)
  <2> HIDE DEF f
  <2> QED BY ArmFacts, ImageFinite
<1>4. regrets # {} /\ regrets \subseteq Int
  BY <1>1, ArmFacts
<1>5. Min(regrets) \in regrets
  <2> HIDE DEF regrets
  <2> QED BY <1>3, <1>4, ExtremesOf
<1>6. PICK a \in ArmSet : Min(regrets) = MaxRegret(a)
  BY <1>5
<1>7. MaxRegret(a) \in Int
  BY RegretFacts
<1> HIDE DEF f, regrets
<1> QED BY <1>2, <1>6, <1>7

\* Some member of a set has the least of its values.
LEMMA LeastPlace ==
  ASSUME NEW S, S # {}, NEW f, \A x \in S : f[x] \in Nat
  PROVE  \E x \in S : \A y \in S : f[x] =< f[y]
<1>1. {f[x] : x \in S} \subseteq Nat /\ {f[x] : x \in S} # {}
  OBVIOUS
<1>2. PICK v \in {f[x] : x \in S} : \A u \in {f[x] : x \in S} : v =< u
  BY <1>1, LeastNatural
<1> QED BY <1>2

\* Among arms that pass, one is simpler than the others or as simple.
LEMMA SimplestExists ==
  ASSUME Posed, NEW P, P \subseteq ArmSet, P # {}
  PROVE  \E a \in P : \A b \in P : Simpler(a, b)
<1> DEFINE few == [x \in P |-> lines[x].tickers]
           calm == [x \in P |-> lines[x].volatility]
           early == [x \in P |-> IdRank[x]]
<1>1. \A x \in P : few[x] \in Nat /\ calm[x] \in Nat /\ early[x] \in Nat
  BY LineFacts, ArmFacts
<1>2. PICK x \in P : \A y \in P : few[x] =< few[y]
  <2> HIDE DEF few, calm, early
  <2> QED BY <1>1, LeastPlace
<1> DEFINE F == {y \in P : few[y] = few[x]}
<1>3. PICK y \in F : \A z \in F : calm[y] =< calm[z]
  BY <1>1, LeastPlace
<1> DEFINE C == {z \in F : calm[z] = calm[y]}
<1>4. PICK z \in C : \A w \in C : early[z] =< early[w]
  BY <1>1, LeastPlace
<1>5. ASSUME NEW b \in P
      PROVE  \/ few[z] < few[b]
             \/ few[z] = few[b] /\ calm[z] < calm[b]
             \/ few[z] = few[b] /\ calm[z] = calm[b] /\ early[z] =< early[b]
  BY <1>2, <1>3, <1>4, <1>1
<1>6. z \in P
  OBVIOUS
<1> QED BY <1>5, <1>6 DEF Simpler

\* What a verdict reached says.
Decided == verdicts # <<>> =>
  /\ at[1] > Len(campaigns)
  /\ verdicts = [i \in DOMAIN SelectionArms |-> [arm |-> SelectionArms[i], reasons |-> Reasons(SelectionArms[i])]]
  /\ \/ Passers = {} /\ selected = Undefined
     \/ selected \in Passers /\ \A b \in Passers : Simpler(selected, b)

SelInv == Posed /\ Reading /\ Evidence /\ Paneled /\ Decided

LEMMA SelInitially == SelectionInit => SelInv
BY EvidenceInitially DEF SelectionInit, SelInv, Paneled, Decided

\* So do an arm's reasons as long as the evidence stays.
LEMMA VerdictStays ==
  ASSUME UNCHANGED <<selectionGiven, at, worst>>
  PROVE  /\ \A a : Reasons(a)' = Reasons(a)
         /\ Passers' = Passers /\ \A a, b : Simpler(a, b)' = Simpler(a, b)
<1>1. UNCHANGED <<lines, estimate, tails, campaigns, at, worst>>
  BY DEF selectionGiven
<1>2. \A a, i : Growth(a, i)' = Growth(a, i)
  BY <1>1 DEF Growth, DeltaGrid
<1>3. \A i : BestGrowth(i)' = BestGrowth(i)
  BY <1>2 DEF BestGrowth
<1>4. \A a : MaxRegret(a)' = MaxRegret(a)
  BY <1>2, <1>3 DEF MaxRegret
<1>5. RegretCeiling' = RegretCeiling
  BY <1>4 DEF RegretCeiling
<1>6. \A a : Reasons(a)' = Reasons(a)
  BY <1>1, <1>4, <1>5 DEF Reasons
<1>7. Passers' = Passers /\ \A a, b : Simpler(a, b)' = Simpler(a, b)
  BY <1>1, <1>6 DEF Passers, Simpler
<1> QED BY <1>6, <1>7

\* The questions and the evidence stay, and so do panel and verdict.
LEMMA SelStays ==
  ASSUME Posed, UNCHANGED <<selectionGiven, at, worst, undefinedArms>>
  PROVE  /\ Posed' /\ (Reading => Reading') /\ (Evidence => Evidence')
         /\ (Decided /\ UNCHANGED <<verdicts, selected>> => Decided')
<1>1. ReadSoFar' = ReadSoFar
  BY DEF ReadSoFar, selectionGiven
<1>2. \A a : OwnRatios(a)' = OwnRatios(a)
  BY <1>1 DEF OwnRatios
<1>3. Posed' /\ (Reading => Reading') /\ (Evidence => Evidence')
  BY <1>2 DEF Posed, Reading, Evidence, selectionGiven
<1>4. Decided /\ UNCHANGED <<verdicts, selected>> => Decided'
  BY VerdictStays DEF Decided, selectionGiven
<1> QED BY <1>3, <1>4
\* The panel depends on nothing but the marks.
LEMMA PanelSame ==
  ASSUME marks' = marks
  PROVE  PanelReturns' = PanelReturns /\ \A t, m : DaysIn(t, m)' = DaysIn(t, m)
<1>1. \A t, m : DaysIn(t, m)' = DaysIn(t, m)
  BY DEF DaysIn, DaysInAll
<1>2. \A t, m : LastMark(t, m)' = LastMark(t, m)
  BY <1>1 DEF LastMark
<1> QED BY <1>1, <1>2 DEF PanelReturns

LEMMA SelStep == SelInv /\ [SelectionNext]_selectionVars => SelInv'
<1> SUFFICES ASSUME SelInv, [SelectionNext]_selectionVars PROVE SelInv'
  OBVIOUS
<1>0. Posed /\ Reading /\ Evidence /\ Paneled /\ Decided
  BY DEF SelInv
<1>1. CASE EstimatePanel
  <2>1. UNCHANGED <<selectionGiven, at, worst, undefinedArms>> /\ UNCHANGED <<verdicts, selected>>
    BY <1>1 DEF EstimatePanel
  <2>2. Paneled'
    <3>1. CASE returns' = returns
      BY <1>0, <2>1, <3>1, PanelSame DEF Paneled, selectionGiven
    <3>2. CASE returns' # returns
      <4>1. /\ returns' = PanelReturns
            /\ \A t \in DOMAIN marks, m \in EstimationMonths : DaysIn(t, m) # {}
            /\ ~(Cardinality(EstimationMonths) - 1 < MinReturns)
        BY <1>1, <3>2 DEF EstimatePanel, PanelReturns
      <4>2. FirstMonth < FinalMonth
        BY <4>1, MonthsFacts, MarksAssumption
      <4>3. marks' = marks
        BY <2>1 DEF selectionGiven
      <4> QED BY <4>1, <4>2, <4>3, PanelSame DEF Paneled
    <3> QED BY <3>1, <3>2
  <2> QED BY <1>0, <2>1, <2>2, SelStays DEF SelInv
<1>2. ASSUME UNCHANGED <<selectionGiven, returns>> PROVE Paneled'
  BY <1>0, <1>2, PanelSame DEF Paneled, selectionGiven
<1>3. CASE FitModel
  <2>1. UNCHANGED <<selectionGiven, at, worst, undefinedArms>> /\ UNCHANGED <<verdicts, selected>> /\ UNCHANGED returns
    BY <1>3 DEF FitModel
  <2> QED BY <1>0, <1>2, <2>1, SelStays DEF SelInv
<1>4. CASE OpenCampaign
  <2>1. UNCHANGED <<selectionGiven, returns, verdicts>> /\ Posed' /\ ~(at[1] > Len(campaigns))
    BY <1>0, <1>4, CampaignFacts DEF OpenCampaign, Posed, selectionGiven, Reading
  <2>2. verdicts = <<>>
    BY <1>0, <2>1 DEF Decided
  <2>3. Decided'
    BY <2>1, <2>2 DEF Decided
  <2> QED BY <1>0, <1>2, <1>4, <2>1, <2>3, OpenCampaignKeeps DEF SelInv
<1>5. CASE ReadSummary
  <2>1. UNCHANGED <<selectionGiven, returns, verdicts>> /\ Posed' /\ ~(at[1] > Len(campaigns))
    BY <1>0, <1>5, CampaignFacts DEF ReadSummary, Posed, selectionGiven, Reading
  <2>2. verdicts = <<>>
    BY <1>0, <2>1 DEF Decided
  <2>3. Decided'
    BY <2>1, <2>2 DEF Decided
  <2> QED BY <1>0, <1>2, <1>5, <2>1, <2>3, ReadSummaryKeeps DEF SelInv
<1>6. CASE Decide
  <2>1. UNCHANGED <<selectionGiven, at, worst, undefinedArms>> /\ UNCHANGED returns
    BY <1>6 DEF Decide
  <2>2. Decided'
    <3>1. Passers # {} => \E a \in Passers : \A b \in Passers : Simpler(a, b)
      BY <1>0, SimplestExists DEF Passers
    <3>2. \/ Passers = {} /\ selected' = Undefined
          \/ selected' \in Passers /\ \A b \in Passers : Simpler(selected', b)
      BY <1>6, <3>1 DEF Decide
    <3>3. /\ at[1] > Len(campaigns)
          /\ verdicts' = [i \in DOMAIN SelectionArms |-> [arm |-> SelectionArms[i], reasons |-> Reasons(SelectionArms[i])]]
      BY <1>6 DEF Decide
    <3>4. /\ \A a : Reasons(a)' = Reasons(a)
          /\ Passers' = Passers /\ \A a, b : Simpler(a, b)' = Simpler(a, b)
          /\ at' = at /\ campaigns' = campaigns
      BY <2>1, VerdictStays DEF selectionGiven
    <3> QED BY <3>2, <3>3, <3>4 DEF Decided
  <2> QED BY <1>0, <1>2, <2>1, <2>2, SelStays DEF SelInv
<1>7. CASE UNCHANGED selectionVars
  <2>1. UNCHANGED <<selectionGiven, at, worst, undefinedArms>> /\ UNCHANGED <<verdicts, selected>> /\ UNCHANGED returns
    BY <1>7 DEF selectionVars
  <2> QED BY <1>0, <1>2, <2>1, SelStays DEF SelInv
<1> QED BY <1>1, <1>3, <1>4, <1>5, <1>6, <1>7 DEF SelectionNext

\* What was heard is what the property asks of the worst ratio.
LEMMA EvidenceIsOrderFree == Posed /\ Reading /\ Evidence => HistoryOrderFree
<1> SUFFICES ASSUME Posed, Reading, Evidence, NEW a \in ArmSet
             PROVE  worst[a] = IF OwnRatios(a) = {} \/ Undefined \in OwnRatios(a) THEN Undefined ELSE Min(OwnRatios(a))
  BY DEF HistoryOrderFree, OwnRatios
<1>1. Heard(worst[a], OwnRatios(a)) /\ OwnRatios(a) \subseteq Int \cup {Undefined}
  BY ReadSoFarFacts DEF Evidence
<1>2. CASE OwnRatios(a) = {} \/ Undefined \in OwnRatios(a)
  BY <1>1, <1>2 DEF Heard
<1>3. CASE ~(OwnRatios(a) = {} \/ Undefined \in OwnRatios(a))
  <2>1. PICK own, w : own = OwnRatios(a) /\ w = worst[a]
    OBVIOUS
  <2>2. own \subseteq Int /\ w \in own /\ \A r \in own : w =< r
    BY <1>1, <1>3, <2>1 DEF Heard
  <2>3. Min(own) = w
    BY <2>2, MinIs
  <2> QED BY <1>3, <2>1, <2>3
<1> QED BY <1>2, <1>3

\* An arm without reasons holds in every scenario, in its tail and in history.
LEMMA PasserHolds ==
  ASSUME Posed, Reading, Evidence, NEW a \in Passers
  PROVE  /\ \A i \in 1 .. GridPoints : Growth(a, i) + RegretCeiling >= BestGrowth(i)
         /\ tails[a].multiple >= MinMultiple /\ tails[a].drawdown <= MaxDrawdown
         /\ \A s \in ReadSoFar : s.arm = a /\ s.horizon \in AllowedHorizons => s.worst # Undefined /\ s.worst >= Floor
<1>1. a \in ArmSet /\ Reasons(a) = {}
  BY DEF Passers
<1>2. /\ ~(MaxRegret(a) > RegretCeiling) /\ ~(tails[a].multiple < MinMultiple) /\ ~(tails[a].drawdown > MaxDrawdown)
      /\ worst[a] # Undefined /\ ~(worst[a] < Floor)
  BY <1>1 DEF Reasons
<1>3. MaxRegret(a) \in Int /\ RegretCeiling \in Int
  BY <1>1, RegretFacts, CeilingFacts
<1>4. \A i \in 1 .. GridPoints : Growth(a, i) + RegretCeiling >= BestGrowth(i)
  BY <1>1, RegretFacts, <1>2, <1>3
<1>5. tails[a].multiple >= MinMultiple /\ tails[a].drawdown <= MaxDrawdown
  BY <1>1, <1>2, LineFacts, SelectionAssumption
<1>6. ASSUME NEW s \in ReadSoFar, s.arm = a, s.horizon \in AllowedHorizons PROVE s.worst # Undefined /\ s.worst >= Floor
  <2>1. s.worst \in OwnRatios(a)
    BY <1>6 DEF OwnRatios
  <2>2. Heard(worst[a], OwnRatios(a)) /\ OwnRatios(a) \subseteq Int \cup {Undefined}
    BY <1>1, ReadSoFarFacts DEF Evidence
  <2>3. s.worst # Undefined /\ worst[a] \in Int /\ s.worst \in Int /\ worst[a] =< s.worst
    BY <1>2, <2>1, <2>2 DEF Heard
  <2>4. Floor \in Int
    BY SelectionAssumption
  <2> QED BY <1>2, <2>3, <2>4
<1> QED BY <1>4, <1>5, <1>6

LEMMA VerdictHolds == SelInv => SelectionHolds
<1> SUFFICES ASSUME SelInv, verdicts # <<>>
             PROVE  /\ selected # Undefined =>
                         /\ \A i \in 1 .. GridPoints : Growth(selected, i) + RegretCeiling >= BestGrowth(i)
                         /\ tails[selected].multiple >= MinMultiple /\ tails[selected].drawdown <= MaxDrawdown
                         /\ \A s \in ReadSoFar : s.arm = selected /\ s.horizon \in AllowedHorizons => s.worst # Undefined /\ s.worst >= Floor
                         /\ \A i \in DOMAIN verdicts : verdicts[i].reasons = {} =>
                              \/ lines[verdicts[i].arm].tickers > lines[selected].tickers
                              \/ lines[verdicts[i].arm].tickers = lines[selected].tickers
                                 /\ lines[verdicts[i].arm].volatility >= lines[selected].volatility
                    /\ selected = Undefined => \A i \in DOMAIN verdicts : verdicts[i].reasons # {}
                    /\ \E i \in DOMAIN verdicts : "REGRET_ABOVE_TOLERANCE" \notin verdicts[i].reasons
  BY DEF SelectionHolds
<1>1. /\ Posed /\ Reading /\ Evidence
      /\ verdicts = [i \in DOMAIN SelectionArms |-> [arm |-> SelectionArms[i], reasons |-> Reasons(SelectionArms[i])]]
      /\ \/ Passers = {} /\ selected = Undefined
         \/ selected \in Passers /\ \A b \in Passers : Simpler(selected, b)
  BY DEF SelInv, Decided
<1>2. DOMAIN verdicts = DOMAIN SelectionArms /\ \A i \in DOMAIN verdicts :
        verdicts[i].arm = SelectionArms[i] /\ verdicts[i].reasons = Reasons(SelectionArms[i]) /\ SelectionArms[i] \in ArmSet
  BY <1>1, ArmFacts
<1>3. \A i \in DOMAIN verdicts : verdicts[i].reasons = {} => verdicts[i].arm \in Passers
  BY <1>2 DEF Passers
<1>4. selected # Undefined => selected \in Passers /\ \A b \in Passers : Simpler(selected, b)
  BY <1>1
<1>5. selected = Undefined => Passers = {}
  BY <1>1, ArmFacts DEF Passers
<1>6. \A a, b \in ArmSet : Simpler(a, b) =>
        \/ lines[b].tickers > lines[a].tickers
        \/ lines[b].tickers = lines[a].tickers /\ lines[b].volatility >= lines[a].volatility
  BY <1>1, LineFacts DEF Simpler
<1>7. Passers \subseteq ArmSet
  BY DEF Passers
<1>8. \E i \in DOMAIN verdicts : "REGRET_ABOVE_TOLERANCE" \notin verdicts[i].reasons
  <2>1. PICK a \in ArmSet : MaxRegret(a) =< RegretCeiling /\ MaxRegret(a) \in Int /\ RegretCeiling \in Int
    BY <1>1, CeilingFacts, RegretFacts
  <2>2. "REGRET_ABOVE_TOLERANCE" \notin Reasons(a)
    BY <2>1 DEF Reasons
  <2>3. PICK i \in DOMAIN SelectionArms : SelectionArms[i] = a
    BY DEF ArmSet, Range
  <2> QED BY <1>2, <2>2, <2>3
<1>9. selected # Undefined =>
        /\ \A i \in 1 .. GridPoints : Growth(selected, i) + RegretCeiling >= BestGrowth(i)
        /\ tails[selected].multiple >= MinMultiple /\ tails[selected].drawdown <= MaxDrawdown
        /\ \A s \in ReadSoFar : s.arm = selected /\ s.horizon \in AllowedHorizons => s.worst # Undefined /\ s.worst >= Floor
  BY <1>1, <1>4, PasserHolds
<1> QED BY <1>3, <1>4, <1>5, <1>6, <1>7, <1>8, <1>9

\* A behaviour of the research is, seen from the selection, one of it.
LEMMA SelectionOfResearch ==
  /\ PensionInit => SelectionInit
  /\ [PensionNext]_<<subject, vars, panelsVars, fxVars, campaignVars, selectionVars>> => [SelectionNext]_selectionVars
BY DEF PensionInit, SelectionRests, PensionNext

\* Whatever the marks, the estimates and the campaigns' reports, the panel
\* compounds to what the tickers gained inside the window, an arm's evidence is
\* its worst ratio in whatever order the reports come, and the arm selected holds
\* in every scenario, in its tail and in history, with none simpler that does.
THEOREM SelectionIsSound == PensionSpec => []SelectionSound
<1>1. PensionInit => SelInv
  BY SelectionOfResearch, SelInitially
<1>2. SelInv /\ [PensionNext]_<<subject, vars, panelsVars, fxVars, campaignVars, selectionVars>> => SelInv'
  BY SelectionOfResearch, SelStep
<1>3. SelInv => SelectionSound
  BY PanelChains, EvidenceIsOrderFree, VerdictHolds DEF SelInv, Posed, SelectionSound
<1> QED BY <1>1, <1>2, <1>3, PTL DEF PensionSpec
=============================================================================
