------------------------------ MODULE BooksProofs ------------------------------
(* Proofs about Books, checked by TLAPS: what is collected for a fund, what is paid *)
(* as tax on the rent, and what the pages say of both.                               *)
EXTENDS Books, SumLemmas

\* A behaviour of the books is one of each of its modules.
THEOREM BooksApart == BooksSpec => Spec /\ R!Spec /\ S!Spec
<1>1. BooksInit => Init /\ R!Init /\ S!Init
  BY DEF BooksInit
<1>2. [BooksNext]_books => [Next]_vars
  BY DEF BooksNext, books
<1>3. [BooksNext]_books => [R!Next]_R!vars
  BY DEF BooksNext, books, rent, R!vars
<1>4. [BooksNext]_books => [S!Next]_S!vars
  BY DEF BooksNext, books, pages, S!vars
<1> QED
  BY <1>1, <1>2, <1>3, <1>4, PTL DEF BooksSpec, Spec, R!Spec, S!Spec

(***************************************************************************)
(* RentBook.                                                               *)
(***************************************************************************)

\* What RentBook assumes of its constants.
Calendar == R!CalendarAssumption /\ R!AmountsAssumption

\* A sum of RentBook is one of SumLemmas.
LEMMA RentSum == ASSUME NEW f, NEW X PROVE R!SumFunctionOnSet(f, X) = SumFunctionOnSet(f, X)
BY DEF SumFunctionOnSet, R!SumFunctionOnSet, FoldFunctionOnSet, R!FoldFunctionOnSet,
       MapThenFoldSet, R!MapThenFoldSet

(***************************************************************************)
(* The brackets.                                                           *)
(***************************************************************************)

LEMMA SmallerOfTwo ==
    ASSUME NEW a \in Int, NEW b \in Int PROVE R!Min({a, b}) = IF a <= b THEN a ELSE b
<1>1. a <= b => (CHOOSE x \in {a, b} : \A y \in {a, b} : x <= y) = a
  OBVIOUS
<1>2. b < a => (CHOOSE x \in {a, b} : \A y \in {a, b} : x <= y) = b
  OBVIOUS
<1> QED
  BY <1>1, <1>2 DEF R!Min

LEMMA LargerOfTwo ==
    ASSUME NEW a \in Int, NEW b \in Int PROVE R!Max({a, b}) = IF a <= b THEN b ELSE a
<1>1. a <= b => (CHOOSE x \in {a, b} : \A y \in {a, b} : y <= x) = b
  OBVIOUS
<1>2. b < a => (CHOOSE x \in {a, b} : \A y \in {a, b} : y <= x) = a
  OBVIOUS
<1> QED
  BY <1>1, <1>2 DEF R!Max

\* The part of a month's income that the low rate applies to.
Low(before, month) == R!Min({month, R!Max({0, Threshold - before})})
Thousandths(before, month) == Low(before, month) * LowRate + (month - Low(before, month)) * HighRate

LEMMA ThousandthsTyped ==
    ASSUME Calendar, NEW b \in Int, NEW m \in Int
    PROVE  /\ Low(b, m) \in Int /\ Thousandths(b, m) \in Int
           /\ R!Tax(b, m) = R!ToWholePln(Thousandths(b, m))
<1>1. Threshold \in Nat /\ LowRate \in Nat /\ HighRate \in Nat
  BY DEF Calendar, R!AmountsAssumption, R!RatesAssumption
<1>2. R!Max({0, Threshold - b}) \in Int
  BY <1>1, LargerOfTwo
<1>3. Low(b, m) \in Int
  BY <1>2, SmallerOfTwo DEF Low
<1>4. Thousandths(b, m) \in Int
  BY <1>1, <1>3 DEF Thousandths
<1> QED
  BY <1>3, <1>4 DEF R!Tax, Thousandths, Low

\* Rounding to whole zloty is off by half of one at most, and keeps zero.
LEMMA WholePln ==
    ASSUME NEW x \in Int
    PROVE  /\ R!ToWholePln(x) \in Int
           /\ x - 500 <= 1000 * R!ToWholePln(x) /\ 1000 * R!ToWholePln(x) <= x + 500
           /\ x = 0 => R!ToWholePln(x) = 0
<1> DEFINE a == R!Magnitude(x)  q == (a + 500) \div 1000
<1>1. a \in Nat /\ (x < 0 => a = -x) /\ (x >= 0 => a = x)
  BY DEF R!Magnitude
<1> HIDE DEF a
<1>2. q \in Int /\ 1000 * q <= a + 500 /\ a + 500 < 1000 * q + 1000
  BY <1>1
<1> HIDE DEF q
<1>3. R!ToWholePln(x) = IF x < 0 THEN -q ELSE q
  BY DEF R!ToWholePln, q, a
<1> QED
  BY <1>1, <1>2, <1>3

LEMMA Distributes ==
    ASSUME NEW a \in Int, NEW b \in Int, NEW c \in Int
    PROVE  (a - b) * c = a * c - b * c /\ (a + b) * c = a * c + b * c
           /\ a * c \in Int /\ 0 * c = 0
OBVIOUS

\* A month takes the tax on the year from what it was before to what it is after.
LEMMA BracketsMeet ==
    ASSUME Calendar, NEW b \in Nat, NEW m \in Nat
    PROVE  R!YearTax(b + m) = R!YearTax(b) + Thousandths(b, m)
           /\ R!YearTax(b) \in Int /\ R!YearTax(0) = 0
<1>1. Threshold \in Nat /\ LowRate \in Nat /\ HighRate \in Nat
  BY DEF Calendar, R!AmountsAssumption, R!RatesAssumption
<1> DEFINE T == Threshold  L == LowRate  H == HighRate
<1>2. \A i \in Nat : R!YearTax(i) = IF i <= T THEN i * L ELSE T * L + (i - T) * H
  <2> SUFFICES ASSUME NEW i \in Nat PROVE R!YearTax(i) = IF i <= T THEN i * L ELSE T * L + (i - T) * H
    OBVIOUS
  <2>1. R!Min({i, T}) = IF i <= T THEN i ELSE T
    BY <1>1, SmallerOfTwo
  <2>2. i - T \in Int
    BY <1>1
  <2>3. R!Max({0, i - T}) = IF 0 <= i - T THEN i - T ELSE 0
    BY <2>2, LargerOfTwo
  <2>4. 0 * H = 0
    BY <1>1
  <2>5. i = T => (i - T) * H = 0
    BY <1>1, <2>4
  <2>6. i * L \in Int /\ T * L \in Int /\ (i - T) * H \in Int
    BY <1>1
  <2> QED
    BY <1>1, <2>1, <2>2, <2>3, <2>4, <2>5, <2>6 DEF R!YearTax
<1>3. Low(b, m) = IF T - b <= 0 THEN 0 ELSE IF m <= T - b THEN m ELSE T - b
  <2>1. T - b \in Int
    BY <1>1
  <2>2. R!Max({0, T - b}) = IF 0 <= T - b THEN T - b ELSE 0
    BY <2>1, LargerOfTwo
  <2>3. R!Max({0, T - b}) \in Int
    BY <2>1, <2>2
  <2>4. Low(b, m) = IF m <= R!Max({0, T - b}) THEN m ELSE R!Max({0, T - b})
    BY <2>3, SmallerOfTwo DEF Low
  <2> QED
    BY <1>1, <2>1, <2>2, <2>4
<1> HIDE DEF T, L, H
<1>4. CASE b + m <= T
  <2>1. Low(b, m) = m /\ b <= T
    BY <1>1, <1>3, <1>4 DEF T
  <2> QED
    BY <1>1, <1>2, <1>4, <2>1 DEF Thousandths, T, L, H
<1>5. CASE b <= T /\ T < b + m
  <2>1. Low(b, m) = T - b
    BY <1>1, <1>3, <1>5 DEF T
  <2> QED
    BY <1>1, <1>2, <1>5, <2>1, Distributes DEF Thousandths, T, L, H
<1>6. CASE T < b
  <2>1. Low(b, m) = 0
    BY <1>1, <1>3, <1>6 DEF T
  <2>2. T < b + m /\ b + m \in Nat
    BY <1>1, <1>6 DEF T
  <2> QED
    BY <1>1, <1>2, <1>6, <2>1, <2>2, Distributes DEF Thousandths, T, L, H
<1>7. R!YearTax(b) \in Int /\ R!YearTax(0) = 0
  BY <1>1, <1>2 DEF T, L, H
<1> QED
  BY <1>1, <1>4, <1>5, <1>6, <1>7 DEF T

\* Nothing is due on nothing.
LEMMA NoIncomeNoTax ==
    ASSUME Calendar, NEW b \in Int
    PROVE  Thousandths(b, 0) = 0 \/ b < 0
<1>1. Threshold \in Nat /\ LowRate \in Nat /\ HighRate \in Nat
  BY DEF Calendar, R!AmountsAssumption, R!RatesAssumption
<1>2. CASE b >= 0
  <2>1. R!YearTax(b + 0) = R!YearTax(b) + Thousandths(b, 0) /\ R!YearTax(b) \in Int
    BY <1>2, BracketsMeet
  <2>2. Thousandths(b, 0) \in Int /\ b + 0 = b
    BY ThousandthsTyped
  <2> QED
    BY <2>1, <2>2
<1> QED
  BY <1>2

(***************************************************************************)
(* The months of a year.                                                   *)
(***************************************************************************)

Earlier(m) == {n \in R!MonthsOf(R!YearOf(m)) : n < m}
Before(v, m) == SumFunctionOnSet(v, Earlier(m))

LEMMA MonthsFinite ==
    ASSUME Calendar
    PROVE  /\ IsFiniteSet(R!Months) /\ R!Months \subseteq Nat /\ LastMonth \in Nat
           /\ \A y : IsFiniteSet(R!MonthsOf(y)) /\ R!MonthsOf(y) \subseteq R!Months
           /\ \A m : IsFiniteSet(Earlier(m)) /\ Earlier(m) \subseteq R!Months
<1>1. LastMonth \in Nat
  BY DEF Calendar, R!CalendarAssumption
<1>2. IsFiniteSet(1..LastMonth)
  BY <1>1, FS_Interval
<1>3. R!Months = 1..LastMonth
  BY DEF R!Months
<1>4. \A y : R!MonthsOf(y) \subseteq R!Months
  BY DEF R!MonthsOf
<1>5. \A m : Earlier(m) \subseteq R!Months
  BY <1>4 DEF Earlier
<1> QED
  BY <1>1, <1>2, <1>3, <1>4, <1>5, FS_Subset

\* The tax on a year is what its months add to it, one after the other.
LEMMA YearIsMonths ==
    ASSUME Calendar, NEW y, NEW v, \A m \in R!MonthsOf(y) : v[m] \in Nat,
           NEW t, \A m \in R!MonthsOf(y) : t[m] = Thousandths(Before(v, m), v[m])
    PROVE  R!YearTax(SumFunctionOnSet(v, R!MonthsOf(y))) = SumFunctionOnSet(t, R!MonthsOf(y))
<1> DEFINE M == R!MonthsOf(y)
           Till(n) == {m \in M : m <= n}
           G == {n \in Nat : R!YearTax(SumFunctionOnSet(v, Till(n))) = SumFunctionOnSet(t, Till(n))}
<1>m. IsFiniteSet(M) /\ LastMonth \in Nat /\ (\A m \in M : m \in Nat /\ 1 <= m /\ m <= LastMonth)
  <2>1. IsFiniteSet(M) /\ LastMonth \in Nat /\ M \subseteq 1..LastMonth
    BY MonthsFinite DEF R!Months
  <2> HIDE DEF M
  <2> QED
    BY <2>1
<1>v. \A m \in M : v[m] \in Nat
  OBVIOUS
<1>p. \A m \in M : Earlier(m) = {n \in M : n < m}
  BY DEF Earlier, R!MonthsOf
<1>t. \A m \in M : t[m] = Thousandths(Before(v, m), v[m])
  OBVIOUS
<1> HIDE DEF M
<1>1. \A n \in Nat : IsFiniteSet(Till(n)) /\ (\A m \in Till(n) : v[m] \in Nat) /\ Till(n) \subseteq M
  BY <1>m, <1>v, FS_Subset
<1>2. \A n \in Nat : SumFunctionOnSet(v, Till(n)) \in Nat
  BY <1>1, SumNatural
<1>3. 0 \in G
  <2>1. Till(0) = {}
    BY <1>m
  <2>2. R!YearTax(0) = 0
    BY BracketsMeet
  <2> QED
    BY <2>1, <2>2, SumOfNone
<1>4. ASSUME NEW n \in Nat, n \in G PROVE n + 1 \in G
  <2>1. CASE n + 1 \notin M
    <3>1. Till(n + 1) = Till(n)
      BY <1>m, <2>1
    <3> QED
      BY <1>4, <3>1
  <2>2. CASE n + 1 \in M
    <3> DEFINE U == Till(n)  b == SumFunctionOnSet(v, U)  k == n + 1  w == v[k]
    <3>1. Till(n + 1) = U \cup {k} /\ k \notin U /\ Earlier(k) = U
      BY <1>m, <1>p, <2>2
    <3>2. IsFiniteSet(U) /\ b \in Nat /\ U \subseteq M /\ (\A m \in U : v[m] \in Nat)
      BY <1>1, <1>2
    <3>3. t[k] = Thousandths(b, v[k]) /\ v[k] \in Nat
      BY <1>t, <1>v, <2>2, <3>1 DEF Before
    <3>4. \A m \in M : t[m] \in Int
      <4> SUFFICES ASSUME NEW m \in M PROVE t[m] \in Int
        OBVIOUS
      <4>1. IsFiniteSet(Earlier(m)) /\ \A q \in Earlier(m) : v[q] \in Int
        BY <1>m, <1>p, <1>v, MonthsFinite
      <4>2. Before(v, m) \in Int
        BY <4>1, SumTyped DEF Before
      <4>3. v[m] \in Int
        BY <1>v
      <4> QED
        BY <1>t, <4>2, <4>3, ThousandthsTyped
    <3>5. R!YearTax(b) = SumFunctionOnSet(t, U)
      BY <1>4
    <3> HIDE DEF U
    <3>6. SumFunctionOnSet(v, U \cup {k}) = v[k] + b
      <4>1. \A x \in U \cup {k} : v[x] \in Int
        BY <3>2, <3>3
      <4> QED
        BY <3>1, <3>2, <4>1, SumAdds
    <3>7. SumFunctionOnSet(t, U \cup {k}) = t[k] + SumFunctionOnSet(t, U)
      <4>1. \A x \in U \cup {k} : t[x] \in Int
        BY <2>2, <3>2, <3>4
      <4> QED
        BY <3>1, <3>2, <4>1, SumAdds
    <3>w. t[k] = Thousandths(b, w) /\ w \in Nat /\ b \in Nat /\ v[k] = w
      BY <3>2, <3>3
    <3>b. SumFunctionOnSet(v, U) = b
      OBVIOUS
    <3> HIDE DEF b, k, w
    <3>8. R!YearTax(b + w) = R!YearTax(b) + Thousandths(b, w) /\ R!YearTax(b) \in Int
      BY <3>w, BracketsMeet
    <3>9. Thousandths(b, w) \in Int
      BY <3>w, ThousandthsTyped
    <3>10. w + b = b + w
      BY <3>w
    <3>11. R!YearTax(SumFunctionOnSet(v, U \cup {k})) = SumFunctionOnSet(t, U \cup {k})
      BY <3>w, <3>b, <3>5, <3>6, <3>7, <3>8, <3>9, <3>10
    <3> QED
      BY <3>1, <3>11
  <2> QED
    BY <2>1, <2>2
<1>5. LastMonth \in G
  <2> HIDE DEF G
  <2>1. \A n \in Nat : n \in G
    BY <1>3, <1>4, EveryNatural
  <2> QED
    BY <1>m, <2>1
<1>6. Till(LastMonth) = M
  BY <1>m
<1> QED
  BY <1>5, <1>6 DEF M

(***************************************************************************)
(* What a month brought in.                                                *)
(***************************************************************************)

RentOf(M) == {e \in ledger : e.kind = "rent" /\ e.received \in M}

\* The income of some months is that of each added up.
LEMMA TaxableIsIncome ==
    ASSUME Calendar, IsFiniteSet(ledger), \A e \in ledger : e.amount \in Int,
           NEW M \in SUBSET R!Months
    PROVE  /\ R!Income \in R!Incomes
           /\ R!Taxable(M) = SumFunctionOnSet(R!Income, M)
<1> DEFINE amount(E) == [e \in E |-> e.amount]
           month == [e \in RentOf(M) |-> e.received]
           of == [m \in M |-> RentOf({m})]
<1>1. \A N : IsFiniteSet(RentOf(N)) /\ RentOf(N) \subseteq ledger
  <2>1. \A N : RentOf(N) \subseteq ledger
    BY DEF RentOf
  <2> QED
    BY <2>1, FS_Subset
<1>2. \A N : R!Taxable(N) = SumFunctionOnSet(amount(RentOf(N)), RentOf(N))
  BY RentSum DEF R!Taxable, R!Total, RentOf
<1>3. \A N : R!Taxable(N) \in Int
  <2> SUFFICES ASSUME NEW N PROVE R!Taxable(N) \in Int
    OBVIOUS
  <2> DEFINE E == RentOf(N)  f == amount(E)
  <2>1. IsFiniteSet(E) /\ \A e \in E : f[e] \in Int
    BY <1>1
  <2>2. R!Taxable(N) = SumFunctionOnSet(f, E)
    BY <1>2
  <2> HIDE DEF E, f
  <2> QED
    BY <2>1, <2>2, SumTyped
<1>4. \A m \in R!Months : R!Income[m] = R!Taxable({m})
  BY DEF R!Income
<1>5. R!Income \in R!Incomes
  BY <1>3 DEF R!Income, R!Incomes
<1>6. \A m \in M : R!Income[m] = SumFunctionOnSet(amount(RentOf(M)), of[m])
  <2> SUFFICES ASSUME NEW m \in M
               PROVE  R!Taxable({m}) = SumFunctionOnSet(amount(RentOf(M)), RentOf({m}))
    BY <1>4
  <2> DEFINE E == RentOf({m})  f == amount(E)  g == amount(RentOf(M))
  <2>1. R!Taxable({m}) = SumFunctionOnSet(f, E)
    BY <1>2
  <2>2. IsFiniteSet(E) /\ \A e \in E : f[e] \in Int /\ f[e] = g[e]
    BY <1>1 DEF RentOf
  <2> HIDE DEF E, f, g
  <2>3. SumFunctionOnSet(f, E) = SumFunctionOnSet(g, E)
    BY <2>2, SumSame
  <2> QED
    BY <2>1, <2>3 DEF E, g
<1>7. R!Taxable(M) = SumFunctionOnSet(R!Income, M)
  <2> DEFINE E == RentOf(M)  f == amount(E)  J == R!Income
  <2>1. IsFiniteSet(M) /\ IsFiniteSet(E)
    BY <1>1, MonthsFinite, FS_Subset
  <2>2. \A e \in E : f[e] \in Int /\ month[e] \in M
    BY <1>1 DEF RentOf
  <2>3. \A m \in M : \A e : e \in of[m] <=> e \in E /\ month[e] = m
    BY DEF RentOf
  <2>4. \A m \in M : J[m] = SumFunctionOnSet(f, of[m])
    BY <1>6
  <2>5. R!Taxable(M) = SumFunctionOnSet(f, E)
    BY <1>2
  <2> HIDE DEF E, f, J, of, month
  <2>6. SumFunctionOnSet(f, E) = SumFunctionOnSet(J, M)
    BY <2>1, <2>2, <2>3, <2>4, SumInGroups
  <2> QED
    BY <2>5, <2>6 DEF J
<1> QED
  BY <1>5, <1>7

(***************************************************************************)
(* Rows and requests.                                                      *)
(***************************************************************************)

\* Serials are ahead of the rows and of what updates hold.
KeysBehind ==
    /\ \A e \in ledger : e.id <= lastEntry
    /\ \A d \in dues : d.id <= lastDue
    /\ \A c \in Clients : visit[c].op = "update" => visit[c].entry.id <= lastEntry

\* What was computed while the ledger stood still is the tax on what it held.
Computed(r) == \A v \in R!Incomes : r.seen = {v} => r.tax = R!Tax(Before(v, r.month), v[r.month])

TaxesComputed ==
    /\ \A d \in dues : Computed(d)
    /\ \A c \in Clients : visit[c].op = "tax" =>
         \E v \in R!Incomes : visit[c].seen = {v} /\ visit[c].before = Before(v, visit[c].month)
    /\ \A c \in Clients : visit[c].op \in {"find", "insert"} => Computed(visit[c])

RowsKept == R!TypeOK /\ IsFiniteSet(ledger) /\ IsFiniteSet(dues) /\ KeysBehind /\ TaxesComputed

LEMMA VisitTyped ==
    ASSUME R!TypeOK, NEW c \in Clients
    PROVE  /\ visit[c].op = "confirm" => visit[c].contract \in Contracts
           /\ visit[c].op = "update" => visit[c].entry \in R!Entry
           /\ visit[c].op = "tax" => /\ visit[c].month \in R!Months /\ visit[c].before \in Int
                                     /\ visit[c].seen \in SUBSET R!Incomes
           /\ visit[c].op \in {"find", "insert"} =>
                /\ visit[c].month \in R!Months /\ visit[c].tax \in Nat \ {0}
                /\ visit[c].seen \in SUBSET R!Incomes
           /\ R!Idle.op = "idle"
<1>1. visit[c] \in R!Request
  BY DEF R!TypeOK
<1> QED
  BY <1>1 DEF R!Request, R!Idle

\* A request changes and the tables stay.
LEMMA VisitStep ==
    ASSUME RowsKept, NEW c \in Clients, NEW r \in R!Request,
           visit' = [visit EXCEPT ![c] = r], UNCHANGED <<ledger, dues, lastEntry, lastDue, writes>>,
           r.op = "update" => r.entry.id <= lastEntry,
           r.op = "tax" => \E v \in R!Incomes : r.seen = {v} /\ r.before = Before(v, r.month),
           r.op \in {"find", "insert"} => Computed(r)
    PROVE  RowsKept'
<1>1. visit \in [Clients -> R!Request]
  BY DEF RowsKept, R!TypeOK
<1>2. /\ visit' \in [Clients -> R!Request] /\ visit'[c] = r
      /\ \A d \in Clients : d # c => visit'[d] = visit[d]
  BY <1>1
<1>3. R!TypeOK'
  BY <1>2 DEF RowsKept, R!TypeOK
<1>4. KeysBehind'
  BY <1>2 DEF RowsKept, KeysBehind
<1>5. TaxesComputed'
  <2>1. \A d \in dues : Computed(d)
    BY DEF RowsKept, TaxesComputed
  <2>2. ASSUME NEW d \in Clients, visit'[d].op = "tax"
        PROVE  \E v \in R!Incomes : visit'[d].seen = {v} /\ visit'[d].before = Before(v, visit'[d].month)
    BY <1>2, <2>2 DEF RowsKept, TaxesComputed
  <2>3. ASSUME NEW d \in Clients, visit'[d].op \in {"find", "insert"} PROVE Computed(visit'[d])
    BY <1>2, <2>3 DEF RowsKept, TaxesComputed
  <2> QED
    BY <2>1, <2>2, <2>3 DEF TaxesComputed, Computed
<1> QED
  BY <1>3, <1>4, <1>5 DEF RowsKept

\* A request ends, or a form is sent again.
LEMMA VisitEnds ==
    ASSUME RowsKept, NEW c \in Clients, R!Done(c), UNCHANGED <<ledger, dues, lastEntry, lastDue, writes>>
    PROVE  RowsKept'
<1>1. R!Idle \in R!Request /\ R!Idle.op = "idle"
  BY DEF R!Idle, R!Request
<1> QED
  BY <1>1, VisitStep DEF R!Done

\* The ledger changes, and a request may end with it.
LEMMA LedgerStep ==
    ASSUME RowsKept, NEW E \in SUBSET R!Entry, IsFiniteSet(E), ledger' = E,
           \A e, f \in E : e.id = f.id => e = f, \A e \in E : e.id <= lastEntry',
           lastEntry' \in Nat, lastEntry <= lastEntry', writes' \in Nat, UNCHANGED <<dues, lastDue>>,
           visit' = visit \/ \E c \in Clients : R!Done(c)
    PROVE  RowsKept'
<1>1. visit \in [Clients -> R!Request] /\ lastEntry \in Nat
  BY DEF RowsKept, R!TypeOK
<1>i. R!Idle \in R!Request /\ R!Idle.op = "idle"
  BY DEF R!Idle, R!Request
<1>2. /\ visit' \in [Clients -> R!Request]
      /\ \A d \in Clients : visit'[d] = visit[d] \/ visit'[d].op = "idle"
  BY <1>1, <1>i DEF R!Done
<1>3. R!TypeOK'
  BY <1>2 DEF RowsKept, R!TypeOK
<1>4. KeysBehind'
  <2>1. ASSUME NEW d \in Clients, visit'[d].op = "update" PROVE visit'[d].entry.id <= lastEntry'
    <3>1. visit'[d] = visit[d] /\ visit[d].entry.id <= lastEntry
      BY <1>2, <2>1 DEF RowsKept, KeysBehind
    <3>2. visit[d].entry.id \in Nat
      BY <2>1, <3>1, VisitTyped DEF RowsKept, R!Entry
    <3> QED
      BY <1>1, <3>1, <3>2
  <2> QED
    BY <2>1 DEF RowsKept, KeysBehind
<1>5. TaxesComputed'
  <2>1. \A d \in dues : Computed(d)
    BY DEF RowsKept, TaxesComputed
  <2>2. ASSUME NEW d \in Clients, visit'[d].op = "tax"
        PROVE  \E v \in R!Incomes : visit'[d].seen = {v} /\ visit'[d].before = Before(v, visit'[d].month)
    BY <1>2, <2>2 DEF RowsKept, TaxesComputed
  <2>3. ASSUME NEW d \in Clients, visit'[d].op \in {"find", "insert"} PROVE Computed(visit'[d])
    BY <1>2, <2>3 DEF RowsKept, TaxesComputed
  <2> QED
    BY <2>1, <2>2, <2>3 DEF TaxesComputed, Computed
<1> QED
  BY <1>3, <1>4, <1>5 DEF RowsKept

\* The payments change, and the request of a client ends.
LEMMA DuesStep ==
    ASSUME RowsKept, NEW D \in SUBSET R!Due, IsFiniteSet(D), dues' = D,
           \A d, f \in D : d.id = f.id => d = f, \A d \in D : d.id <= lastDue' /\ Computed(d),
           lastDue' \in Nat, UNCHANGED <<ledger, lastEntry, writes>>,
           visit' = visit \/ \E c \in Clients : R!Done(c)
    PROVE  RowsKept'
<1>1. visit \in [Clients -> R!Request]
  BY DEF RowsKept, R!TypeOK
<1>i. R!Idle \in R!Request /\ R!Idle.op = "idle"
  BY DEF R!Idle, R!Request
<1>2. /\ visit' \in [Clients -> R!Request]
      /\ \A d \in Clients : visit'[d] = visit[d] \/ visit'[d].op = "idle"
  BY <1>1, <1>i DEF R!Done
<1>3. R!TypeOK'
  BY <1>2 DEF RowsKept, R!TypeOK
<1>4. KeysBehind'
  BY <1>2 DEF RowsKept, KeysBehind
<1>5. TaxesComputed'
  <2>2. ASSUME NEW d \in Clients, visit'[d].op = "tax"
        PROVE  \E v \in R!Incomes : visit'[d].seen = {v} /\ visit'[d].before = Before(v, visit'[d].month)
    BY <1>2, <2>2 DEF RowsKept, TaxesComputed
  <2>3. ASSUME NEW d \in Clients, visit'[d].op \in {"find", "insert"} PROVE Computed(visit'[d])
    BY <1>2, <2>3 DEF RowsKept, TaxesComputed
  <2> QED
    BY <2>2, <2>3 DEF TaxesComputed, Computed
<1> QED
  BY <1>3, <1>4, <1>5 DEF RowsKept

\* The forms and confirm_rent.
LEMMA LedgerActions ==
    ASSUME Calendar, RowsKept, NEW c \in Clients,
           R!ConfirmWrite(c) \/ R!RecordCreate(c) \/ R!UpdateWrite(c) \/ R!RecordDelete(c)
    PROVE  RowsKept'
<1>0. /\ ledger \subseteq R!Entry /\ IsFiniteSet(ledger) /\ lastEntry \in Nat /\ writes \in Nat
      /\ \A e, f \in ledger : e.id = f.id => e = f
      /\ \A e \in ledger : e.id <= lastEntry
  BY DEF RowsKept, KeysBehind, R!TypeOK
<1>a. Received \subseteq R!Months /\ Billings \subseteq R!Months /\ Kinds \subseteq {"rent", "fee"}
  BY DEF Calendar, R!CalendarAssumption, R!AmountsAssumption
<1>1. ASSUME NEW e \in R!Entry, e.id = lastEntry + 1, R!NewEntry(e), UNCHANGED <<dues, lastDue>>,
             visit' = visit \/ \E d \in Clients : R!Done(d)
      PROVE  RowsKept'
  <2> DEFINE E == ledger \cup {e}
  <2>1. E \in SUBSET R!Entry /\ IsFiniteSet(E)
    BY <1>0, FS_AddElement
  <2>2. ledger' = E /\ lastEntry' = lastEntry + 1 /\ writes' = writes + 1
    BY <1>1 DEF R!NewEntry, R!Write
  <2>3. \A f \in ledger : f.id \in Nat /\ f.id <= lastEntry
    BY <1>0 DEF R!Entry
  <2>4. \A f, g \in E : f.id = g.id => f = g
    BY <1>0, <1>1, <2>3
  <2>5. \A f \in E : f.id <= lastEntry'
    BY <1>0, <1>1, <2>2, <2>3
  <2>6. lastEntry' \in Nat /\ lastEntry <= lastEntry' /\ writes' \in Nat
    BY <1>0, <2>2
  <2> HIDE DEF E
  <2> QED
    BY <1>1, <2>1, <2>2, <2>4, <2>5, <2>6, LedgerStep
<1>2. ASSUME R!ConfirmWrite(c) PROVE RowsKept'
  <2>1. visit[c].op = "confirm" /\ R!Done(c) /\ UNCHANGED <<dues, lastDue>>
    BY <1>2 DEF R!ConfirmWrite
  <2>2. PICK received \in Received, billing \in Billings, amount \in RentAmounts :
          R!NewEntry([id |-> lastEntry + 1, contract |-> visit[c].contract, kind |-> "rent",
                      received |-> received, billing |-> billing, amount |-> amount])
    BY <1>2 DEF R!ConfirmWrite
  <2>3. visit[c].contract \in Contracts
    BY <2>1, VisitTyped DEF RowsKept
  <2> DEFINE e == [id |-> lastEntry + 1, contract |-> visit[c].contract, kind |-> "rent",
                   received |-> received, billing |-> billing, amount |-> amount]
  <2>4. e \in R!Entry /\ e.id = lastEntry + 1
    BY <1>0, <1>a, <2>3 DEF R!Entry
  <2>5. R!NewEntry(e)
    BY <2>2
  <2> HIDE DEF e
  <2> QED
    BY <1>1, <2>1, <2>4, <2>5
<1>3. ASSUME R!RecordCreate(c) PROVE RowsKept'
  <2> DEFINE id == lastEntry + 1
  <2>1. PICK e \in R!Form(id) : R!NewEntry(e)
    BY <1>3 DEF R!RecordCreate
  <2>i. id \in Nat
    BY <1>0
  <2>2. e \in R!Entry /\ e.id = id
    <3> HIDE DEF id
    <3> QED
      BY <1>a, <2>i DEF R!Entry, R!Form
  <2> QED
    BY <1>1, <1>3, <2>1, <2>2 DEF R!RecordCreate
<1>4. ASSUME R!UpdateWrite(c) PROVE RowsKept'
  <2> DEFINE id == visit[c].entry.id  kept == {f \in ledger : f.id # id}
  <2>1. visit[c].op = "update" /\ R!Done(c) /\ UNCHANGED <<dues, lastEntry, lastDue>>
    BY <1>4 DEF R!UpdateWrite
  <2>2. PICK e \in R!Form(id) : R!Write(kept \cup {e})
    BY <1>4 DEF R!UpdateWrite
  <2>3. id \in Nat /\ id <= lastEntry
    BY <2>1, VisitTyped DEF RowsKept, KeysBehind, R!Entry
  <2>4. e \in R!Entry /\ e.id = id
    BY <1>a, <2>3 DEF R!Form, R!Entry
  <2> DEFINE E == kept \cup {e}
  <2>5. E \in SUBSET R!Entry /\ IsFiniteSet(E)
    BY <1>0, <2>4, FS_Subset, FS_AddElement
  <2>6. \A f, g \in E : f.id = g.id => f = g
    BY <1>0, <2>4
  <2>7. \A f \in E : f.id <= lastEntry
    BY <1>0, <2>3, <2>4
  <2>8. ledger' = E /\ writes' \in Nat
    BY <1>0, <2>2 DEF R!Write
  <2> HIDE DEF E, id, kept
  <2> QED
    BY <1>0, <2>1, <2>5, <2>6, <2>7, <2>8, LedgerStep
<1>5. ASSUME R!RecordDelete(c) PROVE RowsKept'
  <2>1. PICK e \in ledger : R!Write(ledger \ {e})
    BY <1>5 DEF R!RecordDelete
  <2> DEFINE E == ledger \ {e}
  <2>2. E \in SUBSET R!Entry /\ IsFiniteSet(E)
    BY <1>0, FS_Subset
  <2>3. (\A f, g \in E : f.id = g.id => f = g) /\ \A f \in E : f.id <= lastEntry
    BY <1>0
  <2>4. ledger' = E /\ writes' \in Nat
    BY <1>0, <2>1 DEF R!Write
  <2>5. UNCHANGED <<dues, visit, lastEntry, lastDue>>
    BY <1>5 DEF R!RecordDelete
  <2> HIDE DEF E
  <2> QED
    BY <1>0, <2>2, <2>3, <2>4, <2>5, LedgerStep
<1> QED
  BY <1>2, <1>3, <1>4, <1>5

\* What the ledger says of a month and of those before it.
LEMMA IncomeTyped ==
    ASSUME Calendar, RowsKept, NEW m \in R!Months
    PROVE  /\ R!Income \in R!Incomes
           /\ R!IncomeBefore(m) \in Int
           /\ R!IncomeBefore(m) = Before(R!Income, m)
<1>1. IsFiniteSet(ledger) /\ \A e \in ledger : e.amount \in Int
  BY DEF RowsKept, R!TypeOK, R!Entry, Calendar, R!AmountsAssumption
<1>2. Earlier(m) \in SUBSET R!Months /\ IsFiniteSet(Earlier(m))
  BY MonthsFinite
<1>3. R!Income \in R!Incomes /\ R!Taxable(Earlier(m)) = SumFunctionOnSet(R!Income, Earlier(m))
  BY <1>1, <1>2, TaxableIsIncome
<1>4. R!IncomeBefore(m) = R!Taxable(Earlier(m))
  BY DEF R!IncomeBefore, Earlier
<1> DEFINE J == R!Income
<1>5. J \in R!Incomes
  BY <1>3
<1> HIDE DEF J
<1>6. \A n \in Earlier(m) : J[n] \in Int
  BY <1>2, <1>5 DEF R!Incomes
<1>7. SumFunctionOnSet(J, Earlier(m)) \in Int
  BY <1>2, <1>6, SumTyped
<1> QED
  BY <1>3, <1>4, <1>7 DEF Before, J

\* Where two looks at the ledger saw one thing, the tax is of that.
LEMMA TaxMonthComputes ==
    ASSUME Calendar, RowsKept, NEW c \in Clients, R!TaxMonth(c)
    PROVE  RowsKept'
<1> DEFINE m == visit[c].month  J == R!Income  tax == R!Tax(visit[c].before, J[m])
           r == [op |-> "find", month |-> m, tax |-> tax, seen |-> visit[c].seen \cup {J}]
<1>1. /\ visit[c].op = "tax" /\ UNCHANGED <<ledger, dues, lastEntry, lastDue, writes>>
      /\ visit' = [visit EXCEPT ![c] = IF R!NothingToPay(tax) THEN R!Idle ELSE r]
  BY DEF R!TaxMonth
<1>2. m \in R!Months /\ visit[c].before \in Int /\ visit[c].seen \in SUBSET R!Incomes
  BY <1>1, VisitTyped DEF RowsKept
<1>3. J \in R!Incomes
  BY <1>2, IncomeTyped
<1>4. tax \in Int
  <2>1. J[m] \in Int
    BY <1>2, <1>3 DEF R!Incomes
  <2> DEFINE before == visit[c].before  income == J[m]
  <2>2. before \in Int /\ income \in Int /\ tax = R!Tax(before, income)
    BY <1>2, <2>1
  <2> HIDE DEF J, m, before, income, tax
  <2>3. Thousandths(before, income) \in Int /\ tax = R!ToWholePln(Thousandths(before, income))
    BY <2>2, ThousandthsTyped
  <2> QED
    BY <2>3, WholePln
<1>5. CASE R!NothingToPay(tax)
  BY <1>1, <1>5, VisitEnds DEF R!Done
<1>6. CASE ~R!NothingToPay(tax)
  <2>1. tax \in Nat \ {0}
    BY <1>4, <1>6 DEF R!NothingToPay
  <2>2. PICK u \in R!Incomes : visit[c].seen = {u} /\ visit[c].before = Before(u, m)
    BY <1>1 DEF RowsKept, TaxesComputed
  <2>3. ASSUME NEW v \in R!Incomes, visit[c].seen \cup {J} = {v}
        PROVE  tax = R!Tax(Before(v, m), v[m])
    <3>1. J = v /\ u = v
      BY <2>2, <2>3
    <3> QED
      BY <2>2, <3>1
  <2>4. r \in R!Request
    BY <1>2, <1>3, <2>1 DEF R!Request
  <2>5. Computed(r)
    BY <2>3 DEF Computed
  <2>6. r.op = "find"
    OBVIOUS
  <2>7. visit' = [visit EXCEPT ![c] = r]
    BY <1>1, <1>6
  <2> HIDE DEF r
  <2> QED
    BY <1>1, <2>4, <2>5, <2>6, <2>7, VisitStep
<1> QED
  BY <1>5, <1>6

LEMMA VisitActions ==
    ASSUME Calendar, RowsKept, NEW c \in Clients,
           \/ R!ConfirmRead(c) \/ R!ConfirmRefused(c) \/ R!UpdateRead(c) \/ R!TaxBefore(c) \/ R!Crash(c)
    PROVE  RowsKept'
<1>1. ASSUME R!ConfirmRead(c) PROVE RowsKept'
  <2>1. PICK k \in Contracts, m \in Billings :
          visit' = [visit EXCEPT ![c] =
            [op |-> "confirm", contract |-> k, page |-> m, existing |-> R!Paid(k, m)]]
    BY <1>1 DEF R!ConfirmRead
  <2> DEFINE r == [op |-> "confirm", contract |-> k, page |-> m, existing |-> R!Paid(k, m)]
  <2>2. r \in R!Request /\ r.op = "confirm"
    <3>1. m \in R!Months
      BY DEF Calendar, R!CalendarAssumption
    <3>2. R!Paid(k, m) \in BOOLEAN
      BY DEF R!Paid
    <3> QED
      BY <3>1, <3>2 DEF R!Request
  <2>3. visit' = [visit EXCEPT ![c] = r] /\ UNCHANGED <<ledger, dues, lastEntry, lastDue, writes>>
    BY <1>1, <2>1 DEF R!ConfirmRead
  <2> HIDE DEF r
  <2> QED
    BY <2>2, <2>3, VisitStep
<1>2. ASSUME R!ConfirmRefused(c) \/ R!Crash(c) PROVE RowsKept'
  BY <1>2, VisitEnds DEF R!ConfirmRefused, R!Crash
<1>3. ASSUME R!UpdateRead(c) PROVE RowsKept'
  <2>1. PICK e \in ledger : visit' = [visit EXCEPT ![c] = [op |-> "update", entry |-> e]]
    BY <1>3 DEF R!UpdateRead
  <2> DEFINE r == [op |-> "update", entry |-> e]
  <2>2. r \in R!Request /\ r.op = "update" /\ r.entry.id <= lastEntry
    BY DEF R!Request, RowsKept, R!TypeOK, KeysBehind
  <2>3. visit' = [visit EXCEPT ![c] = r] /\ UNCHANGED <<ledger, dues, lastEntry, lastDue, writes>>
    BY <1>3, <2>1 DEF R!UpdateRead
  <2> HIDE DEF r
  <2> QED
    BY <2>2, <2>3, VisitStep
<1>4. ASSUME R!TaxBefore(c) PROVE RowsKept'
  <2>1. PICK m \in R!Months :
          visit' = [visit EXCEPT ![c] =
            [op |-> "tax", month |-> m, before |-> R!IncomeBefore(m), seen |-> {R!Income}]]
    BY <1>4 DEF R!TaxBefore
  <2> DEFINE J == R!Income  b == R!IncomeBefore(m)
             r == [op |-> "tax", month |-> m, before |-> b, seen |-> {J}]
  <2>2. J \in R!Incomes /\ b \in Int /\ b = Before(J, m)
    BY IncomeTyped
  <2>3. visit' = [visit EXCEPT ![c] = r] /\ UNCHANGED <<ledger, dues, lastEntry, lastDue, writes>>
    BY <1>4, <2>1 DEF R!TaxBefore
  <2> HIDE DEF J, b
  <2>4. r \in R!Request
    BY <2>2 DEF R!Request
  <2>5. r.op = "tax" /\ \E v \in R!Incomes : r.seen = {v} /\ r.before = Before(v, r.month)
    BY <2>2
  <2> HIDE DEF r
  <2> QED
    BY <2>3, <2>4, <2>5, VisitStep
<1> QED
  BY <1>1, <1>2, <1>3, <1>4

LEMMA DuesActions ==
    ASSUME Calendar, RowsKept, NEW c \in Clients, R!TaxFind(c) \/ R!TaxInsert(c) \/ R!DeleteTax(c)
    PROVE  RowsKept'
<1>0. /\ dues \subseteq R!Due /\ IsFiniteSet(dues) /\ lastDue \in Nat
      /\ \A d, f \in dues : d.id = f.id => d = f
      /\ \A d \in dues : d.id \in Nat /\ d.id <= lastDue /\ Computed(d)
  BY DEF RowsKept, KeysBehind, TaxesComputed, R!TypeOK, R!Due
<1>1. ASSUME R!TaxFind(c) PROVE RowsKept'
  <2> DEFINE q == visit[c]  found == R!DuesOf(q.month)
  <2>1. /\ q.op = "find" /\ UNCHANGED <<ledger, lastEntry, lastDue, writes>>
        /\ visit' = [visit EXCEPT ![c] = IF found = {} THEN [q EXCEPT !.op = "insert"] ELSE R!Idle]
        /\ dues' = IF R!Cardinality(found) = 1
                   THEN (dues \ found) \cup {R!Repaid(d, q) : d \in found} ELSE dues
    BY <1>1 DEF R!TaxFind
  <2>2. /\ q \in [op : {"find", "insert"}, month : R!Months, tax : Nat \ {0}, seen : SUBSET R!Incomes]
        /\ Computed(q)
    <3>1. q \in R!Request
      BY DEF RowsKept, R!TypeOK
    <3> QED
      BY <2>1, <3>1 DEF R!Request, R!Idle, RowsKept, TaxesComputed
  <2>3. CASE found = {}
    <3> DEFINE r == [q EXCEPT !.op = "insert"]
    <3>1. dues' = dues
      BY <2>1, <2>3
    <3>2. r \in R!Request /\ r.op = "insert" /\ Computed(r)
      BY <2>2 DEF R!Request, Computed
    <3>3. visit' = [visit EXCEPT ![c] = r]
      BY <2>1, <2>3
    <3> HIDE DEF r
    <3> QED
      BY <2>1, <3>1, <3>2, <3>3, VisitStep
  <2>4. CASE found # {} /\ dues' = dues
    <3>1. R!Done(c)
      BY <2>1, <2>4 DEF R!Done
    <3> QED
      BY <2>1, <2>4, <3>1, VisitEnds
  <2>5. CASE found # {} /\ R!Cardinality(found) = 1
    <3>1. PICK d \in found : found = {d}
      <4>1. R!Cardinality(found) = Cardinality(found)
        BY DEF R!Cardinality, Cardinality
      <4>2. IsFiniteSet(found)
        BY <1>0, FS_Subset DEF R!DuesOf
      <4> QED
        BY <2>5, <4>1, <4>2, FS_Singleton
    <3> DEFINE n == R!Repaid(d, q)  D == (dues \ {d}) \cup {n}
    <3>2. d \in dues /\ d \in R!Due /\ d.month = q.month
      BY <1>0, <3>1 DEF R!DuesOf
    <3>3. n \in R!Due /\ n.id = d.id /\ n.month = q.month /\ n.tax = q.tax /\ n.seen = q.seen
      BY <2>2, <3>2 DEF R!Repaid, R!Due
    <3>4. Computed(n)
      BY <2>2, <3>3 DEF Computed
    <3>5. dues' = D
      <4>1. {R!Repaid(g, q) : g \in found} = {n}
        BY <3>1
      <4> QED
        BY <2>1, <2>5, <3>1, <4>1
    <3> HIDE DEF n
    <3>6. D \in SUBSET R!Due /\ IsFiniteSet(D)
      BY <1>0, <3>3, FS_Subset, FS_AddElement
    <3>7. \A f, g \in D : f.id = g.id => f = g
      BY <1>0, <3>2, <3>3
    <3>8. \A f \in D : f.id <= lastDue' /\ Computed(f)
      BY <1>0, <2>1, <3>2, <3>3, <3>4
    <3>9. R!Done(c)
      BY <2>1, <2>5 DEF R!Done
    <3> HIDE DEF D
    <3> QED
      BY <1>0, <2>1, <3>5, <3>6, <3>7, <3>8, <3>9, DuesStep
  <2> QED
    BY <2>1, <2>3, <2>4, <2>5
<1>2. ASSUME R!TaxInsert(c) PROVE RowsKept'
  <2> DEFINE q == visit[c]
             n == [id |-> lastDue + 1, month |-> q.month, tax |-> q.tax, seen |-> q.seen]
             D == dues \cup {n}
  <2>1. /\ q.op = "insert" /\ R!Done(c) /\ UNCHANGED <<ledger, lastEntry, writes>>
        /\ lastDue' = lastDue + 1 /\ dues' = D
    BY <1>2 DEF R!TaxInsert
  <2>2. /\ q.month \in R!Months /\ q.tax \in Nat \ {0} /\ q.seen \in SUBSET R!Incomes /\ Computed(q)
    BY <2>1, VisitTyped DEF RowsKept, TaxesComputed
  <2>3. n \in R!Due /\ Computed(n) /\ n.id = lastDue + 1
    BY <1>0, <2>2 DEF R!Due, Computed
  <2> HIDE DEF n
  <2>4. D \in SUBSET R!Due /\ IsFiniteSet(D)
    BY <1>0, <2>3, FS_AddElement
  <2>5. \A f, g \in D : f.id = g.id => f = g
    BY <1>0, <2>3
  <2>6. \A f \in D : f.id <= lastDue' /\ Computed(f)
    BY <1>0, <2>1, <2>3
  <2> HIDE DEF D
  <2> QED
    BY <1>0, <2>1, <2>4, <2>5, <2>6, DuesStep
<1>3. ASSUME R!DeleteTax(c) PROVE RowsKept'
  <2>1. PICK d \in dues : dues' = dues \ {d}
    BY <1>3 DEF R!DeleteTax
  <2> DEFINE D == dues \ {d}
  <2>2. D \in SUBSET R!Due /\ IsFiniteSet(D)
    BY <1>0, FS_Subset
  <2>3. (\A f, g \in D : f.id = g.id => f = g) /\ \A f \in D : f.id <= lastDue /\ Computed(f)
    BY <1>0
  <2>4. dues' = D /\ UNCHANGED <<ledger, visit, lastEntry, lastDue, writes>>
    BY <1>3, <2>1 DEF R!DeleteTax
  <2> HIDE DEF D
  <2> QED
    BY <1>0, <2>2, <2>3, <2>4, DuesStep
<1> QED
  BY <1>1, <1>2, <1>3

LEMMA RowsStep == ASSUME Calendar, RowsKept, [R!Next]_R!vars PROVE RowsKept'
<1>1. ASSUME R!Next PROVE RowsKept'
  BY <1>1, LedgerActions, VisitActions, TaxMonthComputes, DuesActions DEF R!Next
<1>2. ASSUME UNCHANGED R!vars PROVE RowsKept'
  BY <1>2 DEF R!vars, RowsKept, R!TypeOK, KeysBehind, TaxesComputed
<1> QED
  BY <1>1, <1>2

LEMMA RowsInit == R!Init => RowsKept
<1> SUFFICES ASSUME R!Init PROVE RowsKept
  OBVIOUS
<1>1. ledger = {} /\ dues = {} /\ lastEntry = 0 /\ lastDue = 0 /\ writes = 0
      /\ visit = [c \in Clients |-> R!Idle]
  BY DEF R!Init
<1>2. R!Idle \in R!Request /\ R!Idle.op = "idle"
  BY DEF R!Idle, R!Request
<1>3. R!TypeOK
  BY <1>1, <1>2 DEF R!TypeOK
<1>4. KeysBehind /\ TaxesComputed
  BY <1>1, <1>2 DEF KeysBehind, TaxesComputed
<1> QED
  BY <1>1, <1>3, <1>4, FS_EmptySet DEF RowsKept

LEMMA RowsAlwaysKept == ASSUME Calendar PROVE R!Spec => []RowsKept
<1>1. RowsKept /\ [R!Next]_R!vars => RowsKept'
  BY RowsStep
<1> QED
  BY <1>1, RowsInit, PTL DEF R!Spec

(***************************************************************************)
(* The tax of a year.                                                      *)
(***************************************************************************)

\* Within some thousandths of so many whole zloty.
Within(x, y, off) == y - off <= 1000 * x /\ 1000 * x <= y + off

\* Numbers that are each off by half a thousand at most.
LEMMA SumsNear ==
    ASSUME NEW D, IsFiniteSet(D), NEW tax, NEW g,
           \A d \in D : tax[d] \in Int /\ g[d] \in Int /\ Within(tax[d], g[d], 500)
    PROVE  /\ SumFunctionOnSet(tax, D) \in Int /\ SumFunctionOnSet(g, D) \in Int
           /\ Cardinality(D) \in Nat
           /\ Within(SumFunctionOnSet(tax, D), SumFunctionOnSet(g, D), 500 * Cardinality(D))
<1> DEFINE n == Cardinality(D)  X == SumFunctionOnSet(tax, D)  G == SumFunctionOnSet(g, D)
           k == [d \in D |-> 1000 * tax[d]]
           down == [d \in D |-> -500]  up == [d \in D |-> 500]
           low == [d \in D |-> g[d] + down[d]]  high == [d \in D |-> g[d] + up[d]]
<1>1. n \in Nat /\ X \in Int /\ G \in Int
  BY FS_CardinalityType, SumTyped
<1>2. SumFunctionOnSet(k, D) = 1000 * X
  <2>1. 1000 \in Int /\ \A d \in D : tax[d] \in Int
    OBVIOUS
  <2> DEFINE c == 1000
  <2>2. c \in Int
    OBVIOUS
  <2> HIDE DEF c
  <2>3. SumFunctionOnSet([d \in D |-> c * tax[d]], D) = c * SumFunctionOnSet(tax, D)
    BY <2>1, <2>2, SumScales
  <2> QED
    BY <2>3 DEF c
<1>3. SumFunctionOnSet(down, D) = (-500) * n /\ SumFunctionOnSet(up, D) = 500 * n
  <2> DEFINE a == -500  b == 500
  <2>1. \A d \in D : down[d] = a /\ up[d] = b
    OBVIOUS
  <2>2. a \in Int /\ b \in Int
    OBVIOUS
  <2> HIDE DEF down, up, a, b
  <2>3. SumFunctionOnSet(down, D) = a * Cardinality(D) /\ SumFunctionOnSet(up, D) = b * Cardinality(D)
    BY <2>1, <2>2, SumOfConstant
  <2> QED
    BY <2>3 DEF a, b
<1>4. SumFunctionOnSet(low, D) = G + SumFunctionOnSet(down, D)
  <2>1. \A d \in D : g[d] \in Int /\ down[d] \in Int
    OBVIOUS
  <2> HIDE DEF down
  <2> QED
    BY <2>1, SumOfBoth
<1>5. SumFunctionOnSet(high, D) = G + SumFunctionOnSet(up, D)
  <2>1. \A d \in D : g[d] \in Int /\ up[d] \in Int
    OBVIOUS
  <2> HIDE DEF up
  <2> QED
    BY <2>1, SumOfBoth
<1>6. \A d \in D : /\ low[d] \in Int /\ k[d] \in Int /\ high[d] \in Int
                   /\ low[d] <= k[d] /\ k[d] <= high[d]
  BY DEF Within
<1> HIDE DEF k, low, high, down, up
<1>7. SumFunctionOnSet(low, D) <= SumFunctionOnSet(k, D) /\ SumFunctionOnSet(k, D) <= SumFunctionOnSet(high, D)
  BY <1>6, SumLessOrEqual
<1> HIDE DEF n, X, G
<1>8. G - 500 * n <= 1000 * X /\ 1000 * X <= G + 500 * n
  BY <1>1, <1>2, <1>3, <1>4, <1>5, <1>7
<1> QED
  BY <1>1, <1>8 DEF n, X, G, Within

LEMMA PaidYearNear ==
    ASSUME Calendar, RowsKept, NEW y, NEW v \in UNION {d.seen : d \in dues},
           \A m \in R!MonthsOf(y) : v[m] >= 0, NEW D \in R!PaidYear(y, v)
    PROVE  2 * R!Magnitude(1000 * R!SumFunctionOnSet([d \in D |-> d.tax], D)
                           - R!YearTax(R!SumFunctionOnSet(v, R!MonthsOf(y))))
              <= 1000 * R!Cardinality(D)
<1> DEFINE M == R!MonthsOf(y)  t == [m \in M |-> Thousandths(Before(v, m), v[m])]
           I == {d.month : d \in D}  month == [d \in D |-> d.month]
           tax == [d \in D |-> d.tax]  g == [d \in D |-> t[d.month]]
<1>1. dues \subseteq R!Due /\ IsFiniteSet(dues) /\ \A d \in dues : Computed(d)
  BY DEF RowsKept, TaxesComputed, R!TypeOK
<1>2. v \in R!Incomes
  BY <1>1 DEF R!Due
<1>3. M \subseteq R!Months /\ IsFiniteSet(M)
  BY MonthsFinite
<1>4. \A m \in M : v[m] \in Nat
  BY <1>2, <1>3 DEF R!Incomes
<1>5. /\ \A d \in D : d \in dues /\ d \in R!Due /\ d.month \in M /\ d.seen = {v}
      /\ \A d, f \in D : d.month = f.month => d = f
      /\ \A m \in M : v[m] # 0 => \E d \in D : d.month = m
      /\ IsFiniteSet(D)
  BY <1>1, FS_Subset DEF R!PaidYear
<1>6. \A m \in M : Before(v, m) \in Nat
  <2> SUFFICES ASSUME NEW m \in M PROVE Before(v, m) \in Nat
    OBVIOUS
  <2>1. IsFiniteSet(Earlier(m)) /\ Earlier(m) \subseteq M
    BY MonthsFinite DEF Earlier, R!MonthsOf
  <2> HIDE DEF M
  <2>2. \A q \in Earlier(m) : v[q] \in Nat
    BY <1>4, <2>1
  <2> QED
    BY <2>1, <2>2, SumNatural DEF Before
<1>7. \A m \in M : t[m] = Thousandths(Before(v, m), v[m]) /\ t[m] \in Int
  <2> SUFFICES ASSUME NEW m \in M PROVE Thousandths(Before(v, m), v[m]) \in Int
    OBVIOUS
  <2> DEFINE b == Before(v, m)  w == v[m]
  <2>1. b \in Int /\ w \in Int
    BY <1>4, <1>6
  <2> HIDE DEF b, w
  <2>2. Thousandths(b, w) \in Int
    BY <2>1, ThousandthsTyped
  <2> QED
    BY <2>2 DEF b, w
<1>8. \A d \in D : /\ tax[d] \in Int /\ g[d] \in Int /\ g[d] = t[month[d]]
                   /\ g[d] - 500 <= 1000 * tax[d] /\ 1000 * tax[d] <= g[d] + 500
  <2> SUFFICES ASSUME NEW d \in D
               PROVE  /\ d.tax \in Int /\ t[d.month] \in Int
                      /\ t[d.month] - 500 <= 1000 * d.tax /\ 1000 * d.tax <= t[d.month] + 500
    OBVIOUS
  <2> DEFINE m == d.month  b == Before(v, m)  w == v[m]  x == t[m]
  <2>1. m \in M /\ d.tax = R!Tax(b, w)
    BY <1>1, <1>2, <1>5 DEF Computed
  <2>2. b \in Int /\ w \in Int /\ x = Thousandths(b, w) /\ x \in Int
    BY <1>4, <1>6, <1>7, <2>1
  <2> HIDE DEF b, w, x
  <2>3. d.tax = R!ToWholePln(x)
    BY <2>1, <2>2, ThousandthsTyped
  <2> QED
    BY <2>2, <2>3, WholePln DEF x
<1>9. R!YearTax(SumFunctionOnSet(v, M)) = SumFunctionOnSet(t, M)
  <2> HIDE DEF t
  <2> QED
    BY <1>4, <1>7, YearIsMonths
<1>10. \A m \in M \ I : t[m] = 0
  <2> SUFFICES ASSUME NEW m \in M, m \notin I PROVE t[m] = 0
    OBVIOUS
  <2>1. v[m] = 0
    BY <1>5
  <2>2. Before(v, m) \in Nat
    BY <1>6
  <2> QED
    BY <1>7, <2>1, <2>2, NoIncomeNoTax
<1>11. I \subseteq M /\ (\A i : i \in I <=> \E d \in D : i = month[d])
       /\ \A d, f \in D : month[d] = month[f] => d = f
  BY <1>5
<1>12. \A d \in D : month[d] \in M
  BY <1>5
<1> HIDE DEF M, t, I, month, tax, g
<1>13. IsFiniteSet(I) /\ SumFunctionOnSet(t, I) = SumFunctionOnSet(g, D)
  <2>1. \A d \in D : t[month[d]] \in Int
    BY <1>7, <1>12
  <2>2. \A d \in D : g[d] = t[month[d]]
    BY <1>8
  <2>3. \A d, f \in D : month[d] = month[f] => d = f
    BY <1>11
  <2>4. \A i : i \in I <=> \E d \in D : i = month[d]
    BY <1>11
  <2>5. IsFiniteSet(D)
    BY <1>5
  <2> QED
    BY <2>1, <2>2, <2>3, <2>4, <2>5, SumThrough
<1>14. SumFunctionOnSet(t, M) = SumFunctionOnSet(t, I)
  <2> DEFINE N == M \ I
  <2>1. IsFiniteSet(N) /\ N \cap I = {} /\ M = I \cup N
    BY <1>3, <1>11, FS_Subset
  <2>2. \A m \in N : t[m] = 0
    BY <1>10
  <2>3. SumFunctionOnSet(t, N) = 0
    <3> HIDE DEF N
    <3>1. SumFunctionOnSet(t, N) = 0 * Cardinality(N) /\ Cardinality(N) \in Nat
      BY <2>1, <2>2, SumOfConstant, FS_CardinalityType
    <3> QED
      BY <3>1
  <2>4. SumFunctionOnSet(t, I \cup N) = SumFunctionOnSet(t, I) + SumFunctionOnSet(t, N)
    <3>1. I \cap N = {} /\ \A m \in I \cup N : t[m] \in Int
      BY <1>7, <2>1
    <3> HIDE DEF N
    <3> QED
      BY <1>13, <2>1, <3>1, SumOfUnion
  <2>5. SumFunctionOnSet(t, I) \in Int
    BY <1>7, <1>11, <1>13, SumTyped
  <2> QED
    BY <2>1, <2>3, <2>4, <2>5
<1>s. /\ SumFunctionOnSet(tax, D) \in Int /\ SumFunctionOnSet(g, D) \in Int
      /\ Cardinality(D) \in Nat
      /\ Within(SumFunctionOnSet(tax, D), SumFunctionOnSet(g, D), 500 * Cardinality(D))
  <2>1. \A d \in D : tax[d] \in Int /\ g[d] \in Int /\ Within(tax[d], g[d], 500)
    BY <1>8 DEF Within
  <2>2. IsFiniteSet(D)
    BY <1>5
  <2> QED
    BY <2>1, <2>2, SumsNear
<1> DEFINE X == SumFunctionOnSet(tax, D)  G == SumFunctionOnSet(g, D)  n == Cardinality(D)
<1>15. X \in Int /\ G \in Int /\ n \in Nat /\ G - 500 * n <= 1000 * X /\ 1000 * X <= G + 500 * n
  BY <1>s DEF Within
<1>16. /\ R!SumFunctionOnSet([d \in D |-> d.tax], D) = X
       /\ R!YearTax(R!SumFunctionOnSet(v, R!MonthsOf(y))) = G
       /\ R!Cardinality(D) = n
  <2>1. R!Cardinality(D) = Cardinality(D)
    BY DEF R!Cardinality, Cardinality
  <2> QED
    BY <1>9, <1>13, <1>14, <2>1, RentSum DEF M, tax
<1> HIDE DEF X, G, n
<1>17. 2 * R!Magnitude(1000 * X - G) <= 1000 * n
  BY <1>15 DEF R!Magnitude
<1> QED
  BY <1>16, <1>17

LEMMA YearCollected == ASSUME Calendar, RowsKept PROVE R!YearTaxCollected
<1> USE DEF R!YearTaxCollected
<1> TAKE y \in {R!YearOf(m) : m \in R!Months}
<1> TAKE v \in UNION {d.seen : d \in dues}
<1> HAVE \A m \in R!MonthsOf(y) : v[m] >= 0
<1> TAKE D \in R!PaidYear(y, v)
<1> QED
  BY PaidYearNear

\* The forms and views keep the rows of the ledger and of the payments well typed and
\* apart by their keys (models.py), and the payments recorded for the months of a year,
\* in whatever order, repeated or withdrawn, add up to the brackets on the year
\* (monthly_tax), half a zloty off for each at most: for any calendar, rates and threshold.
THEOREM TaxesAddUp == R!Spec => []RentInv
<1>1. Calendar
  BY RentAssumption DEF Calendar
<1>2. RowsKept => RentInv
  BY <1>1, YearCollected DEF RowsKept, RentInv, R!RentInv
<1> QED
  BY <1>1, <1>2, RowsAlwaysKept, PTL

(***************************************************************************)
(* FundPool.                                                               *)
(***************************************************************************)

USE FundAssumption, NoFundAssumption

(***************************************************************************)
(* Rates.                                                                  *)
(***************************************************************************)

\* Two days with the same rates dated on or before them have the same rate.
LEMMA RateHolds ==
    ASSUME NEW terms \in Terms, NEW P \in SUBSET Rate, NEW Q \in SUBSET Rate,
           NEW a \in Int, NEW b \in Int,
           {r \in P : r.date <= a} = {r \in Q : r.date <= b}
    PROVE  RateIn([terms |-> terms, rates |-> P], a) = RateIn([terms |-> terms, rates |-> Q], b)
<1>1. \A r : r \in P /\ r.date <= a <=> r \in Q /\ r.date <= b
  OBVIOUS
<1>2. Latest(P, a) = Latest(Q, b)
  BY <1>1 DEF Latest
<1> QED
  BY <1>2 DEF RateIn

LEMMA RatesTyped ==
    ASSUME NEW book \in Book, NEW day
    PROVE  RateIn(book, day) \subseteq Amounts
BY DEF RateIn, Latest, Book, Terms, Rate

\* With at most one rate a day there is one rate for a day.
LEMMA OneRate ==
    ASSUME NEW book \in Book, NEW day \in Int,
           \A r, s \in book.rates : r.date = s.date => r = s,
           NEW v \in RateIn(book, day), NEW w \in RateIn(book, day)
    PROVE  v = w
<1>1. CASE Latest(book.rates, day) = {}
  BY <1>1 DEF RateIn
<1>2. CASE Latest(book.rates, day) # {}
  <2>1. PICK r \in Latest(book.rates, day) : v = r.amount
    BY <1>2 DEF RateIn
  <2>2. PICK s \in Latest(book.rates, day) : w = s.amount
    BY <1>2 DEF RateIn
  <2>3. r \in book.rates /\ s \in book.rates /\ r.date \in Int /\ s.date \in Int
    BY DEF Latest, Book, Rate, Days
  <2>4. r.date = s.date
    BY <2>3 DEF Latest
  <2> QED
    BY <2>1, <2>2, <2>3, <2>4
<1> QED
  BY <1>1, <1>2

(***************************************************************************)
(* Types.                                                                  *)
(***************************************************************************)

LEMMA FormTyped == FormTerms \subseteq Terms
BY DEF FormTerms, Terms, Days

LEMMA TheBookTyped == TypeOK /\ fund # None => TheBook \in Book
BY DEF TypeOK, TheBook, Book, Fund

LEMMA RequestTyped ==
    ASSUME TypeOK, NEW c \in Clients, request[c] # Idle
    PROVE  request[c].row \in Fund
BY DEF TypeOK, Request, Idle

\* A form that is saved leaves typed requests.
LEMMA SaveTyped ==
    ASSUME TypeOK, NEW c \in Clients, NEW row \in Fund, FormSave(c, row)
    PROVE  TypeOK'
<1>1. request' \in [Clients -> Request]
  <2> SUFFICES ASSUME NEW d \in Clients, d # c, request[d] # Idle
               PROVE  [request[d] EXCEPT !.overtaken = TRUE] \in Request
    BY DEF FormSave, Request, TypeOK
  <2>1. request[d] \in Request
    BY DEF TypeOK
  <2> QED
    BY <2>1 DEF Request, Idle
<1> QED
  BY <1>1 DEF TypeOK, FormSave, NewRow

LEMMA LineTyped ==
    ASSUME TypeOK, fund # None, NEW t \in Tenant, NEW day \in Int, NEW value \in RateFor(day)
    PROVE  LineFor(t, value, day) \in Line
<1>1. TheBook \in Book
  BY TheBookTyped
<1>2. value \in Amounts
  BY <1>1, RatesTyped DEF RateFor
<1> QED
  BY <1>1, <1>2 DEF LineFor, Line, Tenant

LEMMA UsualTyped == \A t \in Tenant : Usual(t) \in Int
<1> SUFFICES ASSUME NEW t \in Tenant PROVE Usual(t) \in Int
  OBVIOUS
<1>1. Midpoint(t) \in Int
  BY DEF Midpoint, Tenant, Days
<1>2. MonthOf(Midpoint(t)) \in Int
  <2> DEFINE d == Midpoint(t) - 1
  <2>1. d \in Int /\ MonthLength \in Int /\ MonthLength > 0
    BY <1>1
  <2> HIDE DEF d
  <2>2. d \div MonthLength \in Int
    BY <2>1
  <2> QED
    BY <2>2 DEF MonthOf, d
<1> QED
  BY <1>2 DEF Usual, First

LEMMA TypeStep == TypeOK /\ [Next]_vars => TypeOK'
<1> SUFFICES ASSUME TypeOK, [Next]_vars PROVE TypeOK'
  OBVIOUS
<1> USE DEF TypeOK, NewRow
<1>1. CASE UNCHANGED vars
  BY <1>1 DEF vars
<1>2. ASSUME NEW c \in Clients, AddFund(c) PROVE TypeOK'
  BY <1>2, FormTyped DEF AddFund, Fund
<1>3. ASSUME NEW c \in Clients, NEW form \in {"terms", "name"}, FormRead(c, form) PROVE TypeOK'
  BY <1>3 DEF FormRead, Request
<1>4. ASSUME NEW c \in Clients, EditTerms(c) PROVE TypeOK'
  <2>1. request[c].row \in Fund
    BY <1>4, RequestTyped DEF EditTerms, Idle
  <2>2. PICK terms \in FormTerms : FormSave(c, [request[c].row EXCEPT !.terms = terms])
    BY <1>4 DEF EditTerms
  <2>3. [request[c].row EXCEPT !.terms = terms] \in Fund
    BY <2>1, FormTyped DEF Fund
  <2> QED
    BY <2>2, <2>3, SaveTyped
<1>5. ASSUME NEW c \in Clients, Rename(c) PROVE TypeOK'
  <2>1. request[c].row \in Fund
    BY <1>5, RequestTyped DEF Rename, Idle
  <2>2. PICK name \in Names : FormSave(c, Renamed(request[c].row, name))
    BY <1>5 DEF Rename
  <2>3. Renamed(request[c].row, name) \in Fund
    BY <2>1 DEF Fund, Renamed
  <2> QED
    BY <2>2, <2>3, SaveTyped
<1>6. ASSUME NEW c \in Clients, DeleteFund(c) PROVE TypeOK'
  <2>1. request' \in [Clients -> Request]
    <3> SUFFICES ASSUME NEW d \in Clients, request[d] # Idle
                 PROVE  [request[d] EXCEPT !.overtaken = TRUE] \in Request
      BY <1>6 DEF DeleteFund, Request
    <3> QED
      BY DEF Request, Idle
  <2> QED
    BY <1>6, <2>1 DEF DeleteFund
<1>7. ASSUME NEW c \in Clients, AddRate(c) PROVE TypeOK'
  BY <1>7 DEF AddRate, Rate
<1>8. ASSUME NEW c \in Clients, DeleteRate(c) PROVE TypeOK'
  BY <1>8 DEF DeleteRate
<1>9. ASSUME NEW c \in Clients, AddBooking(c) PROVE TypeOK'
  <2>1. PICK day \in BookingDays, amount \in Amounts, sign \in {-1, 1} :
          bookings' = bookings \cup {[id |-> last + 1, on |-> day, amount |-> sign * amount]}
    BY <1>9 DEF AddBooking
  <2>2. amount \in Int
    OBVIOUS
  <2>3. sign * amount \in Amounts \cup {-a : a \in Amounts}
    BY <2>2, -1 * amount = -amount, 1 * amount = amount
  <2>4. bookings' \subseteq Booking
    BY <2>1, <2>3 DEF Booking
  <2> QED
    BY <1>9, <2>4 DEF AddBooking
<1>10. ASSUME NEW c \in Clients, DeleteBooking(c) PROVE TypeOK'
  BY <1>10 DEF DeleteBooking
<1>11. ASSUME NEW c \in Clients, Settle(c) PROVE TypeOK'
  <2>1. PICK p \in Periods :
          LET t == [id |-> last + 1, from |-> p[1], to |-> p[2]]
          IN /\ tenants' = tenants \cup {t}
             /\ IF Open(t)
                THEN \E value \in Charged(t.to) : lines' = lines \cup {LineFor(t, value, t.to)}
                ELSE UNCHANGED lines
    BY <1>11 DEF Settle
  <2> DEFINE t == [id |-> last + 1, from |-> p[1], to |-> p[2]]
  <2>2. t \in Tenant
    BY DEF Tenant
  <2>3. t.to \in Int
    BY <2>2 DEF Tenant, Days
  <2>4. lines' \subseteq Line
    BY <2>1, <2>2, <2>3, LineTyped DEF Open, Charged
  <2> QED
    BY <1>11, <2>1, <2>2, <2>4 DEF Settle
<1>12. ASSUME NEW c \in Clients, DeleteSettlement(c) PROVE TypeOK'
  BY <1>12 DEF DeleteSettlement, Entry
<1>13. ASSUME NEW c \in Clients, Confirm(c) PROVE TypeOK'
  BY <1>13 DEF Confirm, NewEntry, Entry, Tenant
<1>14. ASSUME NEW c \in Clients, RecordCreate(c) PROVE TypeOK'
  BY <1>14 DEF RecordCreate, NewEntry, Entry
<1>15. ASSUME NEW c \in Clients, RecordDelete(c) PROVE TypeOK'
  BY <1>15 DEF RecordDelete
<1>16. CASE Backfill
  <2>1. lines' \subseteq Line
    <3>1. PICK value \in [Lacking -> Amounts] :
            /\ \A t \in Lacking : value[t] \in RateFor(Usual(t))
            /\ lines' = lines \cup {LineFor(t, value[t], Usual(t)) : t \in Lacking}
      BY <1>16 DEF Backfill
    <3>2. Lacking \subseteq Tenant
      BY DEF Lacking
    <3>3. \A t \in Lacking : LineFor(t, value[t], Usual(t)) \in Line
      BY <1>16, <3>1, <3>2, LineTyped, UsualTyped DEF Backfill
    <3> QED
      BY <3>1, <3>3
  <2> QED
    BY <1>16, <2>1 DEF Backfill
<1> QED
  BY <1>1, <1>2, <1>3, <1>4, <1>5, <1>6, <1>7, <1>8, <1>9, <1>10, <1>11, <1>12, <1>13,
     <1>14, <1>15, <1>16 DEF Next

\* Every row and request keeps its type; the rates of funds.py are amounts.
THEOREM TypeCorrect == Spec => []TypeOK
<1>1. Init => TypeOK
  BY DEF Init, TypeOK, Request
<1> QED
  BY <1>1, TypeStep, PTL DEF Spec

(***************************************************************************)
(* Charges and collections.                                                *)
(***************************************************************************)

\* A line was priced at a rate of its day by the book it was priced from.
LinesPriced == \A l \in lines : l.value \in RateIn(l.book, l.day)

LEMMA PricedStep == TypeOK /\ LinesPriced /\ [Next]_vars => LinesPriced'
<1> SUFFICES ASSUME TypeOK, LinesPriced, [Next]_vars PROVE LinesPriced'
  OBVIOUS
<1>1. CASE lines' \subseteq lines
  BY <1>1 DEF LinesPriced
<1>2. ASSUME NEW c \in Clients, Settle(c) PROVE LinesPriced'
  <2>1. CASE UNCHANGED lines
    BY <1>1, <2>1
  <2>2. CASE \E t, value, day : /\ value \in RateIn(TheBook, day)
                                /\ lines' = lines \cup {LineFor(t, value, day)}
    BY <2>2 DEF LinesPriced, LineFor
  <2> QED
    BY <1>2, <2>1, <2>2 DEF Settle, Charged, RateFor
<1>3. CASE Backfill
  <2>1. PICK value \in [Lacking -> Amounts] :
          /\ \A t \in Lacking : value[t] \in RateFor(Usual(t))
          /\ lines' = lines \cup {LineFor(t, value[t], Usual(t)) : t \in Lacking}
    BY <1>3 DEF Backfill
  <2> QED
    BY <2>1 DEF LinesPriced, LineFor, RateFor
<1>4. CASE UNCHANGED vars
  BY <1>1, <1>4 DEF vars
<1>5. ASSUME NEW c \in Clients, NEW form, FormRead(c, form) PROVE LinesPriced'
  BY <1>1, <1>5 DEF FormRead
<1>6. ASSUME NEW c \in Clients, DeleteSettlement(c) PROVE LinesPriced'
  BY <1>1, <1>6 DEF DeleteSettlement
<1> QED
  BY <1>1, <1>2, <1>3, <1>4, <1>5, <1>6
  DEF Next, AddFund, EditTerms, Rename, FormSave, DeleteFund, AddRate, DeleteRate, AddBooking,
      DeleteBooking, Confirm, RecordCreate, NewEntry, RecordDelete

LEMMA PricedMatches == TypeOK /\ LinesPriced => ChargedIsCollected
<1> SUFFICES ASSUME TypeOK, LinesPriced, fund # None,
                    NEW e \in entries, NEW l \in lines,
                    l.book = TheBook,
                    InWindow(fund.terms, e.billing, e.billing),
                    SameRate(l.day, e.billing)
             PROVE  Collected(e, e.billing) = {l.value}
  BY DEF ChargedIsCollected
<1>1. TheBook \in Book
  BY TheBookTyped
<1>2. l.day \in Int /\ e.billing \in Int
  BY DEF TypeOK, Line, Entry, BillingDays, First, MonthOf
<1>3. \A r \in rates : r.date \in Int
  BY DEF TypeOK, Rate, Days
<1>4. {r \in rates : r.date <= l.day} = {r \in rates : r.date <= e.billing}
  BY <1>2, <1>3 DEF SameRate
<1>5. RateIn(TheBook, l.day) = RateIn(TheBook, e.billing)
  <2>1. fund.terms \in Terms /\ rates \in SUBSET Rate
    BY DEF TypeOK, Fund
  <2> QED
    BY <1>2, <1>4, <2>1, RateHolds DEF TheBook
<1>6. l.value \in RateIn(TheBook, e.billing)
  BY <1>5 DEF LinesPriced
<1>7. \A v \in RateIn(TheBook, e.billing) : v = l.value
  <2>1. \A r, s \in TheBook.rates : r.date = s.date => r = s
    BY DEF SameRate, TheBook
  <2> QED
    BY <1>1, <1>2, <1>6, <2>1, OneRate
<1>8. Collected(e, e.billing) = RateIn(TheBook, e.billing)
  BY DEF Collected, RateFor
<1> QED
  BY <1>6, <1>7, <1>8

\* Whatever the settlements, the confirmations and the edits of the book: with the
\* book unchanged and no rate in between, the pool collects what the bill charged.
THEOREM PoolMatchesCharges == Spec => []ChargedIsCollected
<1>1. Init => LinesPriced
  BY DEF Init, LinesPriced
<1> QED
  BY <1>1, TypeCorrect, PricedStep, PricedMatches, PTL DEF Spec

(***************************************************************************)
(* History.                                                                *)
(***************************************************************************)

\* Rates and bookings that agree up to a day give the same balance on it.
LEMMA SameBalance ==
    ASSUME TypeOK, TypeOK', fund # None, fund' = fund, entries' = entries, NEW day \in Days,
           {r \in rates : r.date <= day} = {r \in rates' : r.date <= day},
           {b \in bookings : b.on <= day} = {b \in bookings' : b.on <= day}
    PROVE  Balance(day)' = Balance(day)
<1>1. \A e \in entries : Collected(e, day)' = Collected(e, day)
  <2> SUFFICES ASSUME NEW e \in entries, InWindow(fund.terms, e.billing, day)
               PROVE  RateFor(e.billing)' = RateFor(e.billing)
    BY DEF Collected
  <2>1. fund.terms \in Terms /\ rates \in SUBSET Rate /\ rates' \in SUBSET Rate
    BY DEF TypeOK, Fund
  <2>2. e.billing \in Int /\ e.billing <= day /\ day \in Int
    BY DEF InWindow, TypeOK, Entry, BillingDays, First, MonthOf, Days
  <2>3. \A r \in rates \cup rates' : r.date \in Int
    BY <2>1 DEF Rate, Days
  <2>4. {r \in rates : r.date <= e.billing} = {r \in rates' : r.date <= e.billing}
    BY <2>2, <2>3
  <2> QED
    BY <2>1, <2>2, <2>4, RateHolds DEF RateFor, TheBook
<1>2. Contributions(day)' = Contributions(day)
  BY <1>1 DEF Contributions
<1>3. Booked(day)' = Booked(day)
  BY DEF Booked
<1>4. SumOf(Booked(day))' = SumOf(Booked(day))
  BY <1>3
<1> QED
  BY <1>2, <1>4 DEF Balance

\* No request rewrites the history of the pool through a dated row.
THEOREM PoolHistory == Spec => HistoryStands
<1>1. ASSUME TypeOK, TypeOK', [Next]_vars, fund # None, fund' = fund,
             NEW touched, touched # {},
             touched = {r.date : r \in (rates \ rates') \cup (rates' \ rates)} \cup
                       {b.on : b \in (bookings \ bookings') \cup (bookings' \ bookings)},
             NEW day \in Days, \A d \in touched : day < d
      PROVE  Balance(day)' = Balance(day)
  <2>1. entries' = entries
    <3>1. rates' # rates \/ bookings' # bookings
      BY <1>1
    <3> QED
      BY <1>1, <3>1 DEF Next, vars, AddFund, FormRead, EditTerms, Rename, FormSave, DeleteFund,
         AddRate, DeleteRate, AddBooking, DeleteBooking, Settle, DeleteSettlement, Confirm,
         RecordCreate, NewEntry, RecordDelete, Backfill
  <2>2. \A r \in rates \cup rates' : r.date \in Int
    BY <1>1 DEF TypeOK, Rate, Days
  <2>3. \A b \in bookings \cup bookings' : b.on \in Int
    BY <1>1 DEF TypeOK, Booking, Days
  <2>4. day \in Int
    BY DEF Days
  <2>5. {r \in rates : r.date <= day} = {r \in rates' : r.date <= day}
    <3> SUFFICES ASSUME NEW r \in rates \cup rates', r.date <= day
                 PROVE  r \in rates <=> r \in rates'
      OBVIOUS
    <3>1. ~(day < r.date)
      BY <2>2, <2>4
    <3> QED
      BY <1>1, <3>1
  <2>6. {b \in bookings : b.on <= day} = {b \in bookings' : b.on <= day}
    <3> SUFFICES ASSUME NEW b \in bookings \cup bookings', b.on <= day
                 PROVE  b \in bookings <=> b \in bookings'
      OBVIOUS
    <3>1. ~(day < b.on)
      BY <2>3, <2>4
    <3> QED
      BY <1>1, <3>1
  <2> QED
    BY <1>1, <2>1, <2>5, <2>6, SameBalance
<1>2. TypeOK /\ TypeOK' /\ [Next]_vars =>
        [fund # None /\ fund' = fund =>
         LET touched == {r.date : r \in (rates \ rates') \cup (rates' \ rates)} \cup
                        {b.on : b \in (bookings \ bookings') \cup (bookings' \ bookings)}
         IN  touched # {} =>
               \A day \in Days : (\A d \in touched : day < d) => Balance(day)' = Balance(day)]_vars
  BY <1>1
<1> QED
  BY <1>2, TypeCorrect, PTL DEF Spec, HistoryStands

(***************************************************************************)
(* Two forms over one row.                                                 *)
(***************************************************************************)

\* A form that nothing overtook holds the row as it is.
CopiesCurrent == \A c \in Clients :
    request[c] # Idle /\ ~request[c].overtaken => request[c].row = fund

LEMMA SaveCurrent ==
    ASSUME TypeOK, CopiesCurrent, NEW c \in Clients, NEW row, FormSave(c, row)
    PROVE  CopiesCurrent'
<1> SUFFICES ASSUME NEW d \in Clients, request'[d] # Idle, ~request'[d].overtaken
             PROVE  FALSE
  BY DEF CopiesCurrent
<1>1. request'[d] = [request[d] EXCEPT !.overtaken = TRUE] /\ request[d] # Idle
  BY DEF FormSave
<1>2. request[d] \in [op : {"terms", "name"}, row : Fund, overtaken : BOOLEAN]
  BY <1>1 DEF TypeOK, Request
<1> QED
  BY <1>1, <1>2

LEMMA CurrentStep == TypeOK /\ CopiesCurrent /\ [Next]_vars => CopiesCurrent'
<1> SUFFICES ASSUME TypeOK, CopiesCurrent, [Next]_vars PROVE CopiesCurrent'
  OBVIOUS
<1>1. CASE UNCHANGED <<fund, request>>
  BY <1>1 DEF CopiesCurrent
<1>2. ASSUME NEW c \in Clients, AddFund(c) PROVE CopiesCurrent'
  BY <1>2 DEF AddFund, CopiesCurrent
<1>3. ASSUME NEW c \in Clients, NEW form \in {"terms", "name"}, FormRead(c, form)
      PROVE  CopiesCurrent'
  BY <1>3 DEF FormRead, CopiesCurrent, TypeOK
<1>4. ASSUME NEW c \in Clients, EditTerms(c) \/ Rename(c) PROVE CopiesCurrent'
  BY <1>4, SaveCurrent DEF EditTerms, Rename
<1>5. ASSUME NEW c \in Clients, DeleteFund(c) PROVE CopiesCurrent'
  <2> SUFFICES ASSUME NEW d \in Clients, request'[d] # Idle, ~request'[d].overtaken
               PROVE  FALSE
    BY DEF CopiesCurrent
  <2>1. request'[d] = [request[d] EXCEPT !.overtaken = TRUE] /\ request[d] # Idle
    BY <1>5 DEF DeleteFund
  <2>2. request[d] \in [op : {"terms", "name"}, row : Fund, overtaken : BOOLEAN]
    BY <2>1 DEF TypeOK, Request
  <2> QED
    BY <2>1, <2>2
<1> QED
  BY <1>1, <1>2, <1>3, <1>4, <1>5
  DEF Next, vars, AddRate, DeleteRate, AddBooking, DeleteBooking, Settle, DeleteSettlement,
      Confirm, RecordCreate, NewEntry, RecordDelete, Backfill

LEMMA FormStep ==
    ASSUME TypeOK, CopiesCurrent, [Next]_vars,
           NEW c \in Clients, request[c] # Idle, request'[c] = Idle, ~request[c].overtaken
    PROVE  IF request[c].op = "name" THEN fund'.terms = fund.terms
                                     ELSE fund'.name = fund.name
<1>1. request[c] \in [op : {"terms", "name"}, row : Fund, overtaken : BOOLEAN]
  BY DEF TypeOK, Request
<1>2. request[c].row = fund /\ fund \in Fund
  BY <1>1 DEF CopiesCurrent
<1>3. request' # request
  OBVIOUS
<1>4. \A d \in Clients \ {c} : \A row : ~FormSave(d, row)
  BY <1>1 DEF FormSave, Idle
<1>5. \A d \in Clients \ {c} : ~EditTerms(d) /\ ~Rename(d)
  BY <1>4 DEF EditTerms, Rename
<1>6. \A d \in Clients : ~DeleteFund(d)
  BY <1>1 DEF DeleteFund, Idle
<1>7. \A d \in Clients, form \in {"terms", "name"} : ~FormRead(d, form)
  BY <1>1 DEF FormRead, Idle, TypeOK
<1>8. EditTerms(c) \/ Rename(c)
  BY <1>3, <1>5, <1>6, <1>7
  DEF Next, vars, AddFund, AddRate, DeleteRate, AddBooking, DeleteBooking, Settle,
      DeleteSettlement, Confirm, RecordCreate, NewEntry, RecordDelete, Backfill
<1>9. CASE EditTerms(c)
  <2>1. PICK terms \in FormTerms : fund' = [fund EXCEPT !.terms = terms]
    BY <1>2, <1>9 DEF EditTerms, FormSave
  <2> QED
    BY <1>2, <1>9, <2>1 DEF EditTerms, Fund
<1>10. CASE Rename(c)
  <2>1. PICK name \in Names : fund' = [fund EXCEPT !.name = name]
    BY <1>2, <1>10 DEF Rename, FormSave, Renamed
  <2> QED
    BY <1>2, <1>10, <2>1 DEF Rename, Fund
<1> QED
  BY <1>8, <1>9, <1>10

\* A rename and an edit of the terms undo each other only when they overlap.
THEOREM FormsOnlyOverlap == Spec => FormsKeepApart
<1>1. Init => CopiesCurrent
  BY DEF Init, CopiesCurrent
<1>2. TypeOK /\ CopiesCurrent /\ [Next]_vars =>
        [\A c \in Clients :
           request[c] # Idle /\ request'[c] = Idle /\ ~request[c].overtaken =>
              IF request[c].op = "name" THEN fund'.terms = fund.terms
                                        ELSE fund'.name = fund.name]_vars
  BY FormStep
<1> QED
  BY <1>1, <1>2, TypeCorrect, CurrentStep, PTL DEF Spec, FormsKeepApart

(***************************************************************************)
(* Months.                                                                 *)
(***************************************************************************)

\* What division leaves.
LEMMA Divides ==
    ASSUME NEW n \in Int, NEW d \in Nat \ {0}
    PROVE  n \div d \in Int /\ d * (n \div d) <= n /\ n < d * (n \div d) + d
OBVIOUS

LEMMA Multiplied ==
    ASSUME NEW a \in Int, NEW b \in Int, NEW d \in Nat \ {0}, a < b
    PROVE  d * a + d <= d * b
<1>1. d * (b - a - 1) >= 0
  OBVIOUS
<1>2. d * (b - a - 1) = d * b - d * a - d
  OBVIOUS
<1> DEFINE x == d * a
           y == d * b
<1>3. x \in Int /\ y \in Int /\ y - x - d >= 0
  BY <1>1, <1>2
<1> HIDE DEF x, y
<1>4. x + d <= y
  BY <1>3
<1> QED
  BY <1>4 DEF x, y

\* The first of a day's month is not after it, and later days have no earlier month.
LEMMA MonthsInOrder ==
    ASSUME NEW a \in Int, NEW b \in Int
    PROVE  /\ First(MonthOf(a)) \in Int
           /\ First(MonthOf(a)) <= a
           /\ a <= b => First(MonthOf(a)) <= First(MonthOf(b))
<1> DEFINE L == MonthLength
           p == (a - 1) \div L
           q == (b - 1) \div L
<1>1. p \in Int /\ L * p <= a - 1
  BY Divides
<1>2. q \in Int /\ b - 1 < L * q + L
  BY Divides
<1> HIDE DEF p, q
<1>3. First(MonthOf(a)) = p * L + 1 /\ First(MonthOf(b)) = q * L + 1
  BY <1>1, <1>2 DEF First, MonthOf, p, q
<1>4. p * L = L * p /\ q * L = L * q
  BY <1>1, <1>2
<1>5. ASSUME a <= b PROVE L * p <= L * q
  <2>1. CASE p <= q
    <3>1. p = q \/ p < q
      BY <1>1, <1>2, <2>1
    <3>2. CASE p < q
      <4>1. L * p + L <= L * q
        BY <1>1, <1>2, <3>2, Multiplied
      <4> DEFINE x == L * p
                 y == L * q
      <4>2. x \in Int /\ y \in Int /\ x + L <= y
        BY <1>1, <1>2, <4>1
      <4> HIDE DEF x, y
      <4>3. x <= y
        BY <4>2
      <4> QED
        BY <4>3 DEF x, y
    <3> QED
      BY <1>1, <3>1, <3>2
  <2>2. CASE q < p
    <3>1. L * q + L <= L * p
      BY <1>1, <1>2, <2>2, Multiplied
    <3> DEFINE x == L * p
               y == L * q
    <3>2. x \in Int /\ y \in Int /\ y + L <= x /\ x <= a - 1 /\ b - 1 < y + L
      BY <1>1, <1>2, <3>1
    <3> HIDE DEF x, y
    <3> QED
      BY <1>5, <3>2
  <2> QED
    BY <1>1, <1>2, <2>1, <2>2
<1> DEFINE x == L * p
           y == L * q
<1>6. x \in Int /\ y \in Int /\ x <= a - 1 /\ (a <= b => x <= y)
  BY <1>1, <1>2, <1>5
<1>7. First(MonthOf(a)) = x + 1 /\ First(MonthOf(b)) = y + 1
  BY <1>3, <1>4
<1> HIDE DEF x, y
<1> QED
  BY <1>6, <1>7

\* A bill for days of one month the fund was open in is in its window, whatever the
\* length of the months and wherever in them the fund starts and ends.
THEOREM FirstMonthIsCollected == Spec => []FirstMonthCollects
<1>1. ASSUME TypeOK, fund # None, NEW t \in tenants, MonthOf(t.from) = MonthOf(t.to), Open(t)
      PROVE  InWindow(fund.terms, First(MonthOf(t.to)), LastDay)
  <2> DEFINE first == First(MonthOf(t.to))
             start == fund.terms.start
             end == fund.terms.end
  <2>1. t.from \in Int /\ t.to \in Int /\ t.to <= LastDay
    BY <1>1 DEF TypeOK, Tenant, Days
  <2>2. start \in Int /\ (end # None => end \in Int)
    BY <1>1 DEF TypeOK, Fund, Terms, Days
  <2>3. first \in Int /\ first <= t.to /\ first <= t.from
    BY <1>1, <2>1, MonthsInOrder
  <2>4. First(MonthOf(start)) <= first
    BY <1>1, <2>1, <2>2, MonthsInOrder DEF Open
  <2>5. end # None => t.from <= end
    BY <1>1 DEF Open
  <2> HIDE DEF first, start, end
  <2>6. first <= LastDay /\ (end # None => first <= end)
    BY <2>1, <2>2, <2>3, <2>5
  <2> QED
    BY <2>4, <2>6 DEF InWindow, first, start, end
<1>2. TypeOK => FirstMonthCollects
  BY <1>1 DEF FirstMonthCollects
<1> QED
  BY <1>2, TypeCorrect, PTL

(***************************************************************************)
(* Standing: months and days.                                              *)
(***************************************************************************)

LEMMA PageConstants ==
    /\ MonthLength \in Nat \ {0} /\ YearLength \in Nat \ {0} /\ LastMonth \in Nat \ {0}
    /\ FirstDays \subseteq S!Days \cup {None} /\ LastDays \subseteq S!Days \cup {None}
    /\ Prices \subseteq Nat \cup {None} /\ PayDays \subseteq Nat \cup {None}
    /\ PageAmounts \subseteq Nat
    /\ Billings \subseteq S!Months /\ Receipts \subseteq S!Months
    /\ RentalStarts \subseteq S!Months \cup {None}
    /\ Back \in Nat \ {0} /\ SoonDays \in Nat /\ WarnDays \in Nat /\ SoonDays <= WarnDays
    /\ TaxDay \in 1..MonthLength
    /\ Threshold \in Nat /\ LowRate \in Nat /\ HighRate \in Nat /\ LowRate <= HighRate
    /\ None \notin Int
BY PagesAssumption DEF S!StandingAssumption, S!RatesAssumption

\* Months follow on one another without a gap.
LEMMA MonthSpan ==
    ASSUME NEW m \in Int
    PROVE  /\ S!First(m) \in Int /\ S!Last(m) \in Int
           /\ S!Last(m) = S!First(m) + MonthLength - 1
           /\ S!First(m + 1) = S!Last(m) + 1
<1>1. MonthLength \in Int
  BY PageConstants
<1>2. (m - 1) * MonthLength = m * MonthLength - MonthLength
  BY <1>1
<1>3. m * MonthLength \in Int
  BY <1>1
<1>4. (m + 1) - 1 = m
  OBVIOUS
<1> DEFINE x == m * MonthLength
<1>5. S!First(m) = x - MonthLength + 1 /\ S!Last(m) = x /\ S!First(m + 1) = x + 1 /\ x \in Int
  BY <1>2, <1>3, <1>4 DEF S!First, S!Last
<1> HIDE DEF x
<1> QED
  BY <1>1, <1>5

LEMMA LaterMonth ==
    ASSUME NEW m \in Int, NEW n \in Int, m < n
    PROVE  S!Last(m) < S!First(n)
<1>1. MonthLength \in Nat \ {0}
  BY PageConstants
<1>2. MonthLength * m + MonthLength <= MonthLength * n
  BY <1>1, Multiplied
<1>3. S!Last(m) = MonthLength * m /\ S!Last(n) = MonthLength * n
  BY <1>1 DEF S!Last
<1>4. /\ S!Last(m) \in Int /\ S!Last(n) \in Int /\ S!First(n) \in Int
      /\ S!Last(n) = S!First(n) + MonthLength - 1
  BY MonthSpan
<1>5. S!Last(m) + MonthLength <= S!Last(n)
  BY <1>2, <1>3
<1> QED
  BY <1>1, <1>4, <1>5

LEMMA DayInMonth ==
    ASSUME NEW d \in Int
    PROVE  /\ S!MonthOf(d) \in Int
           /\ S!First(S!MonthOf(d)) <= d /\ d <= S!Last(S!MonthOf(d))
<1> DEFINE q == (d - 1) \div MonthLength
<1>1. MonthLength \in Nat \ {0}
  BY PageConstants
<1>2. q \in Int /\ MonthLength * q <= d - 1 /\ d - 1 < MonthLength * q + MonthLength
  BY <1>1, Divides
<1> HIDE DEF q
<1>3. S!MonthOf(d) = q + 1
  BY DEF S!MonthOf, q
<1>4. S!First(q + 1) = q * MonthLength + 1
  BY <1>2 DEF S!First
<1>5. q * MonthLength = MonthLength * q
  BY <1>1, <1>2
<1> DEFINE x == MonthLength * q
<1>6. x \in Int /\ x <= d - 1 /\ d - 1 < x + MonthLength /\ S!First(q + 1) = x + 1
  BY <1>1, <1>2, <1>4, <1>5
<1>7. S!Last(q + 1) = S!First(q + 1) + MonthLength - 1
  BY <1>2, MonthSpan
<1> HIDE DEF x
<1> QED
  BY <1>1, <1>2, <1>3, <1>6, <1>7

\* A day is in a month after m when it is after the last of m, and so on.
LEMMA DaysAndMonths ==
    ASSUME NEW d \in Int, NEW m \in Int
    PROVE  /\ S!MonthOf(d) <= m <=> d <= S!Last(m)
           /\ m <= S!MonthOf(d) <=> S!First(m) <= d
<1> DEFINE k == S!MonthOf(d)
<1>1. k \in Int /\ S!First(k) <= d /\ d <= S!Last(k)
  BY DayInMonth
<1> HIDE DEF k
<1>2. /\ S!First(k) \in Int /\ S!Last(k) \in Int /\ S!First(m) \in Int /\ S!Last(m) \in Int
      /\ S!Last(m) = S!First(m) + MonthLength - 1 /\ MonthLength \in Nat \ {0}
  BY <1>1, MonthSpan, PageConstants
<1>3. CASE k < m
  <2>1. S!Last(k) < S!First(m)
    BY <1>1, <1>3, LaterMonth
  <2> QED
    BY <1>1, <1>2, <1>3, <2>1 DEF k
<1>4. CASE m < k
  <2>1. S!Last(m) < S!First(k)
    BY <1>1, <1>4, LaterMonth
  <2> QED
    BY <1>1, <1>2, <1>4, <2>1 DEF k
<1>5. CASE k = m
  BY <1>1, <1>2, <1>5 DEF k
<1> QED
  BY <1>1, <1>3, <1>4, <1>5

LEMMA MonthOfDay ==
    ASSUME NEW d \in S!Days
    PROVE  d \in Int /\ S!MonthOf(d) \in S!Months
<1>1. d \in Int /\ 1 <= d /\ d <= LastMonth * MonthLength
  BY PageConstants DEF S!Days
<1>2. S!MonthOf(d) \in Int
  BY <1>1, DayInMonth
<1>3. S!First(1) = 1 /\ S!Last(LastMonth) = LastMonth * MonthLength
  <2>1. (1 - 1) * MonthLength = 0
    BY PageConstants
  <2> QED
    BY <2>1 DEF S!First, S!Last
<1>4. 1 <= S!MonthOf(d) /\ S!MonthOf(d) <= LastMonth
  BY <1>1, <1>3, DaysAndMonths, PageConstants
<1> QED
  BY <1>1, <1>2, <1>4, PageConstants DEF S!Months

(***************************************************************************)
(* Standing: types and references.                                         *)
(***************************************************************************)

\* Every entry names a contract and a bill that are there, or none.
Referring(stored, signed, billed) ==
    \A e \in stored :
        /\ e.contract = None \/ \E ct \in signed : ct.id = e.contract
        /\ e.tenant = None \/ \E b \in billed : b.id = e.tenant

PagesTyped ==
    /\ today \in S!Days /\ utc \in S!Days /\ utc \in {today, today - 1}
    /\ rental \in S!Months \cup {None}
    /\ contracts \subseteq S!Contract /\ IsFiniteSet(contracts)
    /\ bills \subseteq S!Bill
    /\ records \subseteq S!Entry /\ IsFiniteSet(records)
    /\ taxed \subseteq S!Months
    /\ serial \in Nat
    /\ Referring(records, contracts, bills)

LEMMA PagesTypedIsTypeOK == PagesTyped => S!TypeOK
<1> SUFFICES ASSUME PagesTyped PROVE S!TypeOK
  OBVIOUS
<1>1. {e.contract : e \in records} \subseteq {ct.id : ct \in contracts} \cup {None}
  BY DEF PagesTyped, Referring
<1>2. {e.tenant : e \in records} \subseteq {b.id : b \in bills} \cup {None}
  BY DEF PagesTyped, Referring
<1> QED
  BY <1>1, <1>2 DEF PagesTyped, S!TypeOK

\* Contracts are written.
LEMMA ContractsWritten ==
    ASSUME PagesTyped, NEW old \in SUBSET contracts, NEW ct \in S!Contract,
           contracts' = old \cup {ct},
           \A c \in contracts \ old : c.id = ct.id,
           UNCHANGED <<today, utc, rental, bills, records, taxed>>, serial' \in Nat
    PROVE  PagesTyped'
<1>1. IsFiniteSet(contracts')
  BY FS_Subset, FS_AddElement DEF PagesTyped
<1>2. \A c \in contracts : \E d \in contracts' : d.id = c.id
  OBVIOUS
<1>3. Referring(records', contracts', bills')
  BY <1>2 DEF PagesTyped, Referring
<1> QED
  BY <1>1, <1>3 DEF PagesTyped

\* An entry is written.
LEMMA EntryWritten ==
    ASSUME PagesTyped, NEW old \in SUBSET records, NEW e \in S!Entry,
           records' = old \cup {e},
           e.contract = None \/ \E ct \in contracts : ct.id = e.contract,
           e.tenant = None \/ \E b \in bills : b.id = e.tenant,
           UNCHANGED <<today, utc, rental, contracts, bills, taxed>>, serial' \in Nat
    PROVE  PagesTyped'
<1>1. IsFiniteSet(records')
  BY FS_Subset, FS_AddElement DEF PagesTyped
<1>2. Referring(records', contracts', bills')
  BY DEF PagesTyped, Referring
<1> QED
  BY <1>1, <1>2 DEF PagesTyped

LEMMA PagesTypedAtFirst == S!Init => PagesTyped
<1> SUFFICES ASSUME S!Init PROVE PagesTyped
  OBVIOUS
<1>1. 1 \in S!Days
  <2>1. S!First(1) = 1 /\ S!Last(1) = MonthLength
    <3>1. (1 - 1) * MonthLength = 0 /\ 1 * MonthLength = MonthLength
      BY PageConstants
    <3> QED
      BY <3>1 DEF S!First, S!Last
  <2>2. MonthLength * 1 <= MonthLength * LastMonth
    <3>1. CASE LastMonth = 1
      BY <3>1, PageConstants
    <3>2. CASE 1 < LastMonth
      <4>1. MonthLength * 1 + MonthLength <= MonthLength * LastMonth
        BY <3>2, PageConstants, Multiplied
      <4> QED
        BY <4>1, PageConstants
    <3> QED
      BY <3>1, <3>2, PageConstants
  <2>3. MonthLength * LastMonth = LastMonth * MonthLength /\ LastMonth * MonthLength \in Int
    BY PageConstants
  <2> QED
    BY <2>2, <2>3, PageConstants DEF S!Days
<1>2. IsFiniteSet({})
  BY FS_EmptySet
<1> QED
  BY <1>1, <1>2, PageConstants DEF S!Init, PagesTyped, Referring

\* Each action keeps the types and the references.
LEMMA PagesTypedKept == PagesTyped /\ [S!Next]_S!vars => PagesTyped'
<1> SUFFICES ASSUME PagesTyped, [S!Next]_S!vars PROVE PagesTyped'
  OBVIOUS
<1>1. CASE S!ContractCreate
  <2>1. PICK room \in Rooms, start \in FirstDays, end \in LastDays, price \in Prices, payday \in PayDays :
          contracts' = contracts \cup {S!Filled(serial + 1, room, start, end, price, payday)}
    BY <1>1 DEF S!ContractCreate
  <2>2. S!Filled(serial + 1, room, start, end, price, payday) \in S!Contract
    <3>1. serial + 1 \in Nat
      BY DEF PagesTyped
    <3> QED
      BY <3>1, PageConstants DEF S!Filled, S!Contract
  <2>3. serial' \in Nat /\ UNCHANGED <<today, utc, rental, bills, records, taxed>>
    BY <1>1 DEF S!ContractCreate, S!NewRow, PagesTyped
  <2> QED
    BY <2>1, <2>2, <2>3, ContractsWritten
<1>2. CASE S!ContractEnds
  <2>1. PICK ct \in S!Live, end \in LastDays :
          contracts' = (contracts \ {ct}) \cup {[ct EXCEPT !.end = end]}
    BY <1>2 DEF S!ContractEnds
  <2> DEFINE new == [ct EXCEPT !.end = end]
  <2>2. new \in S!Contract /\ new.id = ct.id
    BY PageConstants DEF S!Live, PagesTyped, S!Contract
  <2>3. serial' \in Nat /\ UNCHANGED <<today, utc, rental, bills, records, taxed>>
    BY <1>2 DEF S!ContractEnds, S!NewRow, PagesTyped
  <2>4. contracts' = (contracts \ {ct}) \cup {new}
    BY <2>1
  <2> HIDE DEF new
  <2>5. \A c \in contracts \ (contracts \ {ct}) : c.id = new.id
    BY <2>2
  <2> QED
    BY <2>2, <2>3, <2>4, <2>5, ContractsWritten
<1>3. CASE S!ContractDelete
  <2>1. PICK ct \in S!Live :
          contracts' = (contracts \ {ct}) \cup {[ct EXCEPT !.deleted = TRUE]}
    BY <1>3 DEF S!ContractDelete
  <2> DEFINE new == [ct EXCEPT !.deleted = TRUE]
  <2>2. new \in S!Contract /\ new.id = ct.id
    BY PageConstants DEF S!Live, PagesTyped, S!Contract
  <2>3. serial' \in Nat /\ UNCHANGED <<today, utc, rental, bills, records, taxed>>
    BY <1>3 DEF S!ContractDelete, PagesTyped
  <2>4. contracts' = (contracts \ {ct}) \cup {new}
    BY <2>1
  <2> HIDE DEF new
  <2>5. \A c \in contracts \ (contracts \ {ct}) : c.id = new.id
    BY <2>2
  <2> QED
    BY <2>2, <2>3, <2>4, <2>5, ContractsWritten
<1>4. CASE S!Settle
  <2>1. bills' \subseteq S!Bill /\ bills \subseteq bills' /\ serial' \in Nat
    BY <1>4, PageConstants DEF S!Settle, S!NewRow, S!Bill, PagesTyped
  <2>2. UNCHANGED <<today, utc, rental, contracts, records, taxed>>
    BY <1>4 DEF S!Settle
  <2>3. Referring(records', contracts', bills')
    BY <2>1, <2>2 DEF PagesTyped, Referring
  <2> QED
    BY <2>1, <2>2, <2>3 DEF PagesTyped
<1>5. CASE S!DeleteSettlement
  <2>1. PICK b \in bills : bills' = bills \ {b} /\ records' = S!Unlinked(b)
    BY <1>5 DEF S!DeleteSettlement
  <2>2. UNCHANGED <<today, utc, rental, contracts, taxed, serial>>
    BY <1>5 DEF S!DeleteSettlement
  <2> DEFINE f == [e \in records |-> IF e.tenant = b.id THEN [e EXCEPT !.tenant = None] ELSE e]
  <2>3. records' = {f[e] : e \in records}
    BY <2>1 DEF S!Unlinked
  <2>4. \A e \in records :
           /\ f[e] \in S!Entry /\ f[e].contract = e.contract
           /\ f[e].tenant = IF e.tenant = b.id THEN None ELSE e.tenant
    BY DEF PagesTyped, S!Entry
  <2> HIDE DEF f
  <2>5. IsFiniteSet(records')
    BY <2>3, ImageFinite DEF PagesTyped
  <2>6. Referring(records', contracts', bills')
    BY <2>1, <2>2, <2>3, <2>4 DEF PagesTyped, Referring
  <2>7. records' \subseteq S!Entry /\ bills' \subseteq S!Bill
    BY <2>1, <2>3, <2>4 DEF PagesTyped
  <2> QED
    BY <2>2, <2>5, <2>6, <2>7 DEF PagesTyped
<1>6. ASSUME NEW kind \in {"rent", "fee"}, NEW contract \in Nat \cup {None}, NEW tenant \in Nat \cup {None},
             NEW dates \in SUBSET (S!Months \cup {None}),
             contract = None \/ \E ct \in contracts : ct.id = contract,
             tenant = None \/ \E b \in bills : b.id = tenant,
             S!NewEntry(kind, contract, tenant, dates)
      PROVE  PagesTyped'
  <2>1. PICK billing \in Billings, received \in dates, amount \in PageAmounts :
          records' = records \cup {S!Recorded(serial + 1, kind, contract, tenant, billing, received, amount)}
    BY <1>6 DEF S!NewEntry
  <2> DEFINE e == S!Recorded(serial + 1, kind, contract, tenant, billing, received, amount)
  <2>2. e \in S!Entry /\ e.contract = contract /\ e.tenant = tenant
    <3>1. serial + 1 \in Nat
      BY DEF PagesTyped
    <3> QED
      BY <3>1, PageConstants DEF S!Recorded, S!Entry
  <2>3. serial' \in Nat /\ UNCHANGED <<today, utc, rental, contracts, bills, taxed>>
    BY <1>6 DEF S!NewEntry, S!NewRow, PagesTyped
  <2>4. records' = records \cup {e}
    BY <2>1
  <2> HIDE DEF e
  <2>5. /\ e.contract = None \/ \E ct \in contracts : ct.id = e.contract
        /\ e.tenant = None \/ \E b \in bills : b.id = e.tenant
    BY <1>6, <2>2
  <2> QED
    BY <2>2, <2>3, <2>4, <2>5, EntryWritten
<1>7. CASE S!ConfirmRent
  <2>1. PICK ct \in S!Live : S!NewEntry("rent", ct.id, None, Receipts)
    BY <1>7 DEF S!ConfirmRent
  <2>2. ct \in contracts /\ ct.id \in Nat
    BY DEF S!Live, PagesTyped, S!Contract
  <2>3. Receipts \in SUBSET (S!Months \cup {None})
    BY PageConstants
  <2> QED
    BY <1>6, <2>1, <2>2, <2>3
<1>8. CASE S!ConfirmFee
  <2>1. PICK b \in bills : S!NewEntry("fee", None, b.id, Receipts)
    BY <1>8 DEF S!ConfirmFee
  <2>2. b.id \in Nat
    BY DEF PagesTyped, S!Bill
  <2>3. Receipts \in SUBSET (S!Months \cup {None})
    BY PageConstants
  <2> QED
    BY <1>6, <2>1, <2>2, <2>3
<1>9. ASSUME NEW contract \in S!Selectable
      PROVE  /\ contract \in Nat \cup {None}
             /\ contract = None \/ \E ct \in contracts : ct.id = contract
  BY DEF S!Selectable, S!Live, PagesTyped, S!Contract
<1>10. CASE S!RecordCreate
  <2>1. PICK kind \in {"rent", "fee"}, contract \in S!Selectable :
          S!NewEntry(kind, contract, None, Receipts \cup {None})
    BY <1>10 DEF S!RecordCreate
  <2>2. Receipts \cup {None} \in SUBSET (S!Months \cup {None})
    BY PageConstants
  <2>3. contract \in Nat \cup {None} /\ (contract = None \/ \E ct \in contracts : ct.id = contract)
    BY <1>9
  <2> QED
    BY <1>6, <2>1, <2>2, <2>3
<1>11. CASE S!RecordUpdate
  <2>1. PICK e \in records, kind \in {"rent", "fee"}, billing \in Billings,
             received \in Receipts \cup {None}, amount \in PageAmounts :
          \E contract \in S!Selectable \cup {e.contract} :
             records' = (records \ {e}) \cup
               {S!Recorded(e.id, kind, contract, e.tenant, billing, received, amount)}
    BY <1>11 DEF S!RecordUpdate
  <2>2. PICK contract \in S!Selectable \cup {e.contract} :
             records' = (records \ {e}) \cup
               {S!Recorded(e.id, kind, contract, e.tenant, billing, received, amount)}
    BY <2>1
  <2>3. /\ contract \in Nat \cup {None}
        /\ contract = None \/ \E ct \in contracts : ct.id = contract
    BY <1>9 DEF PagesTyped, Referring, S!Entry
  <2>4. /\ e.id \in Nat /\ e.tenant \in Nat \cup {None}
        /\ e.tenant = None \/ \E b \in bills : b.id = e.tenant
    BY DEF PagesTyped, Referring, S!Entry
  <2> DEFINE new == S!Recorded(e.id, kind, contract, e.tenant, billing, received, amount)
  <2>5. new \in S!Entry /\ new.contract = contract /\ new.tenant = e.tenant
    BY <2>3, <2>4, PageConstants DEF S!Recorded, S!Entry
  <2>6. serial' \in Nat /\ UNCHANGED <<today, utc, rental, contracts, bills, taxed>>
    BY <1>11 DEF S!RecordUpdate, S!NewRow, PagesTyped
  <2>7. records' = (records \ {e}) \cup {new}
    BY <2>2
  <2> HIDE DEF new
  <2>8. /\ new.contract = None \/ \E ct \in contracts : ct.id = new.contract
        /\ new.tenant = None \/ \E b \in bills : b.id = new.tenant
    BY <2>3, <2>4, <2>5
  <2> QED
    BY <2>5, <2>6, <2>7, <2>8, EntryWritten
<1>12. CASE S!RecordDelete
  <2>1. records' \subseteq records /\ UNCHANGED <<today, utc, rental, contracts, bills, taxed, serial>>
    BY <1>12 DEF S!RecordDelete
  <2>2. IsFiniteSet(records')
    BY <2>1, FS_Subset DEF PagesTyped
  <2>3. Referring(records', contracts', bills')
    BY <2>1 DEF PagesTyped, Referring
  <2> QED
    BY <2>1, <2>2, <2>3 DEF PagesTyped
<1>13. CASE S!PayTax \/ S!UndoTax
  <2>1. taxed' \subseteq S!Months /\ UNCHANGED <<today, utc, rental, contracts, bills, records, serial>>
    BY <1>13 DEF S!PayTax, S!UndoTax, PagesTyped
  <2> QED
    BY <2>1 DEF PagesTyped
<1>14. CASE S!LocalMidnight \/ S!UtcMidnight
  <2>1. UNCHANGED <<rental, contracts, bills, records, taxed, serial>>
    BY <1>14 DEF S!LocalMidnight, S!UtcMidnight, S!rows
  <2>2. today' \in S!Days /\ utc' \in S!Days /\ utc' \in {today', today' - 1}
    <3>1. today \in Int
      BY PageConstants DEF PagesTyped, S!Days
    <3> QED
      BY <1>14, <3>1 DEF S!LocalMidnight, S!UtcMidnight, PagesTyped
  <2> QED
    BY <2>1, <2>2 DEF PagesTyped
<1>15. CASE UNCHANGED S!vars
  BY <1>15 DEF S!vars, PagesTyped
<1> QED
  BY <1>1, <1>2, <1>3, <1>4, <1>5, <1>7, <1>8, <1>10, <1>11, <1>12, <1>13, <1>14, <1>15 DEF S!Next

(***************************************************************************)
(* The pages that list rows agree.                                         *)
(***************************************************************************)

\* A rent gets more urgent as days go by.
LEMMA StatusGrows ==
    ASSUME NEW m \in Int, NEW payday \in Nat \cup {None}, NEW d \in Int, NEW e \in Int, d <= e
    PROVE  /\ S!Rank[S!DueStatus(m, payday, d)] <= S!Rank[S!DueStatus(m, payday, e)]
           /\ S!DueStatus(m, payday, d) \in {"RED", "EXC"} =>
                S!DueStatus(m, payday, e) \in {"RED", "EXC"}
<1>1. S!First(m) \in Int /\ S!Last(m) \in Int /\ None \notin Int
  BY MonthSpan, PageConstants
<1>2. /\ S!Rank["none"] = 0 /\ S!Rank["GRN"] = 1 /\ S!Rank["AMB"] = 2
      /\ S!Rank["RED"] = 3 /\ S!Rank["EXC"] = 4
  BY DEF S!Rank
<1>3. CASE payday \in {None, 0}
  BY <1>2, <1>3 DEF S!DueStatus
<1>4. CASE payday \notin {None, 0}
  <2> DEFINE deadline == S!First(m) + payday
  <2>1. deadline \in Int
    BY <1>1, <1>4
  <2>2. \A x \in Int : S!DueStatus(m, payday, x) =
          IF x < deadline - 1 THEN "GRN" ELSE IF x < deadline THEN "AMB"
          ELSE IF x <= S!Last(m) THEN "RED" ELSE "EXC"
    BY <1>4 DEF S!DueStatus
  <2> HIDE DEF deadline
  <2> QED
    BY <1>1, <1>2, <2>1, <2>2
<1> QED
  BY <1>3, <1>4

LEMMA ArrearsMeetRows == PagesTyped => S!ArrearsAreRows
<1> SUFFICES ASSUME PagesTyped, NEW ct \in S!Live, NEW month \in S!Months,
                    S!InArrears(ct, month), ct.start # None, ct.end # None
             PROVE  /\ ct \in S!Expected(month)
                    /\ S!Rank[S!DueStatus(month, ct.payday, utc)] <=
                       S!Rank[S!DueStatus(month, ct.payday, today)]
                    /\ utc = today => S!Rank[S!DueStatus(month, ct.payday, utc)] =
                                      S!Rank[S!DueStatus(month, ct.payday, today)]
  BY DEF S!ArrearsAreRows
<1>1. ~S!PaidOnPage(ct, month)
  BY DEF S!InArrears, S!PaidOnPage, S!RentPaid, PagesTyped, S!Entry
<1>2. ct \in S!Expected(month)
  BY <1>1 DEF S!InArrears, S!Expected
<1>3. ct.payday \in Nat \cup {None} /\ month \in Int
  BY DEF S!Live, PagesTyped, S!Contract, S!Months
<1>4. utc \in Int /\ today \in Int /\ utc <= today
  BY PageConstants DEF PagesTyped, S!Days
<1>5. S!Rank[S!DueStatus(month, ct.payday, utc)] <= S!Rank[S!DueStatus(month, ct.payday, today)]
  BY <1>3, <1>4, StatusGrows
<1> QED
  BY <1>2, <1>5

LEMMA BillsMeetPages == PagesTyped => S!BillsHaveOnePage
<1> SUFFICES ASSUME PagesTyped PROVE S!BillsHaveOnePage
  OBVIOUS
<1>1. ASSUME NEW fee \in S!UnconfirmedFees, NEW month \in 1..(LastMonth + 1)
      PROVE  fee.bill \in S!FeeRows(month) <=> month = fee.page
  <2>1. PICK b \in {x \in bills : x.owed /\ ~S!Confirmed(x)} :
          fee = [bill |-> b, page |-> IF b.advance THEN b.month ELSE b.month + 1]
    BY <1>1 DEF S!UnconfirmedFees
  <2>2. fee.bill = b /\ fee.page = S!ShownIn(b)
    BY <2>1 DEF S!ShownIn
  <2>3. \A e \in records : e.kind = "fee" => e.tenant # b.id
    BY <2>1 DEF S!Confirmed
  <2> QED
    BY <2>1, <2>2, <2>3 DEF S!FeeRows
<1>2. ASSUME NEW month \in S!Months, NEW b \in S!FeeRows(month),
             b \notin {fee.bill : fee \in S!UnconfirmedFees}
      PROVE  \E e \in records : e.tenant = b.id /\ e.billing # month
  <2>1. b \in bills /\ b.owed /\
        \A e \in records : e.billing = month /\ e.kind = "fee" => e.tenant # b.id
    BY <1>2 DEF S!FeeRows
  <2>2. S!Confirmed(b)
    <3>1. SUFFICES ASSUME ~S!Confirmed(b) PROVE FALSE
      OBVIOUS
    <3> DEFINE fee == [bill |-> b, page |-> IF b.advance THEN b.month ELSE b.month + 1]
    <3>2. fee \in S!UnconfirmedFees
      BY <2>1, <3>1 DEF S!UnconfirmedFees
    <3>3. fee.bill = b
      OBVIOUS
    <3> HIDE DEF fee
    <3> QED
      BY <1>2, <3>2, <3>3
  <2> QED
    BY <2>1, <2>2 DEF S!Confirmed
<1> QED
  BY <1>1, <1>2 DEF S!BillsHaveOnePage

\* Of some contracts one ends last, or never.
LEMMA SomeEndsLast ==
    ASSUME NEW X \in SUBSET S!Contract, X # {}
    PROVE  S!LastToEnd(X) # {}
<1>1. CASE \E c \in X : c.end = None
  BY <1>1 DEF S!LastToEnd
<1>2. CASE \A c \in X : c.end # None
  <2> DEFINE total == LastMonth * MonthLength
             T == {n \in Nat : \E c \in X : c.end = total - n}
  <2>1. total \in Int
    BY PageConstants
  <2>2. \A c \in X : c.end \in Int /\ c.end <= total
    BY <1>2, PageConstants DEF S!Contract, S!Days
  <2> HIDE DEF total
  <2>3. T # {}
    <3>1. PICK c \in X : TRUE
      OBVIOUS
    <3>2. total - c.end \in Nat /\ c.end = total - (total - c.end)
      BY <2>1, <2>2
    <3> QED
      BY <3>1, <3>2
  <2>4. T \in SUBSET Nat
    OBVIOUS
  <2>5. \A c \in X : total - c.end \in T
    BY <2>1, <2>2
  <2>6. PICK least \in T : \A n \in T : least <= n
    <3> HIDE DEF T
    <3> QED
      BY <2>3, <2>4, LeastNatural
  <2>7. PICK c \in X : c.end = total - least
    OBVIOUS
  <2>8. \A d \in X : d.end # None /\ d.end <= c.end
    <3> SUFFICES ASSUME NEW d \in X PROVE d.end # None /\ d.end <= c.end
      OBVIOUS
    <3>1. least <= total - d.end
      BY <2>5, <2>6
    <3> QED
      BY <1>2, <2>1, <2>2, <2>4, <2>7, <3>1
  <2> QED
    BY <2>8 DEF S!LastToEnd
<1> QED
  BY <1>1, <1>2

LEMMA RoomsMeetContracts == PagesTyped => S!RoomsAgree
<1> SUFFICES ASSUME PagesTyped, NEW room \in Rooms
             PROVE  LET there == {ct \in S!ActiveOn(utc) : ct.room = room}
                    IN  /\ S!RoomStatus(room) = "danger" <=> \A ct \in there : ct.end = utc
                        /\ S!RoomStatus(room) = "warning" =>
                             \A ct \in there : ct.end # None /\ ct.end <= utc + WarnDays
                        /\ S!RoomStatus(room) = "success" => \E ct \in there : ~S!EndingSoon(ct)
  BY DEF S!RoomsAgree
<1> DEFINE there == {ct \in S!ActiveOn(utc) : ct.room = room}
           staying == {ct \in S!Live : /\ ct.room = room
                                       /\ ct.start # None /\ ct.start <= utc
                                       /\ ct.end # None => ct.end > utc}
           lasting == S!LastToEnd(staying)
<1>1. /\ utc \in Int /\ WarnDays \in Nat /\ SoonDays \in Nat /\ SoonDays <= WarnDays
      /\ None \notin Int
  BY PageConstants DEF PagesTyped, S!Days
<1>2. \A ct \in S!Live : ct \in S!Contract /\ ct.end \in Int \cup {None}
  BY PageConstants DEF PagesTyped, S!Live, S!Contract, S!Days
<1>3. /\ staying \subseteq there
      /\ \A ct \in there : ct.end # utc => ct \in staying
      /\ \A ct \in staying : ct.end # utc
      /\ \A ct \in there : ct.end \in Int \cup {None}
  BY <1>1, <1>2 DEF S!ActiveOn
<1>4. S!Occupants(room) = lasting
  BY DEF S!Occupants
<1>5. lasting \subseteq staying
  BY DEF S!LastToEnd
<1>6. lasting = {} => staying = {}
  <2>1. staying \in SUBSET S!Contract
    BY <1>2
  <2> HIDE DEF staying
  <2> QED
    BY <2>1, SomeEndsLast
<1>7. \A o \in lasting, d \in staying : o.end # None => d.end # None /\ d.end <= o.end
  BY DEF S!LastToEnd
<1>8. S!RoomStatus(room) =
        IF lasting = {} THEN "danger"
        ELSE IF \E ct \in lasting : ct.end = None \/ ct.end - utc > WarnDays
        THEN "success" ELSE "warning"
  BY <1>4 DEF S!RoomStatus
<1> HIDE DEF there, staying, lasting
<1>9. S!RoomStatus(room) = "danger" <=> \A ct \in there : ct.end = utc
  <2>1. S!RoomStatus(room) = "danger" <=> lasting = {}
    BY <1>8
  <2> QED
    BY <1>3, <1>5, <1>6, <2>1
<1>10. ASSUME S!RoomStatus(room) = "warning", NEW ct \in there
       PROVE  ct.end # None /\ ct.end <= utc + WarnDays
  <2>1. PICK o \in lasting : o.end # None /\ ~(o.end - utc > WarnDays)
    BY <1>8, <1>10
  <2>2. o.end \in Int
    BY <1>3, <1>5, <2>1
  <2>3. CASE ct.end = utc
    BY <1>1, <2>3
  <2>4. CASE ct.end # utc
    <3>1. ct.end # None /\ ct.end <= o.end
      BY <1>3, <1>7, <2>1, <2>4
    <3> QED
      BY <1>1, <1>3, <2>1, <2>2, <3>1
  <2> QED
    BY <2>3, <2>4
<1>11. ASSUME S!RoomStatus(room) = "success"
       PROVE  \E ct \in there : ~S!EndingSoon(ct)
  <2>1. PICK o \in lasting : o.end = None \/ o.end - utc > WarnDays
    BY <1>8, <1>11
  <2>2. o \in there /\ o.end \in Int \cup {None}
    BY <1>3, <1>5
  <2>3. ~S!EndingSoon(o)
    BY <1>1, <2>1, <2>2 DEF S!EndingSoon
  <2> QED
    BY <2>2, <2>3
<1> QED
  BY <1>9, <1>10, <1>11 DEF there

\* The pages that list rows agree, at every moment and for every flat, calendar and
\* set of rows: arrears of contracts with a start and an end are rows of the records they
\* link to, a bill is on one page, and flats and contracts show the same rooms taken
\* (stats.py, records and inventory views).
THEOREM PagesAlwaysAgree == S!Spec => []PagesAgree
<1>1. PagesTyped => PagesAgree
  BY PagesTypedIsTypeOK, ArrearsMeetRows, BillsMeetPages, RoomsMeetContracts
     DEF PagesAgree, S!PagesAgree
<1> QED
  BY <1>1, PagesTypedAtFirst, PagesTypedKept, PTL DEF S!Spec

\* A rent in arrears stays there, as urgent, until it is paid, its contract changes or
\* the months looked at move on: whatever else the owner does (stats.rent_arrears).
THEOREM DebtsStand == S!Spec => DebtStands
<1>1. ASSUME PagesTyped, PagesTyped', [S!Next]_S!vars,
             NEW ct \in S!Live, NEW month \in S!Months, S!InArrears(ct, month),
             ct \in contracts', ~(month < S!MonthOf(utc') - Back + 1),
             ~\E e \in records' \ records : e.contract = ct.id /\ e.billing = month
      PROVE  /\ S!InArrears(ct, month)'
             /\ S!Rank[S!DueStatus(month, ct.payday, utc)] <=
                S!Rank[S!DueStatus(month, ct.payday, utc')]
  <2>1. utc \in Int /\ utc' \in Int
    BY <1>1, PageConstants DEF PagesTyped, S!Days
  <2>2. utc <= utc'
    <3>1. today \in Int
      BY <1>1, PageConstants DEF PagesTyped, S!Days
    <3>2. CASE S!UtcMidnight
      BY <2>1, <3>1, <3>2 DEF S!UtcMidnight
    <3>3. CASE ~S!UtcMidnight
      <4>1. utc' = utc
        BY <1>1, <3>3 DEF S!Next, S!vars, S!ContractCreate, S!ContractEnds, S!ContractDelete,
             S!Settle, S!DeleteSettlement, S!ConfirmRent, S!ConfirmFee, S!RecordCreate,
             S!NewEntry, S!RecordUpdate, S!RecordDelete, S!PayTax, S!UndoTax, S!LocalMidnight
      <4> QED
        BY <2>1, <4>1
    <3> QED
      BY <3>2, <3>3
  <2>3. S!MonthOf(utc) \in Int /\ S!MonthOf(utc') \in Int /\ month \in Int /\ Back \in Int
    BY <2>1, DayInMonth, PageConstants DEF S!Months
  <2>4. month <= S!MonthOf(utc) /\ 1 <= month
    BY <1>1, <2>3 DEF S!InArrears, S!Window, S!Higher, S!Months
  <2>5. month <= S!MonthOf(utc')
    <3>1. S!First(month) <= utc
      BY <2>1, <2>3, <2>4, DaysAndMonths
    <3>2. S!First(month) <= utc'
      BY <2>1, <2>2, <2>3, <3>1, MonthSpan
    <3> QED
      BY <2>1, <2>3, <3>2, DaysAndMonths
  <2>6. month \in S!Window'
    BY <1>1, <2>3, <2>4, <2>5 DEF S!Window, S!Higher
  <2>7. ~S!RentPaid(ct, month)'
    BY <1>1 DEF S!InArrears, S!RentPaid
  <2>8. ct.payday \in Nat \cup {None}
    BY <1>1 DEF S!Live, PagesTyped, S!Contract
  <2>9. /\ S!Rank[S!DueStatus(month, ct.payday, utc)] <=
           S!Rank[S!DueStatus(month, ct.payday, utc')]
        /\ S!DueStatus(month, ct.payday, utc') \in {"RED", "EXC"}
    <3>1. S!DueStatus(month, ct.payday, utc) \in {"RED", "EXC"}
      BY <1>1 DEF S!InArrears
    <3> QED
      BY <2>1, <2>2, <2>3, <2>8, <3>1, StatusGrows
  <2>10. S!DueStatus(month, ct.payday, utc)' = S!DueStatus(month, ct.payday, utc')
    BY DEF S!DueStatus
  <2>11. S!InArrears(ct, month)'
    BY <1>1, <2>6, <2>7, <2>9, <2>10 DEF S!InArrears
  <2> QED
    BY <2>9, <2>11
<1>2. PagesTyped /\ PagesTyped' /\ [S!Next]_S!vars =>
        [\A ct \in S!Live, month \in S!Months :
         S!InArrears(ct, month) =>
            \/ ct \notin contracts'
            \/ month < S!MonthOf(utc') - Back + 1
            \/ \E e \in records' \ records : e.contract = ct.id /\ e.billing = month
            \/ /\ S!InArrears(ct, month)'
               /\ S!Rank[S!DueStatus(month, ct.payday, utc)] <=
                  S!Rank[S!DueStatus(month, ct.payday, utc')]]_S!vars
  BY <1>1
<1> QED
  BY <1>2, PagesTypedAtFirst, PagesTypedKept, PTL DEF S!Spec, DebtStands, S!DebtStands

(***************************************************************************)
(* The pages that add up agree.                                            *)
(***************************************************************************)

LEMMA ForecastMeetsRecords == PagesTyped => S!ForecastSplits
<1> SUFFICES ASSUME PagesTyped, NEW month \in S!Months, NEW ct \in S!Live,
                    ct.start # None, ct.end # None, ct.start <= ct.end
             PROVE  ct \in S!Forecast(month) <=>
                      \/ ct \in S!Expected(month)
                      \/ S!RentPaid(ct, month) /\ ct.price # None /\ S!DaysIn(ct, month) > 0
  BY DEF S!ForecastSplits
<1>1. /\ ct \in contracts /\ ct.start \in Int /\ ct.end \in Int
      /\ month \in Int /\ MonthLength \in Nat \ {0}
  BY PageConstants DEF S!Live, PagesTyped, S!Contract, S!Days, S!Months
<1>2. /\ S!First(month) \in Int /\ S!Last(month) \in Int
      /\ S!Last(month) = S!First(month) + MonthLength - 1
  BY <1>1, MonthSpan
<1>3. S!PaidOnPage(ct, month) <=> S!RentPaid(ct, month)
  BY DEF S!PaidOnPage, S!RentPaid, PagesTyped, S!Entry
<1>4. S!DaysIn(ct, month) > 0 <=> ct.start <= S!Last(month) /\ ct.end >= S!First(month)
  BY <1>1, <1>2 DEF S!DaysIn, S!Higher, S!Lower
<1> QED
  BY <1>1, <1>3, <1>4 DEF S!Forecast, S!Expected

\* Two parts of a whole, each rounded, add up to it or to one more.
LEMMA TwoRounded ==
    ASSUME NEW p \in Nat, NEW x \in Nat, NEW y \in Nat, x + y \in Nat \ {0}
    PROVE  S!Rounded(p * x, x + y) + S!Rounded(p * y, x + y) - p \in {0, 1}
<1> DEFINE n == x + y
           px == p * x
           py == p * y
           q == (2 * px + n) \div (2 * n)
           r == (2 * py + n) \div (2 * n)
<1>1. n \in Nat \ {0} /\ 2 * n \in Nat \ {0} /\ px \in Nat /\ py \in Nat
  OBVIOUS
<1>2. px + py = n * p
  OBVIOUS
<1>3. S!Rounded(p * x, x + y) = q /\ S!Rounded(p * y, x + y) = r
  BY DEF S!Rounded
<1> HIDE DEF n, px, py
<1>4. 2 * px + n \in Int /\ 2 * py + n \in Int
  BY <1>1
<1>5. /\ q \in Int /\ 2 * n * q <= 2 * px + n /\ 2 * px + n < 2 * n * q + 2 * n
      /\ r \in Int /\ 2 * n * r <= 2 * py + n /\ 2 * py + n < 2 * n * r + 2 * n
  BY <1>1, <1>4, Divides
<1> HIDE DEF q, r
<1>6. 2 * n * q = 2 * (n * q) /\ 2 * n * r = 2 * (n * r) /\ n * q \in Int /\ n * r \in Int
  BY <1>1, <1>5
<1>7. n * (q + r) = n * q + n * r /\ q + r \in Int
  BY <1>1, <1>5
<1> DEFINE a == n * q
           b == n * r
           c == n * p
           s == q + r
<1>8. /\ a \in Int /\ b \in Int /\ c \in Int /\ px + py = c /\ n * s = a + b /\ s \in Int
      /\ 2 * a <= 2 * px + n /\ 2 * px + n < 2 * a + 2 * n
      /\ 2 * b <= 2 * py + n /\ 2 * py + n < 2 * b + 2 * n
  BY <1>1, <1>2, <1>5, <1>6, <1>7
<1> HIDE DEF a, b, c, s
<1>9. a + b <= c + n /\ c < a + b + n
  BY <1>1, <1>8
<1>10. ~(p + 1 < s)
  <2> SUFFICES ASSUME p + 1 < s PROVE FALSE
    OBVIOUS
  <2>1. n * (p + 1) + n <= n * s
    BY <1>1, <1>8, Multiplied
  <2>2. n * (p + 1) = c + n
    BY <1>1 DEF c
  <2> QED
    BY <1>1, <1>8, <1>9, <2>1, <2>2
<1>11. ~(s < p)
  <2> SUFFICES ASSUME s < p PROVE FALSE
    OBVIOUS
  <2>1. n * s + n <= n * p
    BY <1>1, <1>8, Multiplied
  <2> QED
    BY <1>1, <1>8, <1>9, <2>1 DEF c
<1>12. s - p \in {0, 1}
  BY <1>8, <1>10, <1>11
<1> QED
  BY <1>3, <1>5, <1>12 DEF s

LEMMA RenewalsMeet == PagesTyped => S!RenewalPaysOnce
<1> SUFFICES ASSUME PagesTyped, NEW month \in S!Months, NEW a \in contracts, NEW b \in contracts,
                    a.price # None, a.price = b.price,
                    a.start # None, a.start <= S!First(month),
                    a.end # None, b.start = a.end + 1,
                    b.end # None => b.end >= S!Last(month),
                    a.end >= S!First(month), b.start <= S!Last(month)
             PROVE  S!Share(a, month) + S!Share(b, month) - a.price \in {-1, 0, 1}
  BY DEF S!RenewalPaysOnce
<1>1. /\ a.start \in Int /\ a.end \in Int /\ b.end \in Int \cup {None} /\ a.price \in Nat
      /\ month \in Int /\ MonthLength \in Nat \ {0} /\ None \notin Int
  BY PageConstants DEF PagesTyped, S!Contract, S!Days, S!Months
<1>2. /\ S!First(month) \in Int /\ S!Last(month) \in Int
      /\ S!Last(month) = S!First(month) + MonthLength - 1
  BY <1>1, MonthSpan
<1>3. S!DaysIn(a, month) = a.end - S!First(month) + 1
  BY <1>1, <1>2 DEF S!DaysIn, S!Higher, S!Lower
<1>4. S!DaysIn(b, month) = S!Last(month) - a.end
  BY <1>1, <1>2 DEF S!DaysIn, S!Higher, S!Lower
<1> DEFINE x == S!DaysIn(a, month)
           y == S!DaysIn(b, month)
<1>5. x \in Nat /\ y \in Nat /\ x + y = MonthLength
  BY <1>1, <1>2, <1>3, <1>4
<1>6. S!Share(a, month) = S!Rounded(a.price * x, MonthLength)
  BY DEF S!Share
<1>7. S!Share(b, month) = S!Rounded(a.price * y, MonthLength)
  BY DEF S!Share
<1> HIDE DEF x, y
<1>8. S!Rounded(a.price * x, x + y) + S!Rounded(a.price * y, x + y) - a.price \in {0, 1}
  BY <1>1, <1>5, TwoRounded
<1> QED
  BY <1>5, <1>6, <1>7, <1>8

\* A sum of Standing is one of SumLemmas.
LEMMA PageSum == ASSUME NEW f, NEW X PROVE S!SumFunctionOnSet(f, X) = SumFunctionOnSet(f, X)
BY DEF SumFunctionOnSet, S!SumFunctionOnSet, FoldFunctionOnSet, S!FoldFunctionOnSet,
       MapThenFoldSet, S!MapThenFoldSet

\* The bars of a chart, at some offsets before the month top, are those of the months M.
BarsOf(chart, top, offsets, M) ==
    /\ M \subseteq S!Months /\ top \in Int /\ IsFiniteSet(offsets)
    /\ \A m \in M : top - m \in offsets
    /\ \A o \in offsets : o \in Int /\ top - o \in M
    /\ \A o \in offsets : chart[o] = S!SumOf(S!ReceivedIn({top - o}))

\* What was received in those months is what the bars add up to.
LEMMA MonthsByBar ==
    ASSUME PagesTyped, NEW chart, NEW top, NEW offsets, NEW M, BarsOf(chart, top, offsets, M)
    PROVE  S!SumOf(S!ReceivedIn(M)) = SumFunctionOnSet(chart, offsets)
<1> USE DEF BarsOf
<1> DEFINE all == S!ReceivedIn(M)
           f == [e \in all |-> e.amount]
           h == [e \in all |-> top - e.received]
           group == [o \in offsets |-> S!ReceivedIn({top - o})]
<1>1. all \subseteq records /\ \A e \in all : e.amount \in Int /\ e.received \in M
  BY DEF S!ReceivedIn, PagesTyped, S!Entry
<1>2. IsFiniteSet(all)
  BY <1>1, FS_Subset DEF PagesTyped
<1>3. M \subseteq Int
  BY PageConstants DEF S!Months
<1>4. \A e \in all : f[e] \in Int /\ h[e] \in offsets
  BY <1>1
<1>5. \A o \in offsets : \A e : e \in group[o] <=> e \in all /\ h[e] = o
  <2> SUFFICES ASSUME NEW o \in offsets, NEW e
               PROVE  e \in S!ReceivedIn({top - o}) <=> e \in all /\ h[e] = o
    OBVIOUS
  <2>1. o \in Int /\ top - o \in M
    OBVIOUS
  <2>2. e \in S!ReceivedIn({top - o}) <=> e \in records /\ e.kind = "rent" /\ e.received = top - o
    BY DEF S!ReceivedIn
  <2>3. e \in all <=> e \in records /\ e.kind = "rent" /\ e.received \in M
    BY DEF S!ReceivedIn
  <2>4. e \in all => h[e] = top - e.received
    OBVIOUS
  <2> HIDE DEF h, all
  <2>5. ASSUME e \in all PROVE h[e] = o <=> e.received = top - o
    <3>1. e.received \in Int /\ h[e] = top - e.received
      BY <1>1, <1>3, <2>4, <2>5
    <3>2. \A x \in Int : top - x = o <=> x = top - o
      BY <2>1
    <3> QED
      BY <3>1, <3>2
  <2> QED
    BY <2>1, <2>2, <2>3, <2>5
<1>6. \A o \in offsets : chart[o] = SumFunctionOnSet(f, group[o])
  <2> SUFFICES ASSUME NEW o \in offsets PROVE chart[o] = SumFunctionOnSet(f, group[o])
    OBVIOUS
  <2> DEFINE part1 == S!ReceivedIn({top - o})
             g == [e \in part1 |-> e.amount]
  <2>1. chart[o] = S!SumOf(part1)
    OBVIOUS
  <2>2. S!SumOf(part1) = SumFunctionOnSet(g, part1)
    BY PageSum DEF S!SumOf
  <2>3. part1 = group[o] /\ part1 \subseteq all
    <3>1. part1 = group[o]
      OBVIOUS
    <3> HIDE DEF part1, group, all
    <3> QED
      BY <1>5, <3>1
  <2>4. IsFiniteSet(part1)
    <3> HIDE DEF part1, group, all
    <3> QED
      BY <1>2, <2>3, FS_Subset
  <2>5. \A e \in part1 : g[e] = e.amount
    OBVIOUS
  <2>6. \A e \in all : f[e] = e.amount
    OBVIOUS
  <2> HIDE DEF part1, g, f, all, group
  <2>7. \A e \in part1 : g[e] \in Int /\ g[e] = f[e]
    BY <1>1, <2>3, <2>5, <2>6
  <2>8. SumFunctionOnSet(g, part1) = SumFunctionOnSet(f, part1)
    BY <2>4, <2>7, SumSame
  <2> QED
    BY <2>1, <2>2, <2>3, <2>8
<1>7. S!SumOf(all) = SumFunctionOnSet(f, all)
  BY PageSum DEF S!SumOf
<1> HIDE DEF all, f, h, group
<1>8. SumFunctionOnSet(f, all) = SumFunctionOnSet(chart, offsets)
  BY <1>2, <1>4, <1>5, <1>6, SumInGroups
<1> QED
  BY <1>7, <1>8 DEF all

\* Years are in the order of their months.
LEMMA YearsInOrder ==
    ASSUME NEW m \in Int, NEW n \in Int, m <= n
    PROVE  S!YearOf(m) \in Int /\ S!YearOf(n) \in Int /\ S!YearOf(m) <= S!YearOf(n)
<1> DEFINE a == (m - 1) \div YearLength
           b == (n - 1) \div YearLength
<1>1. YearLength \in Nat \ {0}
  BY PageConstants
<1>2. /\ a \in Int /\ YearLength * a <= m - 1 /\ m - 1 < YearLength * a + YearLength
      /\ b \in Int /\ YearLength * b <= n - 1 /\ n - 1 < YearLength * b + YearLength
  BY <1>1, Divides
<1>3. S!YearOf(m) = a /\ S!YearOf(n) = b
  BY DEF S!YearOf
<1> HIDE DEF a, b
<1>4. ~(b < a)
  <2> SUFFICES ASSUME b < a PROVE FALSE
    OBVIOUS
  <2>1. YearLength * b + YearLength <= YearLength * a
    BY <1>1, <1>2, Multiplied
  <2>2. YearLength * a \in Int /\ YearLength * b \in Int
    BY <1>1, <1>2
  <2> QED
    BY <1>1, <1>2, <2>1, <2>2
<1> QED
  BY <1>2, <1>3, <1>4

\* The months the tax table lists are over, whatever their year.
LEMMA Listed ==
    ASSUME PagesTyped, rental # None, NEW m \in S!Months, S!YearOf(m) >= S!YearOf(rental)
    PROVE  m \in S!TaxTable <=> m < S!MonthOf(utc)
<1> DEFINE now == S!MonthOf(utc)
<1>1. utc \in Int /\ m \in Int /\ now \in Int
  BY PageConstants, DayInMonth DEF PagesTyped, S!Days, S!Months
<1>2. m \in S!TaxTable <=> /\ S!YearOf(m) <= S!YearOf(now)
                           /\ ~(S!YearOf(m) = S!YearOf(now) /\ m >= now)
  BY DEF S!TaxTable
<1> HIDE DEF now
<1>3. CASE m < now
  <2>1. S!YearOf(m) <= S!YearOf(now)
    BY <1>1, <1>3, YearsInOrder
  <2> QED
    BY <1>1, <1>2, <1>3, <2>1 DEF now
<1>4. CASE ~(m < now)
  <2>1. /\ S!YearOf(m) \in Int /\ S!YearOf(now) \in Int
        /\ S!YearOf(now) <= S!YearOf(m)
    BY <1>1, <1>4, YearsInOrder
  <2> QED
    BY <1>1, <1>2, <1>4, <2>1 DEF now
<1> QED
  BY <1>3, <1>4

\* Those of the year of the last completed month are the months of that year before.
LEMMA TaxYear ==
    ASSUME PagesTyped, rental # None, S!YearOf(rental) <= S!YearOf(S!MonthOf(utc) - 1)
    PROVE  {m \in S!TaxTable : S!YearOf(m) = S!YearOf(S!MonthOf(utc) - 1)} =
             {m \in S!Months : S!YearOf(m) = S!YearOf(S!MonthOf(utc) - 1) /\ m < S!MonthOf(utc)}
<1>1. S!TaxTable \subseteq S!Months
  BY DEF S!TaxTable
<1>2. \A m \in S!Months : S!YearOf(m) = S!YearOf(S!MonthOf(utc) - 1)
        => (m \in S!TaxTable <=> m < S!MonthOf(utc))
  BY Listed
<1> QED
  BY <1>1, <1>2

LEMMA IncomesMeet == PagesTyped => S!IncomeAgrees
<1> SUFFICES ASSUME PagesTyped PROVE S!IncomeAgrees
  OBVIOUS
<1> DEFINE top == S!MonthOf(utc)
           chart == S!Chart(LastMonth)
<1>1. top \in Int /\ 1 <= top /\ top <= LastMonth /\ LastMonth \in Nat
  BY MonthOfDay, PageConstants DEF PagesTyped, S!Months
<1>2. \A o \in 0..(LastMonth - 1) : chart[o] = S!SumOf(S!ReceivedIn({top - o}))
  BY DEF S!Chart, S!Ago, S!IncomeOf
<1> DEFINE year == {o \in 1..(top - 1) : S!YearOf(top - o) = S!YearOf(top - 1)}
           M == {m \in S!Months : S!YearOf(m) = S!YearOf(top - 1) /\ m < top}
<1> HIDE DEF top, chart
<1>4. S!YearToDate = SumFunctionOnSet(chart, year)
  <2>1. S!YearToDate = S!SumOf(S!ReceivedIn(M))
    BY DEF S!YearToDate, S!IncomeOf, top
  <2>2. IsFiniteSet(year)
    <3>1. 1..(top - 1) \subseteq 0..LastMonth
      BY <1>1
    <3>2. IsFiniteSet(1..(top - 1))
      BY <1>1, FS_Interval
    <3> QED
      BY <3>2, FS_Subset
  <2>3. \A m \in M : top - m \in year
    <3> SUFFICES ASSUME NEW m \in M PROVE top - m \in year
      OBVIOUS
    <3>1. m \in 1..LastMonth /\ m < top /\ S!YearOf(m) = S!YearOf(top - 1)
      BY DEF S!Months
    <3>2. top - m \in 1..(top - 1)
      BY <1>1, <3>1
    <3>3. top - (top - m) = m
      BY <1>1, <3>1
    <3> QED
      BY <3>1, <3>2, <3>3
  <2>4. \A o \in year : o \in Int /\ top - o \in M
    <3> SUFFICES ASSUME NEW o \in year PROVE o \in Int /\ top - o \in M
      OBVIOUS
    <3>1. o \in 1..(top - 1)
      OBVIOUS
    <3>2. top - o \in 1..LastMonth /\ top - o < top /\ o \in Int
      BY <1>1, <3>1
    <3> QED
      BY <3>2 DEF S!Months
  <2>5. \A o \in year : chart[o] = S!SumOf(S!ReceivedIn({top - o}))
    <3>1. \A o \in year : o \in 0..(LastMonth - 1)
      BY <1>1
    <3> QED
      BY <1>2, <3>1
  <2>6. M \in SUBSET S!Months
    OBVIOUS
  <2> HIDE DEF M, year
  <2>7. S!SumOf(S!ReceivedIn(M)) = SumFunctionOnSet(chart, year)
    <3>1. BarsOf(chart, top, year, M)
      BY <1>1, <2>2, <2>3, <2>4, <2>5, <2>6 DEF BarsOf
    <3> QED
      BY <3>1, MonthsByBar
  <2> QED
    BY <2>1, <2>7
<1>5. S!YearToDate = S!SumFunctionOnSet(chart, year)
  BY <1>4, PageSum
<1> DEFINE listed == {m \in S!TaxTable : S!YearOf(m) = S!YearOf(top - 1)}
<1>6. ASSUME rental # None, S!YearOf(rental) <= S!YearOf(top - 1)
      PROVE  listed = {top - o : o \in year}
  <2>1. listed = M
    BY <1>6, TaxYear, <1>1 DEF top
  <2>2. \A m \in M : m = top - (top - m) /\ top - m \in year
    <3> SUFFICES ASSUME NEW m \in M PROVE m = top - (top - m) /\ top - m \in year
      OBVIOUS
    <3>1. m \in 1..LastMonth /\ m < top /\ S!YearOf(m) = S!YearOf(top - 1)
      BY DEF S!Months
    <3>2. top - m \in 1..(top - 1) /\ m = top - (top - m)
      BY <1>1, <3>1
    <3> QED
      BY <3>1, <3>2
  <2>3. \A o \in year : top - o \in M
    <3> SUFFICES ASSUME NEW o \in year PROVE top - o \in M
      OBVIOUS
    <3>1. top - o \in 1..LastMonth /\ top - o < top
      BY <1>1
    <3> QED
      BY <3>1 DEF S!Months
  <2> HIDE DEF M, year, listed
  <2> QED
    BY <2>1, <2>2, <2>3
<1> QED
  BY <1>5, <1>6 DEF S!IncomeAgrees, top, chart

\* What was received in some months is a number.
LEMMA ReceivedTyped ==
    ASSUME PagesTyped, NEW some \in SUBSET records PROVE S!SumOf(some) \in Int
<1> DEFINE f == [e \in some |-> e.amount]
<1>1. IsFiniteSet(some)
  BY FS_Subset DEF PagesTyped
<1>2. \A e \in some : f[e] \in Int
  BY DEF PagesTyped, S!Entry
<1>3. S!SumOf(some) = SumFunctionOnSet(f, some)
  BY PageSum DEF S!SumOf
<1> HIDE DEF f
<1>4. SumFunctionOnSet(f, some) \in Int
  BY <1>1, <1>2, SumTyped
<1> QED
  BY <1>3, <1>4

LEMMA MonthsIncomeTyped == ASSUME PagesTyped, NEW months PROVE S!IncomeOf(months) \in Int
<1>1. S!ReceivedIn(months) \in SUBSET records
  BY DEF S!ReceivedIn
<1>2. S!SumOf(S!ReceivedIn(months)) \in Int
  BY <1>1, ReceivedTyped
<1> QED
  BY <1>2 DEF S!IncomeOf

\* A zloty is due from half of one on.
LEMMA ZlotyFromHalf ==
    ASSUME NEW x \in Int PROVE R!ToWholePln(x) > 0 <=> x >= 500
<1> DEFINE a == R!Magnitude(x)  q == (a + 500) \div 1000
<1>1. a \in Nat /\ (x < 0 => a = -x) /\ (x >= 0 => a = x)
  BY DEF R!Magnitude
<1> HIDE DEF a
<1>2. q \in Int /\ 1000 * q <= a + 500 /\ a + 500 < 1000 * q + 1000
  BY <1>1
<1> HIDE DEF q
<1>3. R!ToWholePln(x) = IF x < 0 THEN -q ELSE q
  BY DEF R!ToWholePln, q, a
<1> QED
  BY <1>1, <1>2, <1>3

\* A month's tax in thousandths is between what the two rates make of its income.
LEMMA BetweenRates ==
    ASSUME Calendar, NEW b \in Int, NEW i \in Int
    PROVE  /\ LowRate * i >= 500 => Thousandths(b, i) >= 500
           /\ Thousandths(b, i) >= 500 => HighRate * i >= 500
<1> DEFINE low == Low(b, i)
           d == HighRate - LowRate
<1>1. LowRate \in Nat /\ HighRate \in Nat /\ LowRate <= HighRate /\ Threshold \in Nat
  BY DEF Calendar, R!AmountsAssumption, R!RatesAssumption
<1>2. low \in Int /\ low <= i /\ (low < 0 => low = i)
  <2>1. R!Max({0, Threshold - b}) = IF 0 <= Threshold - b THEN Threshold - b ELSE 0
    BY <1>1, LargerOfTwo
  <2>2. R!Max({0, Threshold - b}) \in Nat
    BY <1>1, <2>1
  <2> DEFINE rest == R!Max({0, Threshold - b})
  <2>3. low = R!Min({i, rest})
    BY DEF Low
  <2> HIDE DEF rest, low
  <2>4. rest \in Nat /\ rest \in Int
    BY <2>2 DEF rest
  <2>5. R!Min({i, rest}) = IF i <= rest THEN i ELSE rest
    BY <2>4, SmallerOfTwo
  <2> QED
    BY <2>3, <2>4, <2>5
<1>3. Thousandths(b, i) = low * LowRate + (i - low) * HighRate
  BY DEF Thousandths
<1> HIDE DEF low
<1>4. d \in Nat /\ HighRate = LowRate + d
  BY <1>1
<1> HIDE DEF d
<1>5. (i - low) * HighRate = (i - low) * LowRate + (i - low) * d
  BY <1>1, <1>2, <1>4
<1>6. low * LowRate + (i - low) * LowRate = LowRate * i
  BY <1>1, <1>2
<1>7. (i - low) * d >= 0 /\ (i - low) * d \in Int
  BY <1>2, <1>4
<1>8. /\ low * LowRate \in Int /\ (i - low) * LowRate \in Int
      /\ (i - low) * HighRate \in Int /\ LowRate * i \in Int /\ HighRate * i \in Int
  BY <1>1, <1>2
<1>9. Thousandths(b, i) = LowRate * i + (i - low) * d
  BY <1>3, <1>5, <1>6, <1>7, <1>8
<1>10. LowRate * i >= 500 => Thousandths(b, i) >= 500
  BY <1>7, <1>8, <1>9
<1>11. ASSUME Thousandths(b, i) >= 500 PROVE HighRate * i >= 500
  <2>1. CASE low < 0
    <3>1. low = i /\ i < 0
      BY <1>2, <2>1
    <3>2. (i - low) * d = 0
      BY <1>2, <1>4, <3>1
    <3>3. LowRate * i <= 0
      BY <1>1, <3>1
    <3> QED
      BY <1>8, <1>9, <1>11, <3>2, <3>3
  <2>2. CASE ~(low < 0)
    <3>1. low * d >= 0 /\ low * d \in Int
      BY <1>2, <1>4, <2>2
    <3>2. (i - low) * d = i * d - low * d /\ i * d \in Int
      BY <1>2, <1>4
    <3>3. HighRate * i = LowRate * i + i * d
      BY <1>1, <1>4
    <3> QED
      BY <1>8, <1>9, <1>11, <3>1, <3>2, <3>3
  <2> QED
    BY <2>1, <2>2
<1> QED
  BY <1>10, <1>11

\* The pages tax a month as the payments do.
LEMMA OwedFromHalf ==
    ASSUME PagesTyped, NEW m \in S!Months
    PROVE  LET i == S!IncomeOf({m})
           IN  /\ i \in Int
               /\ 2 * (LowRate * i) >= 1000 => S!TaxOwed(m)
               /\ S!TaxOwed(m) => 2 * (HighRate * i) >= 1000
<1> DEFINE i == S!IncomeOf({m})
           prior == {n \in S!Months : S!YearOf(n) = S!YearOf(m) /\ n < m}
           b == S!IncomeOf(prior)
<1>1. i \in Int /\ b \in Int
  <2>1. {m} \in SUBSET S!Months /\ prior \in SUBSET S!Months
    OBVIOUS
  <2> HIDE DEF prior
  <2>2. S!IncomeOf({m}) \in Int
    BY <2>1, MonthsIncomeTyped
  <2>3. S!IncomeOf(prior) \in Int
    BY <2>1, MonthsIncomeTyped
  <2> QED
    BY <2>2, <2>3
<1>2. S!TaxOwed(m) <=> ~(S!Tax(b, i) <= 0)
  BY DEF S!TaxOwed, S!NothingToPay
<1> HIDE DEF i, prior, b
<1>3. S!Tax(b, i) = R!Tax(b, i)
  BY DEF S!Tax, R!Tax, S!ToWholePln, R!ToWholePln, S!Magnitude, R!Magnitude, S!Min, R!Min,
         S!Max, R!Max
<1>4. Calendar
  BY RentAssumption DEF Calendar
<1>5. Thousandths(b, i) \in Int /\ R!Tax(b, i) = R!ToWholePln(Thousandths(b, i))
  BY <1>1, <1>4, ThousandthsTyped
<1>6. R!Tax(b, i) \in Int /\ (R!Tax(b, i) > 0 <=> Thousandths(b, i) >= 500)
  <2> DEFINE x == Thousandths(b, i)
  <2>1. x \in Int /\ R!Tax(b, i) = R!ToWholePln(x)
    BY <1>5
  <2> HIDE DEF x
  <2>2. R!ToWholePln(x) \in Int
    BY <2>1, WholePln
  <2>3. R!ToWholePln(x) > 0 <=> x >= 500
    BY <2>1, ZlotyFromHalf
  <2> QED
    BY <2>1, <2>2, <2>3 DEF x
<1>7. S!TaxOwed(m) <=> Thousandths(b, i) >= 500
  BY <1>2, <1>3, <1>6
<1>8. /\ LowRate * i >= 500 => Thousandths(b, i) >= 500
      /\ Thousandths(b, i) >= 500 => HighRate * i >= 500
  BY <1>1, <1>4, BetweenRates
<1>9. LowRate * i \in Int /\ HighRate * i \in Int
  BY <1>1, PageConstants
<1> QED
  BY <1>1, <1>7, <1>8, <1>9 DEF i

LEMMA TaxesMeetIncome == PagesTyped => S!TaxIsListed
<1> SUFFICES ASSUME PagesTyped PROVE S!TaxIsListed
  OBVIOUS
<1> DEFINE now == S!MonthOf(utc)
<1>0. utc \in Int /\ now \in Int
  BY PageConstants, DayInMonth DEF PagesTyped, S!Days
<1>1. ASSUME NEW m \in S!Months, m + 1 < now PROVE S!Deadline(m) < utc
  <2>1. m \in Int /\ m + 1 \in Int
    BY DEF S!Months
  <2>2. /\ S!First(m + 1) \in Int /\ S!Last(m + 1) \in Int
        /\ S!Last(m + 1) = S!First(m + 1) + MonthLength - 1
    BY <2>1, MonthSpan
  <2>3. TaxDay \in Int /\ TaxDay <= MonthLength /\ MonthLength \in Int
    BY PageConstants
  <2>4. S!Deadline(m) \in Int /\ S!Deadline(m) <= S!Last(m + 1)
    BY <2>2, <2>3 DEF S!Deadline
  <2>5. S!Last(m + 1) < utc
    <3>1. ~(now <= m + 1)
      BY <1>0, <1>1, <2>1
    <3>2. ~(utc <= S!Last(m + 1))
      BY <1>0, <2>1, <3>1, DaysAndMonths
    <3> QED
      BY <1>0, <2>2, <3>2
  <2> QED
    BY <1>0, <2>2, <2>4, <2>5
<1>2. ASSUME NEW m \in S!Months, rental # None, S!YearOf(m) >= S!YearOf(rental),
             m < now, m \notin taxed, 2 * (LowRate * S!IncomeOf({m})) >= 1000
      PROVE  m \in S!UnpaidTax /\ (m + 1 < now => m \in S!OverdueTax)
  <2>1. m \in S!TaxTable
    BY <1>2, Listed
  <2>2. S!TaxOwed(m)
    BY <1>2, OwedFromHalf
  <2>3. m \in S!UnpaidTax
    BY <1>2, <2>1, <2>2 DEF S!UnpaidTax
  <2> QED
    BY <1>1, <2>3 DEF S!OverdueTax
<1>3. ASSUME NEW m \in S!UnpaidTax
      PROVE  m < now /\ 2 * (HighRate * S!IncomeOf({m})) >= 1000
  <2>1. m \in S!TaxTable /\ S!TaxOwed(m)
    BY DEF S!UnpaidTax
  <2>2. m \in S!Months /\ rental # None /\ S!YearOf(m) >= S!YearOf(rental)
    BY <2>1 DEF S!TaxTable
  <2> QED
    BY <2>1, <2>2, Listed, OwedFromHalf
<1> QED
  BY <1>2, <1>3 DEF S!TaxIsListed

\* The pages that add up agree, for every calendar, price and set of rows: the forecast
\* of a month is what its records expect and what was paid, of contracts with a start and
\* a later end that are not deleted; the two contracts of a renewal pay one rent; the
\* dashboard's year is the bars of the months that the tax table lists; a completed month
\* is owed from half a zloty of tax on (forecast.py, stats.py, tax.py).
THEOREM SumsAlwaysAgree == S!Spec => []SumsAgree
<1>1. PagesTyped => SumsAgree
  BY ForecastMeetsRecords, RenewalsMeet, IncomesMeet, TaxesMeetIncome
     DEF SumsAgree, S!SumsAgree
<1> QED
  BY <1>1, PagesTypedAtFirst, PagesTypedKept, PTL DEF S!Spec

=============================================================================
