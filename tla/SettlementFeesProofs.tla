-------------------------- MODULE SettlementFeesProofs --------------------------
(* Proofs about SettlementFees, checked by TLAPS. *)
EXTENDS SettlementFees, SumLemmas

USE ContractsAssumption

(***************************************************************************)
(* The calendar.                                                           *)
(***************************************************************************)

\* The days before a month.
Before(m) == SumFunctionOnSet(MonthDays, 1..(m - 1))

LEMMA MonthsAre ==
    /\ Len(MonthDays) \in Nat /\ Months = 1..Len(MonthDays)
    /\ \A m \in Months : /\ MonthDays[m] \in Nat \ {0}
                         /\ LegacyDays[m] \in Nat /\ LegacyDays[m] \in 1..MonthDays[m]
BY CalendarAssumption DEF Months

\* The months before a month.
LEMMA EarlierMonths ==
    ASSUME NEW m \in 1..(Len(MonthDays) + 1)
    PROVE  /\ m \in Nat /\ IsFiniteSet(1..(m - 1))
           /\ \A n \in 1..(m - 1) : n \in Months /\ MonthDays[n] \in Nat /\ MonthDays[n] \in Int
<1>1. m \in Nat /\ m - 1 \in Int /\ 1..(m - 1) \subseteq Months
  BY MonthsAre
<1>2. IsFiniteSet(1..(m - 1))
  BY <1>1, FS_Interval
<1>3. \A n \in Months : MonthDays[n] \in Nat /\ MonthDays[n] \in Int
  BY MonthsAre
<1> QED
  BY <1>1, <1>2, <1>3

LEMMA BeforeTyped == ASSUME NEW m \in 1..(Len(MonthDays) + 1) PROVE Before(m) \in Nat
BY EarlierMonths, SumNatural DEF Before

LEMMA BeforeFirst == Before(1) = 0
<1>1. 1..(1 - 1) = {}
  OBVIOUS
<1> QED
  BY <1>1, SumOfNone DEF Before

LEMMA BeforeNext == ASSUME NEW m \in Months PROVE Before(m + 1) = Before(m) + MonthDays[m]
<1>0. m \in Nat /\ m \in 1..(Len(MonthDays) + 1)
  BY MonthsAre
<1>1. 1..((m + 1) - 1) = (1..(m - 1)) \cup {m} /\ m \notin 1..(m - 1)
  <2>1. \A n : n \in 1..((m + 1) - 1) <=> n \in 1..(m - 1) \/ n = m
    BY <1>0
  <2> QED
    BY <1>0, <2>1
<1>2. IsFiniteSet(1..(m - 1)) /\ \A n \in (1..(m - 1)) \cup {m} : MonthDays[n] \in Int
  BY <1>0, MonthsAre, EarlierMonths
<1>3. SumFunctionOnSet(MonthDays, (1..(m - 1)) \cup {m})
        = MonthDays[m] + SumFunctionOnSet(MonthDays, 1..(m - 1))
  BY <1>1, <1>2, SumAdds
<1>4. Before(m + 1) = MonthDays[m] + Before(m)
  BY <1>1, <1>3 DEF Before
<1> QED
  BY <1>0, <1>4, MonthsAre, BeforeTyped

\* A later month begins when this one is over, or later.
LEMMA BeforeGrows ==
    ASSUME NEW m \in Months, NEW n \in 1..(Len(MonthDays) + 1), m < n
    PROVE  Before(m) + MonthDays[m] <= Before(n)
<1>1. m \in Nat /\ n \in Nat /\ Len(MonthDays) \in Nat /\ m + 1 \in 1..(Len(MonthDays) + 1)
  BY MonthsAre
<1> DEFINE S == 1..((m + 1) - 1)  U == (m + 1)..(n - 1)
<1>2. S \cap U = {} /\ S \cup U = 1..(n - 1) /\ IsFiniteSet(S) /\ IsFiniteSet(U)
  <2>1. (m + 1) - 1 \in Int /\ m + 1 \in Int /\ n - 1 \in Int
    BY <1>1
  <2>2. IsFiniteSet(S)
    BY <2>1, FS_Interval
  <2>3. IsFiniteSet(U)
    BY <2>1, FS_Interval
  <2>4. m >= 1
    BY MonthsAre
  <2>5. S \cap U = {}
    BY <1>1
  <2>6. \A k : k \in S \cup U <=> k \in 1..(n - 1)
    BY <1>1, <2>4
  <2> QED
    BY <2>2, <2>3, <2>5, <2>6
<1>3. \A k \in S \cup U : MonthDays[k] \in Nat /\ MonthDays[k] \in Int
  BY <1>1, MonthsAre
<1>4. SumFunctionOnSet(MonthDays, U) \in Nat
  BY <1>2, <1>3, SumNatural
<1>5. SumFunctionOnSet(MonthDays, S \cup U)
        = SumFunctionOnSet(MonthDays, S) + SumFunctionOnSet(MonthDays, U)
  BY <1>2, <1>3, SumOfUnion
<1>6. Before(n) = Before(m + 1) + SumFunctionOnSet(MonthDays, U)
  BY <1>2, <1>5 DEF Before
<1>7. Before(m + 1) \in Nat
  BY <1>1, BeforeTyped
<1> HIDE DEF S, U
<1> QED
  BY <1>4, <1>6, <1>7, BeforeNext

LEMMA DaysOfMonth ==
    ASSUME NEW m \in Months
    PROVE  /\ DaysOf(m) = (Before(m) + 1)..(Before(m) + MonthDays[m])
           /\ Before(m) \in Nat
           /\ IsFiniteSet(DaysOf(m)) /\ Cardinality(DaysOf(m)) = MonthDays[m]
<1>1. DaysOf(m) = (Before(m) + 1)..(Before(m) + MonthDays[m])
  BY DEF DaysOf, Before
<1>2. Before(m) \in Nat /\ MonthDays[m] \in Nat \ {0}
  BY MonthsAre, BeforeTyped
<1>3. Before(m) + 1 \in Int /\ Before(m) + MonthDays[m] \in Int
  BY <1>2
<1>4. /\ IsFiniteSet(DaysOf(m))
      /\ Cardinality(DaysOf(m)) = IF Before(m) + 1 > Before(m) + MonthDays[m] THEN 0
                                  ELSE (Before(m) + MonthDays[m]) - (Before(m) + 1) + 1
  BY <1>1, <1>3, FS_Interval
<1> QED
  BY <1>1, <1>2, <1>4

\* The days are numbered from 1 without a gap.
LEMMA DaysAre ==
    /\ Days = 1..LastDay /\ LastDay \in Nat
    /\ \A d \in Days : \E m \in Months : d \in DaysOf(m)
<1> DEFINE N == Len(MonthDays)  all == Before(N + 1)
<1>1. N \in Nat /\ all \in Nat
  BY MonthsAre, BeforeTyped
<1>2. ASSUME NEW d \in Days PROVE d \in 1..all
  <2>1. PICK m \in Months : d \in DaysOf(m)
    BY DEF Days
  <2>2. Before(m) + MonthDays[m] <= all /\ m \in 1..N
    BY <1>1, BeforeGrows, MonthsAre
  <2>3. Before(m) \in Nat /\ MonthDays[m] \in Nat /\ d \in (Before(m) + 1)..(Before(m) + MonthDays[m])
    BY <2>1, DaysOfMonth, MonthsAre
  <2> HIDE DEF all, N
  <2> QED
    BY <1>1, <2>2, <2>3
<1>3. ASSUME NEW d \in 1..all PROVE \E m \in Months : d \in DaysOf(m)
  <2> DEFINE T == {m \in Months : d <= Before(m) + MonthDays[m]}
  <2>1. T \in SUBSET Nat
    BY MonthsAre
  <2>2. N # 0
    <3>1. N = 0 => all = 0
      BY BeforeFirst
    <3> QED
      BY <1>1, <1>3, <3>1
  <2>3. N \in T
    <3>1. N \in Months /\ all = Before(N) + MonthDays[N]
      BY <1>1, <2>2, MonthsAre, BeforeNext
    <3> QED
      BY <1>3, <3>1
  <2>4. PICK m \in T : \A n \in T : m <= n
    BY <2>1, <2>3, LeastNatural
  <2>5. m \in Months /\ m \in 1..N /\ d <= Before(m) + MonthDays[m] /\ Before(m) \in Nat
    BY <2>4, MonthsAre, DaysOfMonth
  <2>6. Before(m) < d
    <3>1. CASE m = 1
      BY <1>3, <3>1, BeforeFirst
    <3>2. CASE m # 1
      <4>1. m - 1 \in Months /\ (m - 1) + 1 = m /\ m - 1 < m
        BY <2>5, <3>2, MonthsAre
      <4>2. Before(m) = Before(m - 1) + MonthDays[m - 1]
        BY <4>1, BeforeNext
      <4>3. m - 1 \notin T
        BY <2>4, <2>5, <4>1
      <4> QED
        BY <1>3, <2>5, <4>1, <4>2, <4>3
    <3> QED
      BY <3>1, <3>2
  <2>7. MonthDays[m] \in Nat /\ d \in Int
    BY <1>3, <2>5, MonthsAre
  <2>8. d \in (Before(m) + 1)..(Before(m) + MonthDays[m])
    BY <2>5, <2>6, <2>7
  <2> QED
    BY <2>5, <2>8, DaysOfMonth
<1>4. Days = 1..all
  BY <1>2, <1>3 DEF Days
<1>5. LastDay = all
  BY <1>1, <1>4, FS_Interval DEF LastDay
<1> QED
  BY <1>1, <1>3, <1>4, <1>5

LEMMA DaysFinite == IsFiniteSet(Days) /\ \A a, b \in Days : IsFiniteSet(a..b) /\ a..b \subseteq Days
<1>1. \A a, b \in Int : IsFiniteSet(a..b)
  BY FS_Interval
<1> QED
  BY <1>1, DaysAre

LEMMA MonthOfDay ==
    ASSUME NEW m \in Months, NEW d \in DaysOf(m)
    PROVE  MonthOf(d) = m
<1>1. ASSUME NEW n \in Months, d \in DaysOf(n) PROVE n = m
  <2>1. /\ d \in (Before(m) + 1)..(Before(m) + MonthDays[m])
        /\ d \in (Before(n) + 1)..(Before(n) + MonthDays[n])
        /\ Before(m) \in Nat /\ Before(n) \in Nat /\ MonthDays[m] \in Nat /\ MonthDays[n] \in Nat
    BY <1>1, DaysOfMonth, MonthsAre
  <2>2. m \in Nat /\ n \in Nat /\ m \in 1..(Len(MonthDays) + 1) /\ n \in 1..(Len(MonthDays) + 1)
    BY MonthsAre
  <2>3. /\ m < n => Before(m) + MonthDays[m] <= Before(n)
        /\ n < m => Before(n) + MonthDays[n] <= Before(m)
    BY <2>2, BeforeGrows
  <2> QED
    BY <2>1, <2>2, <2>3
<1> QED
  BY <1>1 DEF MonthOf

LEMMA MonthOfTyped == ASSUME NEW d \in Days PROVE MonthOf(d) \in Months /\ d \in DaysOf(MonthOf(d))
BY DaysAre DEF MonthOf

LEMMA MonthLengths ==
    ASSUME NEW m \in Months
    PROVE  MonthDays[m] \in 1..LastDay /\ LegacyDays[m] \in 1..LastDay
<1>1. DaysOf(m) \in SUBSET Days /\ Cardinality(Days) = LastDay
  BY DEF Days, LastDay
<1>2. IsFiniteSet(Days)
  BY DaysFinite
<1>3. MonthDays[m] <= LastDay
  BY <1>1, <1>2, DaysOfMonth, FS_Subset
<1> QED
  BY <1>3, MonthsAre, DaysAre

(***************************************************************************)
(* Types.                                                                  *)
(***************************************************************************)

\* Rows have copies told apart by a number that is still free, so there are finitely many.
Typed == TypeOK /\ IsFiniteSet(readings) /\ IsFiniteSet(calcs)

LEMMA Numbers ==
    /\ \A d \in ReadDays \cup PriceDays : d \in Nat /\ d <= LastDay
    /\ \A x \in Values \cup Amounts \cup Bedrooms : x \in Nat
BY CalendarAssumption, DaysAre

LEMMA ActiveTyped ==
    ASSUME NEW d
    PROVE  /\ Active(d) \in SUBSET Contracts /\ IsFiniteSet(Active(d))
           /\ Cardinality(Active(d)) \in Nat
           /\ Cardinality(Active(d)) <= Cardinality(Contracts)
<1>1. Active(d) \in SUBSET Contracts /\ IsFiniteSet(Contracts)
  BY DEF Active, ContractsAssumption
<1> QED
  BY <1>1, FS_Subset, FS_CardinalityType

LEMMA ShareTyped == ASSUME NEW a \in Int, NEW p \in Nat \ {0} PROVE Share(a, p) \in Int
<1>1. a * Unit \in Int
  BY UnitAssumption DEF UnitAssumption
<1> QED
  BY <1>1 DEF Share

LEMMA OwedTyped == \A u, m \in Int : Owed(u, m) \in Due
BY DEF Owed, Due

LEMMA SplitterTyped ==
    ASSUME beds \in Bedrooms, NEW n \in Nat \ {0}
    PROVE  /\ Splitter(n) \in Nat \ {0}
           /\ Splitter(n) <= n + 2
           /\ beds = 0 \/ n <= beds => n <= Splitter(n)
<1>1. beds \in Nat
  BY Numbers
<1>2. beds # 0 => Splitter(n) = IF n + 2 <= beds THEN n + 2 ELSE beds
  <2>1. n + 2 <= beds => (CHOOSE x \in {n + 2, beds} : \A y \in {n + 2, beds} : x <= y) = n + 2
    BY <1>1
  <2>2. beds < n + 2 => (CHOOSE x \in {n + 2, beds} : \A y \in {n + 2, beds} : x <= y) = beds
    BY <1>1
  <2> QED
    BY <1>1, <2>1, <2>2 DEF Splitter, Min
<1>3. beds = 0 => Splitter(n) = n
  BY DEF Splitter
<1> QED
  BY <1>1, <1>2, <1>3

LEMMA CounterTyped ==
    ASSUME NEW v \in Versions, NEW day \in Days, NEW n \in Nat \ {0}
    PROVE  DailyCounter(v, day, n) \in SUBSET Due
<1> SUFFICES ASSUME NEW owed \in DailyCounter(v, day, n) PROVE owed \in Due
  OBVIOUS
<1>0. PICK beg \in Newest({r \in v.readings : r.day < day}), end \in ReadUntil(v, day),
           p \in CounterPrice(v, day) :
        owed = LET usage == Share(end.value - beg.value, (end.day - beg.day) * n)
               IN  Owed(usage, usage * p.price)
  BY DEF DailyCounter
<1>1. beg \in Reading /\ end \in Reading /\ p \in Price /\ beg.day < day /\ day <= end.day
  BY DaysAre, Numbers DEF Newest, Oldest, ReadUntil, CounterPrice, Versions, Reading
<1>2. /\ beg.value \in Nat /\ end.value \in Nat /\ p.price \in Nat
      /\ beg.day \in Nat /\ end.day \in Nat /\ day \in Nat
  BY <1>1, Numbers, DaysAre DEF Reading, Price
<1>3. end.value - beg.value \in Int /\ end.day - beg.day \in Nat \ {0}
  BY <1>1, <1>2
<1>4. (end.day - beg.day) * n \in Nat \ {0}
  BY <1>3
<1> DEFINE usage == Share(end.value - beg.value, (end.day - beg.day) * n)
<1>5. usage \in Int
  BY <1>3, <1>4, ShareTyped
<1> HIDE DEF usage
<1>6. usage * p.price \in Int
  BY <1>2, <1>5
<1>7. owed = Owed(usage, usage * p.price)
  BY <1>0 DEF usage
<1> QED
  BY <1>5, <1>6, <1>7, OwedTyped

LEMMA AdminTyped ==
    ASSUME kind \in Kinds \ {"meter"}, beds \in Bedrooms, NEW v \in Versions, NEW day \in Days,
           NEW n \in Nat \ {0}
    PROVE  DailyAdmin(v, day, n) \in SUBSET Due
<1> DEFINE m == MonthOf(day)
<1>1. m \in Months /\ MonthDays[m] \in Nat \ {0} /\ LegacyDays[m] \in Nat \ {0}
  BY MonthOfTyped, MonthsAre
<1>2. CASE kind = "invoice"
  <2>1. \A i \in v.invoices : i.amount \in Int
    BY Numbers DEF Versions, Invoice
  <2>2. InvoiceDays(m) * n \in Nat \ {0}
    BY <1>1 DEF InvoiceDays
  <2>3. \A i \in v.invoices : Share(i.amount, InvoiceDays(m) * n) \in Int
    BY <2>1, <2>2, ShareTyped
  <2>4. DailyAdmin(v, day, n)
          = {Owed(0, Share(i.amount, InvoiceDays(m) * n)) : i \in {j \in v.invoices : j.month = m}}
    BY <1>2 DEF DailyAdmin
  <2> HIDE DEF m
  <2> QED
    BY <2>3, <2>4, OwedTyped
<1>3. ASSUME NEW p \in v.prices PROVE p.price \in Int
  BY Numbers DEF Versions, Price
<1>4. CASE kind = "individual"
  <2>1. \A p \in v.prices : Share(p.price, LegacyDays[m]) \in Int
    BY <1>1, <1>3, ShareTyped
  <2> QED
    BY <1>4, <2>1, OwedTyped DEF DailyAdmin, Newest
<1>5. CASE kind = "shared"
  <2>1. LegacyDays[m] * Splitter(n) \in Nat \ {0}
    BY <1>1, SplitterTyped
  <2>2. \A p \in v.prices : Share(p.price, LegacyDays[m] * Splitter(n)) \in Int
    BY <1>3, <2>1, ShareTyped
  <2>3. DailyAdmin(v, day, n)
          = {Owed(0, Share(p.price, LegacyDays[m] * Splitter(n))) :
                p \in Newest({q \in v.prices : q.day <= day})}
    BY <1>5 DEF DailyAdmin
  <2>4. Newest({q \in v.prices : q.day <= day}) \in SUBSET v.prices
    BY DEF Newest
  <2> HIDE DEF m
  <2> QED
    BY <2>2, <2>3, <2>4, OwedTyped
<1> QED
  BY <1>2, <1>4, <1>5 DEF Kinds

LEMMA DailyTyped ==
    ASSUME kind \in Kinds, beds \in Bedrooms, NEW v \in Versions, NEW day \in Days, NEW n \in Nat
    PROVE  Daily(v, day, n) \in SUBSET Due
<1>1. Nothing \in Due
  BY OwedTyped DEF Nothing
<1>2. n # 0 /\ kind = "meter" => DailyCounter(v, day, n) \in SUBSET Due
  BY CounterTyped
<1>3. n # 0 /\ kind # "meter" => DailyAdmin(v, day, n) \in SUBSET Due
  BY AdminTyped
<1> QED
  BY <1>1, <1>2, <1>3 DEF Daily

LEMMA RoundedTyped == ASSUME NEW x \in Int PROVE Rounded(x) \in Int
<1>1. Magnitude(x) \in Nat /\ Unit \in Nat \ {0}
  BY UnitAssumption DEF Magnitude, UnitAssumption
<1>2. 2 * Magnitude(x) + Unit \in Int /\ 2 * Unit \in Nat \ {0}
  BY <1>1
<1>3. (2 * Magnitude(x) + Unit) \div (2 * Unit) \in Int
  BY <1>2
<1> QED
  BY <1>3 DEF Rounded

\* Of one number more than there are rows, one is free.
LEMMA FreeCopyTyped ==
    ASSUME IsFiniteSet(readings), readings \subseteq Reading, NEW d
    PROVE  FreeCopy(d) \in Nat /\ \A r \in OnDay(d) : r.copy # FreeCopy(d)
<1> DEFINE n == Cardinality(readings)  S == {r.copy : r \in OnDay(d)}  T == (1..(n + 1)) \ S
<1>1. IsFiniteSet(OnDay(d)) /\ Cardinality(OnDay(d)) <= n /\ n \in Nat /\ Cardinality(OnDay(d)) \in Nat
  <2>1. OnDay(d) \in SUBSET readings
    BY DEF OnDay
  <2> QED
    BY <2>1, FS_Subset, FS_CardinalityType
<1>2. IsFiniteSet(S) /\ Cardinality(S) <= Cardinality(OnDay(d)) /\ Cardinality(S) \in Nat
  <2> DEFINE f == [r \in OnDay(d) |-> r.copy]
  <2>1. S = {f[r] : r \in OnDay(d)}
    OBVIOUS
  <2> HIDE DEF f, S
  <2>2. IsFiniteSet({f[r] : r \in OnDay(d)}) /\ Cardinality({f[r] : r \in OnDay(d)}) <= Cardinality(OnDay(d))
    BY <1>1, ImageFinite
  <2> QED
    BY <2>1, <2>2, FS_CardinalityType
<1>3. T # {}
  <2> SUFFICES ASSUME T = {} PROVE FALSE
    OBVIOUS
  <2>1. 1..(n + 1) \in SUBSET S
    OBVIOUS
  <2>a. PICK k \in Nat : k = n + 1
    BY <1>1
  <2>2. Cardinality(1..k) = IF 1 > k THEN 0 ELSE k - 1 + 1
    BY FS_Interval
  <2>3. Cardinality(1..(n + 1)) <= Cardinality(S)
    BY <1>2, <2>1, FS_Subset
  <2> HIDE DEF n, S
  <2> QED
    BY <1>1, <1>2, <2>a, <2>2, <2>3
<1>4. T \in SUBSET Nat
  BY <1>1
<1>5. PICK x \in T : \A y \in T : x <= y
  BY <1>3, <1>4, LeastNatural
<1>6. FreeCopy(d) \in T
  BY <1>5 DEF FreeCopy, Min
<1> QED
  BY <1>4, <1>6

LEMMA JobTyped ==
    ASSUME TypeOK, NEW c \in Clients
    PROVE  /\ job[c] = Idle \/ job[c] \in Inserting \/ job[c] \in Settling
           /\ job[c].pc = "insert" => job[c] \in Inserting
           /\ job[c].pc = "settle" => job[c] \in Settling
BY DEF TypeOK, Idle, Inserting, Settling

LEMMA VersionTyped == TypeOK => Version \in Versions
BY DEF TypeOK, Version, Versions

LEMMA IdleTyped ==
    ASSUME TypeOK, NEW c \in Clients
    PROVE  [job EXCEPT ![c] = Idle] \in [Clients -> {Idle} \cup Inserting \cup Settling]
BY DEF TypeOK

LEMMA TypeInit == Init => Typed
<1> SUFFICES ASSUME Init PROVE Typed
  OBVIOUS
<1>1. readings \subseteq Reading /\ IsFiniteSet(readings)
  <2>1. PICK f \in UNION {[D -> Values] : D \in SUBSET ReadDays} :
          readings = {[day |-> d, value |-> f[d], copy |-> 1] : d \in DOMAIN f}
    BY DEF Init
  <2> DEFINE D == DOMAIN f
  <2>0. D \in SUBSET ReadDays /\ f \in [D -> Values]
    OBVIOUS
  <2> DEFINE g == [d \in D |-> [day |-> d, value |-> f[d], copy |-> 1]]
  <2>2. readings = {g[d] : d \in D}
    BY <2>1
  <2>3. \A d \in D : g[d] \in Reading
    BY <2>0 DEF Reading
  <2>4. IsFiniteSet(D)
    <3>1. D \in SUBSET (0..LastDay) /\ LastDay \in Int /\ 0 \in Int
      BY <2>0, Numbers, DaysAre
    <3>2. IsFiniteSet(0..LastDay)
      BY <3>1, FS_Interval
    <3> QED
      BY <3>1, <3>2, FS_Subset
  <2> HIDE DEF g, D
  <2> QED
    BY <2>2, <2>3, <2>4, ImageFinite
<1>2. invoices \subseteq Invoice /\ \A i, j \in invoices : i.month = j.month => i = j
  <2>1. PICK f \in UNION {[M -> Amounts] : M \in SUBSET Months} :
          invoices = {[month |-> m, amount |-> f[m]] : m \in DOMAIN f}
    BY DEF Init
  <2>2. \A m \in DOMAIN f : m \in Months /\ f[m] \in Amounts
    OBVIOUS
  <2> QED
    BY <2>1, <2>2 DEF Invoice
<1>3. calcs = {} /\ IsFiniteSet(calcs)
  BY FS_EmptySet DEF Init
<1> QED
  BY <1>1, <1>2, <1>3 DEF Init, Typed, TypeOK

\* Of as many settlements as there may be, told apart by their copy, one is not saved yet.
LEMMA CopyFree ==
    ASSUME IsFiniteSet(calcs), Cardinality(calcs) < MaxCalcs, NEW saved,
           \A i, j \in 1..MaxCalcs : saved[i] = saved[j] => i = j
    PROVE  Min({i \in 1..MaxCalcs : saved[i] \notin calcs}) \in 1..MaxCalcs
<1> DEFINE T == {i \in 1..MaxCalcs : saved[i] \notin calcs}  f == [i \in 1..MaxCalcs |-> saved[i]]
<1>1. MaxCalcs \in Nat /\ Cardinality(calcs) \in Nat
  BY FS_CardinalityType DEF ContractsAssumption
<1>2. T # {}
  <2> SUFFICES ASSUME T = {} PROVE FALSE
    OBVIOUS
  <2>1. f \in [1..MaxCalcs -> calcs] /\ \A i, j \in 1..MaxCalcs : f[i] = f[j] => i = j
    OBVIOUS
  <2>2. f \in Injection(1..MaxCalcs, calcs)
    BY <2>1 DEF Injection, IsInjective
  <2>3. Cardinality(1..MaxCalcs) <= Cardinality(calcs)
    BY <2>2, FS_Injection
  <2>4. MaxCalcs \in Int /\ Cardinality(1..MaxCalcs) = IF 1 > MaxCalcs THEN 0 ELSE MaxCalcs - 1 + 1
    BY <1>1, FS_Interval
  <2> QED
    BY <1>1, <2>3, <2>4
<1>3. T \in SUBSET Nat
  BY <1>1
<1>4. PICK x \in T : \A y \in T : x <= y
  BY <1>2, <1>3, LeastNatural
<1>5. Min(T) \in T
  BY <1>4 DEF Min
<1> QED
  BY <1>5

LEMMA SettleDayTyped ==
    ASSUME Typed, NEW c \in Clients, SettleDay(c)
    PROVE  job' \in [Clients -> {Idle} \cup Inserting \cup Settling]
<1> DEFINE active == Active(job[c].day)
<1>1. /\ job[c] \in Settling /\ job[c].day <= job[c].to
      /\ job[c].day \in Days /\ job[c].day + 1 \in Days \cup {LastDay + 1}
  BY JobTyped, DaysAre DEF SettleDay, Typed, Settling
<1>2. PICK owed \in Daily(Version, job[c].day, Cardinality(active)) :
        job' = [job EXCEPT
                 ![c].day = @ + 1,
                 ![c].seen = @ \cup {Version},
                 ![c].dues = [k \in Contracts |->
                     IF k \in active THEN Owed(@[k].usage + owed.usage, @[k].value + owed.value)
                     ELSE @[k]]]
  BY DEF SettleDay
<1>3. owed \in Due /\ Version \in Versions
  BY <1>1, ActiveTyped, VersionTyped, DailyTyped DEF Typed, TypeOK
<1> DEFINE dues == [k \in Contracts |->
             IF k \in active
             THEN Owed(job[c].dues[k].usage + owed.usage, job[c].dues[k].value + owed.value)
             ELSE job[c].dues[k]]
<1> HIDE DEF active
<1>4. \A k \in Contracts : job[c].dues[k] \in Due
  BY <1>1 DEF Settling
<1>5. \A k \in Contracts : Owed(job[c].dues[k].usage + owed.usage, job[c].dues[k].value + owed.value) \in Due
  BY <1>3, <1>4 DEF Due, Owed
<1>6. dues \in [Contracts -> Due]
  BY <1>4, <1>5
<1> DEFINE new == [job[c] EXCEPT !.day = @ + 1, !.seen = @ \cup {Version}, !.dues = dues]
<1>7. job' = [job EXCEPT ![c] = new]
  BY <1>2
<1> HIDE DEF dues
<1>8. new \in Settling
  BY <1>1, <1>3, <1>6 DEF Settling
<1> HIDE DEF new
<1> QED
  BY <1>7, <1>8 DEF Typed, TypeOK

\* The settlement a client saves, with the days it is about.
LEMMA SaveWrites ==
    ASSUME Typed, NEW c \in Clients, SaveSettlement(c)
    PROVE  \E k : /\ calcs' = calcs \cup {k} /\ IsCalc(k)
                  /\ k.from = job[c].from /\ k.to = job[c].to /\ k.seen = job[c].seen
                  /\ k.lines = [t \in UNION {Active(d) : d \in k.from..k.to} |-> Line(job[c].dues[t])]
<1> DEFINE tenants == UNION {Active(d) : d \in job[c].from..job[c].to}
           lines == [k \in tenants |-> Line(job[c].dues[k])]
           Saved(i) == [copy |-> i, from |-> job[c].from, to |-> job[c].to, seen |-> job[c].seen,
                        lines |-> lines]
           copy == Min({i \in 1..MaxCalcs : Saved(i) \notin calcs})
<1>1. job[c] \in Settling /\ Cardinality(calcs) < MaxCalcs
  BY JobTyped DEF SaveSettlement, Typed
<1>w. calcs' = calcs \cup {Saved(copy)}
  BY DEF SaveSettlement
<1>2. copy \in 1..MaxCalcs
  <2> DEFINE saved == [i \in 1..MaxCalcs |-> Saved(i)]
  <2>1. copy = Min({i \in 1..MaxCalcs : saved[i] \notin calcs})
    <3>1. {i \in 1..MaxCalcs : Saved(i) \notin calcs} = {i \in 1..MaxCalcs : saved[i] \notin calcs}
      OBVIOUS
    <3> QED
      BY <3>1
  <2>2. \A i, j \in 1..MaxCalcs : saved[i] = saved[j] => i = j
    OBVIOUS
  <2> HIDE DEF saved, copy
  <2> QED
    BY <1>1, <2>1, <2>2, CopyFree DEF Typed
<1>3. tenants \in SUBSET Contracts
  BY ActiveTyped
<1>4. \A k \in Contracts : Line(job[c].dues[k]) \in Due
  <2>1. \A k \in Contracts : job[c].dues[k].usage \in Int /\ job[c].dues[k].value \in Int
    BY <1>1 DEF Settling, Due
  <2> QED
    BY <2>1, RoundedTyped, OwedTyped DEF Line
<1>5. DOMAIN lines = tenants /\ \A k \in tenants : lines[k] \in Due
  BY <1>3, <1>4
<1> HIDE DEF tenants, copy
<1>6. /\ Saved(copy).lines = lines /\ Saved(copy).from = job[c].from /\ Saved(copy).to = job[c].to
      /\ Saved(copy).seen = job[c].seen
  OBVIOUS
<1>7. job[c].from \in Days /\ job[c].to \in Days /\ job[c].seen \in SUBSET Versions
  BY <1>1 DEF Settling
<1>8. IsCalc(Saved(copy))
  <2> HIDE DEF lines
  <2> QED
    BY <1>2, <1>3, <1>5, <1>7 DEF IsCalc
<1> QED
  BY <1>w, <1>6, <1>8 DEF tenants

LEMMA TypeStep == Typed /\ [Next]_vars => Typed'
<1> SUFFICES ASSUME Typed, [Next]_vars PROVE Typed'
  OBVIOUS
<1> USE DEF Typed
<1> DEFINE Jobs == {Idle} \cup Inserting \cup Settling
<1>1. /\ readings \subseteq Reading /\ prices \subseteq Price /\ invoices \subseteq Invoice
      /\ job \in [Clients -> Jobs] /\ edits \in Nat
  BY DEF TypeOK
<1>i. ASSUME NEW c \in Clients, job' = [job EXCEPT ![c] = Idle] PROVE job' \in [Clients -> Jobs]
  BY <1>i, IdleTyped
<1>e. ASSUME NEW c \in Clients, Edit(c)
      PROVE  UNCHANGED <<stay, beds, kind, calcs>> /\ edits' \in Nat
  BY <1>1, <1>e DEF Edit, flat
<1>2. ASSUME NEW c \in Clients, AddReading(c) PROVE Typed'
  <2>1. UNCHANGED <<prices, invoices>>
    BY <1>2 DEF AddReading
  <2>2. PICK d \in ReadDays, v \in Values :
         \/ /\ job' = [job EXCEPT ![c] = [pc |-> "insert", day |-> d, value |-> v]]
            /\ UNCHANGED readings
         \/ \E r \in OnDay(d) :
              /\ readings' = (readings \ {r}) \cup {[r EXCEPT !.value = v]}
              /\ UNCHANGED job
    BY <1>2 DEF AddReading
  <2>3. job' \in [Clients -> Jobs]
    BY <1>1, <2>2 DEF Inserting
  <2>4. readings' \subseteq Reading /\ IsFiniteSet(readings')
    <3>1. CASE UNCHANGED readings
      BY <1>1, <3>1
    <3>2. ASSUME NEW r \in OnDay(d), readings' = (readings \ {r}) \cup {[r EXCEPT !.value = v]}
          PROVE readings' \subseteq Reading /\ IsFiniteSet(readings')
      <4>1. [r EXCEPT !.value = v] \in Reading
        BY <1>1 DEF OnDay, Reading
      <4> QED
        BY <1>1, <3>2, <4>1, FS_AddElement, FS_RemoveElement
    <3> QED
      BY <2>2, <3>1, <3>2
  <2> QED
    BY <1>2, <1>e, <2>1, <2>3, <2>4 DEF TypeOK, AddReading
<1>3. ASSUME NEW c \in Clients, InsertReading(c) PROVE Typed'
  <2>1. job[c].day \in ReadDays /\ job[c].value \in Values
    BY <1>3, JobTyped DEF InsertReading, Inserting
  <2>2. [day |-> job[c].day, value |-> job[c].value, copy |-> FreeCopy(job[c].day)] \in Reading
    BY <1>1, <2>1, FreeCopyTyped DEF Reading
  <2>3. readings' \subseteq Reading /\ IsFiniteSet(readings')
    BY <1>1, <1>3, <2>2, FS_AddElement DEF InsertReading
  <2> QED
    BY <1>3, <1>i, <2>3 DEF TypeOK, InsertReading, flat
<1>4. ASSUME NEW c \in Clients, EditReading(c) PROVE Typed'
  <2>1. PICK r \in readings :
         \/ readings' = readings \ {r}
         \/ \E d \in ReadDays, v \in Values :
              readings' = (readings \ {r}) \cup {[day |-> d, value |-> v, copy |->
                              IF d = r.day THEN r.copy ELSE FreeCopy(d)]}
    BY <1>4 DEF EditReading
  <2>2. \A d \in ReadDays, v \in Values :
          [day |-> d, value |-> v, copy |-> IF d = r.day THEN r.copy ELSE FreeCopy(d)] \in Reading
    BY <1>1, FreeCopyTyped DEF Reading
  <2>3. IsFiniteSet(readings \ {r}) /\ readings \ {r} \subseteq Reading
    BY <1>1, FS_RemoveElement
  <2>4. ASSUME NEW d \in ReadDays, NEW v \in Values,
               readings' = (readings \ {r}) \cup {[day |-> d, value |-> v, copy |->
                              IF d = r.day THEN r.copy ELSE FreeCopy(d)]}
        PROVE  readings' \subseteq Reading /\ IsFiniteSet(readings')
    <3> DEFINE new == [day |-> d, value |-> v, copy |-> IF d = r.day THEN r.copy ELSE FreeCopy(d)]
    <3>1. new \in Reading /\ readings' = (readings \ {r}) \cup {new}
      BY <2>2, <2>4
    <3> HIDE DEF new
    <3> QED
      BY <2>3, <3>1, FS_AddElement
  <2>5. readings' \subseteq Reading /\ IsFiniteSet(readings')
    BY <2>1, <2>3, <2>4
  <2> QED
    BY <1>4, <1>e, <2>5 DEF TypeOK, EditReading
<1>5. ASSUME NEW c \in Clients, DeleteReadingsOnDate(c) PROVE Typed'
  <2>1. readings' \in SUBSET readings
    BY <1>5 DEF DeleteReadingsOnDate
  <2>2. IsFiniteSet(readings')
    BY <2>1, FS_Subset
  <2> QED
    BY <1>5, <1>e, <2>1, <2>2 DEF TypeOK, DeleteReadingsOnDate
<1>6. ASSUME NEW c \in Clients, EditPrice(c) PROVE Typed'
  <2>1. prices' \subseteq Price
    BY <1>1, <1>6 DEF EditPrice
  <2> QED
    BY <1>6, <1>e, <2>1 DEF TypeOK, EditPrice
<1>7. ASSUME NEW c \in Clients, EditInvoice(c) PROVE Typed'
  <2>1. invoices' \subseteq Invoice /\ \A i, j \in invoices' : i.month = j.month => i = j
    BY <1>7 DEF EditInvoice, WithAmount, TypeOK
  <2> QED
    BY <1>7, <1>e, <2>1 DEF TypeOK, EditInvoice
<1>8. ASSUME NEW c \in Clients, RunSettlement(c) PROVE Typed'
  <2>1. PICK from \in Days, to \in Days :
          job' = [job EXCEPT ![c] = [pc |-> "settle", from |-> from, to |-> to, day |-> from,
                                     dues |-> NoDues, seen |-> {}]]
    BY <1>8 DEF RunSettlement
  <2>2. NoDues \in [Contracts -> Due]
    BY OwedTyped DEF NoDues, Nothing
  <2>3. [pc |-> "settle", from |-> from, to |-> to, day |-> from, dues |-> NoDues, seen |-> {}]
          \in Settling
    BY <2>2 DEF Settling
  <2>4. job' \in [Clients -> Jobs]
    BY <1>1, <2>1, <2>3
  <2> QED
    BY <1>8, <2>4 DEF TypeOK, RunSettlement, flat, tables
<1>9. ASSUME NEW c \in Clients, SettleDay(c) PROVE Typed'
  BY <1>9, SettleDayTyped DEF TypeOK, SettleDay, flat, tables
<1>10. ASSUME NEW c \in Clients, SaveSettlement(c) PROVE Typed'
  <2>1. PICK k : calcs' = calcs \cup {k} /\ IsCalc(k)
    BY <1>10, SaveWrites
  <2>2. IsFiniteSet(calcs') /\ \A j \in calcs' : IsCalc(j)
    BY <2>1, FS_AddElement DEF TypeOK
  <2> QED
    BY <1>10, <1>i, <2>2 DEF TypeOK, SaveSettlement, flat, tables, IsCalc
<1>11. ASSUME NEW c \in Clients, DeleteSettlement(c) PROVE Typed'
  <2>1. calcs' \in SUBSET calcs
    BY <1>11 DEF DeleteSettlement
  <2>2. IsFiniteSet(calcs')
    BY <2>1, FS_Subset
  <2> QED
    BY <1>11, <2>1, <2>2 DEF TypeOK, DeleteSettlement, flat, tables, IsCalc
<1>12. CASE UNCHANGED vars
  BY <1>12 DEF TypeOK, vars, flat, tables, IsCalc
<1> QED
  BY <1>2, <1>3, <1>4, <1>5, <1>6, <1>7, <1>8, <1>9, <1>10, <1>11, <1>12 DEF Next

LEMMA TypesHold == Spec => []Typed
BY TypeInit, TypeStep, PTL DEF Spec

\* TypeOK of the engine for every flat, calendar and number of clients: a month has one
\* invoice, and a settlement's lines are of tenants and days there are.
THEOREM TypeCorrect == Spec => []TypeOK
<1>1. Typed => TypeOK
  BY DEF Typed
<1> QED
  BY <1>1, TypesHold, PTL

(***************************************************************************)
(* What a settlement is the sum of.                                        *)
(***************************************************************************)

\* What each tenant of each day owes is in owed: the days first..last are computed from
\* tables that were seen, and dues add them up.
Charge(owed, k, part) == [d \in Days |-> IF k \in Active(d) THEN owed[d][part] ELSE 0]

Explains(owed, first, last, seen, dues) ==
    /\ \A d \in first..last : \E v \in seen : owed[d] \in Daily(v, d, Cardinality(Active(d)))
    /\ \A k \in Contracts, part \in {"usage", "value"} :
         dues[k][part] = SumFunctionOnSet(Charge(owed, k, part), first..last)

Tenants(first, last) == UNION {Active(d) : d \in first..last}

\* The tables have one amount for each month.
OneAmount(seen) == \A v \in seen : \A i, j \in v.invoices : i.month = j.month => i = j

JobExplained(j) ==
    /\ j.from <= j.to /\ j.from <= j.day /\ j.day <= j.to + 1
    /\ IsFiniteSet(j.seen) /\ OneAmount(j.seen)
    /\ \E owed \in [Days -> Due] : Explains(owed, j.from, j.day - 1, j.seen, j.dues)

CalcExplained(k) ==
    /\ k.from <= k.to /\ IsFiniteSet(k.seen) /\ OneAmount(k.seen)
    /\ \E owed \in [Days -> Due], dues \in [Contracts -> Due] :
         /\ Explains(owed, k.from, k.to, k.seen, dues)
         /\ k.lines = [t \in Tenants(k.from, k.to) |-> Line(dues[t])]

Explained ==
    /\ \A c \in Clients : job[c].pc = "settle" => JobExplained(job[c])
    /\ \A k \in calcs : CalcExplained(k)

\* The flat stays what it is, and with it who is there on a day and what a day costs.
LEMMA FlatStays ==
    ASSUME [Next]_vars
    PROVE  UNCHANGED <<stay, beds, kind>>
BY DEF Next, vars, flat, Edit, AddReading, InsertReading, EditReading, DeleteReadingsOnDate, EditPrice,
   EditInvoice, RunSettlement, SettleDay, SaveSettlement, DeleteSettlement

LEMMA MeaningStays ==
    ASSUME UNCHANGED <<stay, beds, kind>>
    PROVE  /\ \A j : JobExplained(j)' = JobExplained(j)
           /\ \A k : CalcExplained(k)' = CalcExplained(k)
<1>1. \A d : Active(d)' = Active(d)
  BY DEF Active
<1>2. \A v, d, n : Daily(v, d, n)' = Daily(v, d, n)
  BY DEF Daily, DailyCounter, DailyAdmin, Splitter, CounterPrice, ReadUntil, InvoiceDays
<1>3. \A owed, k, part : Charge(owed, k, part)' = Charge(owed, k, part)
  BY <1>1 DEF Charge
<1>4. \A owed, first, last, seen, dues :
        Explains(owed, first, last, seen, dues)' = Explains(owed, first, last, seen, dues)
  BY <1>1, <1>2, <1>3 DEF Explains
<1>5. \A first, last : Tenants(first, last)' = Tenants(first, last)
  BY <1>1 DEF Tenants
<1> QED
  BY <1>4, <1>5 DEF JobExplained, CalcExplained

\* Each step leaves the explanation of jobs and settlements it does not write.
LEMMA OthersExplained ==
    ASSUME UNCHANGED <<stay, beds, kind>>, Explained,
           \A c \in Clients : job'[c].pc = "settle" => job'[c] = job[c] \/ JobExplained(job'[c]),
           \A k \in calcs' : k \in calcs \/ CalcExplained(k)
    PROVE  Explained'
<1>1. \A c \in Clients : job'[c].pc = "settle" => JobExplained(job'[c])
  BY DEF Explained
<1>2. \A k \in calcs' : CalcExplained(k)
  BY DEF Explained
<1>3. \A c \in Clients : job'[c].pc = "settle" => JobExplained(job[c])'
  BY <1>1, MeaningStays
<1>4. \A k \in calcs' : CalcExplained(k)'
  BY <1>2, MeaningStays
<1> QED
  BY <1>3, <1>4 DEF Explained

LEMMA ChargeTyped ==
    ASSUME NEW owed \in [Days -> Due], NEW k, NEW part \in {"usage", "value"}, NEW d \in Days
    PROVE  Charge(owed, k, part)[d] \in Int
BY DEF Charge, Due

LEMMA RunExplained ==
    ASSUME Typed, NEW c \in Clients, RunSettlement(c)
    PROVE  JobExplained(job'[c])
<1>1. PICK from \in Days, to \in Days :
        /\ from <= to
        /\ job' = [job EXCEPT ![c] = [pc |-> "settle", from |-> from, to |-> to, day |-> from,
                                     dues |-> NoDues, seen |-> {}]]
  BY DEF RunSettlement
<1> DEFINE new == [pc |-> "settle", from |-> from, to |-> to, day |-> from, dues |-> NoDues, seen |-> {}]
           owed == [d \in Days |-> Nothing]
<1>2. job'[c] = new /\ from \in Nat /\ to \in Nat
  BY <1>1, DaysAre DEF Typed, TypeOK
<1>3. owed \in [Days -> Due]
  BY OwedTyped DEF Nothing
<1>4. from..(from - 1) = {}
  BY <1>2
<1>5. \A k \in Contracts, part \in {"usage", "value"} :
        NoDues[k][part] = SumFunctionOnSet(Charge(owed, k, part), from..(from - 1))
  <2>1. \A k \in Contracts, part \in {"usage", "value"} : NoDues[k][part] = 0
    BY DEF NoDues, Nothing, Owed
  <2>2. \A k, part : SumFunctionOnSet(Charge(owed, k, part), {}) = 0
    BY SumOfNone
  <2> QED
    BY <1>4, <2>1, <2>2
<1>6. Explains(owed, from, from - 1, {}, NoDues)
  BY <1>4, <1>5 DEF Explains
<1>7. new.from = from /\ new.to = to /\ new.day = from /\ new.seen = {} /\ new.dues = NoDues
  OBVIOUS
<1> HIDE DEF owed, new
<1>8. Explains(owed, job'[c].from, job'[c].day - 1, job'[c].seen, job'[c].dues)
  BY <1>2, <1>6, <1>7
<1>9. job'[c].from <= job'[c].to /\ job'[c].from <= job'[c].day /\ job'[c].day <= job'[c].to + 1
  BY <1>1, <1>2, <1>7
<1>10. IsFiniteSet(job'[c].seen)
  BY <1>2, <1>7, FS_EmptySet
<1>11. OneAmount(job'[c].seen)
  BY <1>2, <1>7 DEF OneAmount
<1> QED
  BY <1>3, <1>8, <1>9, <1>10, <1>11 DEF JobExplained

\* The day that is settled is added for those who are there.
LEMMA SettleDayExplained ==
    ASSUME Typed, Explained, NEW c \in Clients, SettleDay(c)
    PROVE  JobExplained(job'[c])
<1> DEFINE day == job[c].day  active == Active(day)  first == job[c].from
<1>1. /\ job[c] \in Settling /\ job[c].pc = "settle" /\ day <= job[c].to
      /\ day \in Nat /\ first \in Nat /\ job[c].to \in Nat
      /\ day \in Days /\ first \in Days /\ job[c].to \in Days
  BY JobTyped, DaysAre DEF SettleDay, Typed, Settling
<1>2. PICK today \in Daily(Version, day, Cardinality(active)) :
        job' = [job EXCEPT
                 ![c].day = @ + 1,
                 ![c].seen = @ \cup {Version},
                 ![c].dues = [k \in Contracts |->
                     IF k \in active THEN Owed(@[k].usage + today.usage, @[k].value + today.value)
                     ELSE @[k]]]
  BY DEF SettleDay
<1>3. today \in Due
  BY <1>1, ActiveTyped, VersionTyped, DailyTyped DEF Typed, TypeOK
<1> DEFINE old == job[c].dues
           dues == [k \in Contracts |->
             IF k \in active THEN Owed(old[k].usage + today.usage, old[k].value + today.value)
             ELSE old[k]]
<1>4. job'[c] = [job[c] EXCEPT !.day = @ + 1, !.seen = @ \cup {Version}, !.dues = dues]
  BY <1>2 DEF Typed, TypeOK
<1> HIDE DEF dues
<1>5. /\ job'[c].day = day + 1 /\ job'[c].seen = job[c].seen \cup {Version} /\ job'[c].dues = dues
      /\ job'[c].from = first /\ job'[c].to = job[c].to
  BY <1>1, <1>4 DEF Settling
<1>6. PICK owed \in [Days -> Due] :
        first <= day /\ Explains(owed, first, day - 1, job[c].seen, old)
  BY <1>1 DEF Explained, JobExplained
<1> DEFINE next == [owed EXCEPT ![day] = today]
<1>7. /\ next \in [Days -> Due] /\ next[day] = today
      /\ \A d \in first..(day - 1) : d \in Days /\ d # day /\ next[d] = owed[d]
  BY <1>1, <1>3, <1>6, DaysFinite, DaysAre
<1> HIDE DEF next
<1>8. /\ IsFiniteSet(first..(day - 1)) /\ day \notin first..(day - 1)
      /\ first..((day + 1) - 1) = (first..(day - 1)) \cup {day}
  <2>1. \A d : d \in first..((day + 1) - 1) <=> d \in first..(day - 1) \/ d = day
    BY <1>1, <1>6
  <2>2. first \in Int /\ day - 1 \in Int
    BY <1>1
  <2>3. IsFiniteSet(first..(day - 1))
    BY <2>2, FS_Interval
  <2> QED
    BY <1>1, <2>1, <2>3
<1>9. \A d \in first..((day + 1) - 1) :
        \E v \in job[c].seen \cup {Version} : next[d] \in Daily(v, d, Cardinality(Active(d)))
  BY <1>2, <1>6, <1>7, <1>8 DEF Explains
<1>10. ASSUME NEW k \in Contracts, NEW part \in {"usage", "value"}
       PROVE  dues[k][part] = SumFunctionOnSet(Charge(next, k, part), first..((day + 1) - 1))
  <2> DEFINE f == Charge(next, k, part)  g == Charge(owed, k, part)  D == first..(day - 1)
  <2>1. \A d \in D \cup {day} : f[d] \in Int
    BY <1>1, <1>7, ChargeTyped
  <2>2. \A d \in D : g[d] = f[d] /\ g[d] \in Int
    BY <1>7, ChargeTyped DEF Charge
  <2>3. f[day] = IF k \in active THEN today[part] ELSE 0
    BY <1>1, <1>7 DEF Charge
  <2>a. IsFiniteSet(D) /\ day \notin D
    BY <1>8
  <2> HIDE DEF f, g, D
  <2>4. SumFunctionOnSet(f, D \cup {day}) = f[day] + SumFunctionOnSet(f, D)
    <3> HIDE DEF day
    <3> QED
      BY <2>a, <2>1, SumAdds
  <2>5. SumFunctionOnSet(f, D) = SumFunctionOnSet(g, D)
    BY <2>a, <2>2, SumSame
  <2>6. old[k][part] = SumFunctionOnSet(g, D)
    BY <1>6 DEF Explains, g, D
  <2>7. old[k][part] \in Int /\ today[part] \in Int
    BY <1>1, <1>3 DEF Settling, Due
  <2>8. dues[k][part] = IF k \in active THEN old[k][part] + today[part] ELSE old[k][part]
    BY DEF dues, Owed
  <2>9. dues[k][part] = f[day] + old[k][part]
    BY <2>3, <2>7, <2>8
  <2> QED
    BY <1>8, <2>4, <2>5, <2>6, <2>9 DEF f, D
<1>11. Explains(next, first, (day + 1) - 1, job[c].seen \cup {Version}, dues)
  BY <1>9, <1>10 DEF Explains
<1>12. IsFiniteSet(job[c].seen) /\ first <= job[c].to
  BY <1>1 DEF Explained, JobExplained
<1>13. IsFiniteSet(job[c].seen \cup {Version})
  BY <1>12, FS_AddElement
<1>14. /\ job'[c].from <= job'[c].to /\ job'[c].from <= job'[c].day
       /\ job'[c].day <= job'[c].to + 1 /\ IsFiniteSet(job'[c].seen)
  BY <1>1, <1>5, <1>6, <1>12, <1>13
<1>15. Explains(next, job'[c].from, job'[c].day - 1, job'[c].seen, job'[c].dues)
  BY <1>5, <1>11
<1>16. OneAmount(job'[c].seen)
  <2>1. OneAmount(job[c].seen)
    BY <1>1 DEF Explained, JobExplained
  <2>2. OneAmount({Version})
    BY DEF OneAmount, Version, Typed, TypeOK
  <2> QED
    BY <1>5, <2>1, <2>2 DEF OneAmount
<1> QED
  BY <1>7, <1>14, <1>15, <1>16 DEF JobExplained

\* The job that is over explains what it saves.
LEMMA SaveExplained ==
    ASSUME Typed, Explained, NEW c \in Clients, SaveSettlement(c)
    PROVE  \A k \in calcs' : k \in calcs \/ CalcExplained(k)
<1>1. PICK k : /\ calcs' = calcs \cup {k} /\ IsCalc(k)
               /\ k.from = job[c].from /\ k.to = job[c].to /\ k.seen = job[c].seen
               /\ k.lines = [t \in UNION {Active(d) : d \in k.from..k.to} |-> Line(job[c].dues[t])]
  BY SaveWrites
<1>2. /\ job[c].pc = "settle" /\ job[c].day > job[c].to /\ job[c] \in Settling
      /\ job[c].day \in Int /\ job[c].to \in Int /\ job[c].from \in Int
  BY JobTyped, DaysAre DEF SaveSettlement, Typed, Settling
<1>3. JobExplained(job[c])
  BY <1>2 DEF Explained
<1>4. /\ job[c].from <= job[c].to /\ job[c].day <= job[c].to + 1
      /\ IsFiniteSet(job[c].seen) /\ OneAmount(job[c].seen)
  BY <1>3 DEF JobExplained
<1>5. job[c].day - 1 = job[c].to
  BY <1>2, <1>4
<1>6. PICK owed \in [Days -> Due] : Explains(owed, k.from, k.to, k.seen, job[c].dues)
  BY <1>1, <1>3, <1>5 DEF JobExplained
<1>7. job[c].dues \in [Contracts -> Due]
  BY <1>2 DEF Settling
<1>8. CalcExplained(k)
  BY <1>1, <1>4, <1>6, <1>7 DEF CalcExplained, Tenants
<1> QED
  BY <1>1, <1>8

LEMMA ExplainedStep == Typed /\ Explained /\ [Next]_vars => Explained'
<1> SUFFICES ASSUME Typed, Explained, [Next]_vars PROVE Explained'
  OBVIOUS
<1>1. UNCHANGED <<stay, beds, kind>>
  BY FlatStays
<1>2. ASSUME NEW c \in Clients, job' = [job EXCEPT ![c] = Idle]
      PROVE  \A b \in Clients : job'[b].pc = "settle" => job'[b] = job[b]
  BY <1>2 DEF Typed, TypeOK, Idle
<1>3. ASSUME NEW c \in Clients, AddReading(c) PROVE Explained'
  <2>1. \A b \in Clients : job'[b].pc = "settle" => job'[b] = job[b]
    <3>1. ASSUME NEW d, NEW v, job' = [job EXCEPT ![c] = [pc |-> "insert", day |-> d, value |-> v]]
          PROVE  \A b \in Clients : job'[b].pc = "settle" => job'[b] = job[b]
      BY <3>1 DEF Typed, TypeOK
    <3> QED
      BY <1>3, <3>1 DEF AddReading
  <2>2. calcs' = calcs
    BY <1>3 DEF AddReading, Edit
  <2> QED
    BY <1>1, <2>1, <2>2, OthersExplained
<1>4. ASSUME NEW c \in Clients,
             InsertReading(c) \/ EditReading(c) \/ DeleteReadingsOnDate(c) \/ EditPrice(c)
               \/ EditInvoice(c) \/ DeleteSettlement(c) \/ UNCHANGED vars
      PROVE  Explained'
  <2>1. job' = job \/ job' = [job EXCEPT ![c] = Idle]
    BY <1>4 DEF InsertReading, EditReading, DeleteReadingsOnDate, EditPrice, EditInvoice,
       DeleteSettlement, vars
  <2>2. calcs' \subseteq calcs
    BY <1>4 DEF InsertReading, EditReading, DeleteReadingsOnDate, EditPrice, EditInvoice,
       DeleteSettlement, vars, Edit
  <2> QED
    BY <1>1, <1>2, <2>1, <2>2, OthersExplained
<1>5. ASSUME NEW c \in Clients, RunSettlement(c) \/ SettleDay(c) PROVE Explained'
  <2>1. JobExplained(job'[c])
    BY <1>5, RunExplained, SettleDayExplained
  <2>2. \A b \in Clients \ {c} : job'[b] = job[b]
    BY <1>5 DEF RunSettlement, SettleDay, Typed, TypeOK
  <2>3. calcs' = calcs
    BY <1>5 DEF RunSettlement, SettleDay
  <2> QED
    BY <1>1, <2>1, <2>2, <2>3, OthersExplained
<1>6. ASSUME NEW c \in Clients, SaveSettlement(c) PROVE Explained'
  <2>1. job' = [job EXCEPT ![c] = Idle]
    BY <1>6 DEF SaveSettlement
  <2> QED
    BY <1>1, <1>2, <1>6, <2>1, SaveExplained, OthersExplained
<1>7. CASE UNCHANGED vars
  BY <1>1, <1>7, OthersExplained DEF vars
<1> QED
  BY <1>3, <1>4, <1>5, <1>6, <1>7 DEF Next

LEMMA ExplainedHolds == Spec => []Explained
<1>1. Init => Explained
  BY DEF Init, Explained, Idle
<1> QED
  BY <1>1, ExplainedStep, TypesHold, PTL DEF Spec

(***************************************************************************)
(* Rounding.                                                               *)
(***************************************************************************)

\* At most half a digit.
LEMMA RoundedNear ==
    ASSUME NEW x \in Int
    PROVE  2 * x - Unit <= 2 * (Unit * Rounded(x)) /\ 2 * (Unit * Rounded(x)) <= 2 * x + Unit
<1> DEFINE a == Magnitude(x)  n == 2 * a + Unit  q == n \div (2 * Unit)
<1>1. Unit \in Nat \ {0} /\ a \in Nat /\ (x < 0 => a = -x) /\ (x >= 0 => a = x)
  BY UnitAssumption DEF UnitAssumption, Magnitude
<1>2. n \in Nat /\ 2 * Unit \in Nat \ {0}
  BY <1>1
<1> HIDE DEF a, n
<1>3. q \in Int /\ (2 * Unit) * q <= n /\ n < (2 * Unit) * q + 2 * Unit
  BY <1>2
<1> HIDE DEF q
<1>4. (2 * Unit) * q = 2 * (Unit * q) /\ Unit * q \in Int /\ Unit * (-q) = -(Unit * q)
  BY <1>1, <1>3
<1>5. 2 * a - Unit <= 2 * (Unit * q) /\ 2 * (Unit * q) <= 2 * a + Unit
  BY <1>1, <1>3, <1>4 DEF n
<1>6. Rounded(x) = IF x < 0 THEN -q ELSE q
  BY DEF Rounded, q, n, a
<1> QED
  BY <1>1, <1>3, <1>4, <1>5, <1>6

(***************************************************************************)
(* What a set of settlements charges: the lines of one.                    *)
(***************************************************************************)

\* What a line of c adds up, before it is rounded.
Exact(owed, c, k, part) == SumFunctionOnSet(Charge(owed, k, part), c.from..c.to)

\* What all tenants of each day owe for it.
DayTotal(owed, part) == [d \in Days |-> Cardinality(Active(d)) * owed[d][part]]

\* The tenants of a day owe as many shares as there are.
LEMMA SharesOfDay ==
    ASSUME NEW owed \in [Days -> Due], NEW part \in {"usage", "value"},
           NEW T \in SUBSET Contracts, NEW d \in Days, Active(d) \subseteq T
    PROVE  SumFunctionOnSet([k \in T |-> Charge(owed, k, part)[d]], T) = DayTotal(owed, part)[d]
<1> DEFINE f == [k \in T |-> Charge(owed, k, part)[d]]  A == Active(d)  B == T \ A  x == owed[d][part]
<1>1. x \in Int
  BY DEF Due
<1>2. IsFiniteSet(A) /\ IsFiniteSet(B) /\ A \cap B = {} /\ A \cup B = T /\ Cardinality(A) \in Nat
  <2>1. IsFiniteSet(T)
    BY FS_Subset DEF ContractsAssumption
  <2>2. B \in SUBSET T /\ IsFiniteSet(A) /\ Cardinality(A) \in Nat
    BY ActiveTyped
  <2> QED
    BY <2>1, <2>2, FS_Subset
<1>3. (\A k \in A : f[k] = x) /\ (\A k \in B : f[k] = 0)
  BY DEF Charge
<1> HIDE DEF f, x
<1>4. SumFunctionOnSet(f, A) = x * Cardinality(A)
  BY <1>1, <1>2, <1>3, SumOfConstant
<1>5. SumFunctionOnSet(f, B) = 0 * Cardinality(B)
  <2>1. 0 \in Int
    OBVIOUS
  <2> QED
    BY <1>2, <1>3, <2>1, SumOfConstant
<1>6. \A k \in A \cup B : f[k] \in Int
  BY <1>1, <1>3
<1>7. SumFunctionOnSet(f, A \cup B) = SumFunctionOnSet(f, A) + SumFunctionOnSet(f, B)
  BY <1>2, <1>6, SumOfUnion
<1>8. Cardinality(B) \in Nat
  BY <1>2, FS_CardinalityType
<1>9. DayTotal(owed, part)[d] = Cardinality(A) * x
  BY DEF DayTotal, x
<1>10. 0 * Cardinality(B) = 0 /\ x * Cardinality(A) = Cardinality(A) * x /\ Cardinality(A) * x \in Int
  BY <1>1, <1>2, <1>8
<1> HIDE DEF A, B
<1>11. SumFunctionOnSet(f, T) = Cardinality(A) * x
  <2>1. SumFunctionOnSet(f, B) = 0
    BY <1>5, <1>10
  <2>2. SumFunctionOnSet(f, A) = Cardinality(A) * x
    BY <1>4, <1>10
  <2>3. SumFunctionOnSet(f, T) = SumFunctionOnSet(f, A) + SumFunctionOnSet(f, B)
    BY <1>2, <1>7
  <2> QED
    BY <1>10, <2>1, <2>2, <2>3
<1> QED
  BY <1>9, <1>11 DEF f

\* The lines of a settlement together are what its days cost, but for rounding.
LEMMA LinesOfOne ==
    ASSUME NEW owed \in [Days -> Due], NEW part \in {"usage", "value"}, NEW c,
           c.from \in Days, c.to \in Days, DOMAIN c.lines = Tenants(c.from, c.to)
    PROVE  /\ IsFiniteSet(DOMAIN c.lines)
           /\ \A k \in DOMAIN c.lines : Exact(owed, c, k, part) \in Int
           /\ SumFunctionOnSet([k \in DOMAIN c.lines |-> Exact(owed, c, k, part)], DOMAIN c.lines)
                = SumFunctionOnSet(DayTotal(owed, part), c.from..c.to)
<1> DEFINE T == DOMAIN c.lines  D == c.from..c.to
           m == [k \in T |-> [d \in D |-> Charge(owed, k, part)[d]]]
<1>1. T \in SUBSET Contracts /\ IsFiniteSet(T)
  <2>1. T \in SUBSET Contracts /\ IsFiniteSet(Contracts)
    BY ActiveTyped DEF Tenants, ContractsAssumption
  <2> QED
    BY <2>1, FS_Subset
<1>2. IsFiniteSet(D) /\ D \in SUBSET Days
  BY DaysFinite
<1>3. \A k \in T, d \in D : Charge(owed, k, part)[d] \in Int
  BY <1>2, ChargeTyped
<1>4. \A d \in D : Active(d) \subseteq T
  BY DEF Tenants
<1> HIDE DEF T, D
<1>5. m \in [T -> [D -> Int]]
  BY <1>3
<1>6. \A k \in T : SumFunctionOnSet([d \in D |-> m[k][d]], D) = Exact(owed, c, k, part)
  <2> SUFFICES ASSUME NEW k \in T
               PROVE  SumFunctionOnSet([d \in D |-> m[k][d]], D) = Exact(owed, c, k, part)
    OBVIOUS
  <2> DEFINE f == [d \in D |-> m[k][d]]  g == Charge(owed, k, part)
  <2>1. \A d \in D : f[d] \in Int /\ f[d] = g[d]
    BY <1>3
  <2> HIDE DEF f, g
  <2>2. SumFunctionOnSet(f, D) = SumFunctionOnSet(g, D)
    BY <1>2, <2>1, SumSame
  <2> QED
    BY <2>2 DEF Exact, D, f, g
<1>7. \A d \in D : SumFunctionOnSet([k \in T |-> m[k][d]], T) = DayTotal(owed, part)[d]
  <2> SUFFICES ASSUME NEW d \in D
               PROVE  SumFunctionOnSet([k \in T |-> m[k][d]], T) = DayTotal(owed, part)[d]
    OBVIOUS
  <2>1. [k \in T |-> m[k][d]] = [k \in T |-> Charge(owed, k, part)[d]]
    OBVIOUS
  <2>2. d \in Days /\ Active(d) \subseteq T
    BY <1>2, <1>4
  <2> QED
    BY <1>1, <2>1, <2>2, SharesOfDay
<1> HIDE DEF m
<1>8. SumFunctionOnSet([k \in T |-> SumFunctionOnSet([d \in D |-> m[k][d]], D)], T)
        = SumFunctionOnSet([d \in D |-> SumFunctionOnSet([k \in T |-> m[k][d]], T)], D)
  BY <1>1, <1>2, <1>5, SumSwaps
<1>9. \A k \in T : Exact(owed, c, k, part) \in Int
  <2> SUFFICES ASSUME NEW k \in T PROVE Exact(owed, c, k, part) \in Int
    OBVIOUS
  <2> DEFINE g == Charge(owed, k, part)
  <2>1. \A d \in D : g[d] \in Int
    BY <1>3
  <2> HIDE DEF g
  <2>2. SumFunctionOnSet(g, D) \in Int
    BY <1>2, <2>1, SumTyped
  <2> QED
    BY <2>2 DEF Exact, g, D
<1>10. [k \in T |-> SumFunctionOnSet([d \in D |-> m[k][d]], D)] = [k \in T |-> Exact(owed, c, k, part)]
  BY <1>6
<1>11. SumFunctionOnSet([d \in D |-> SumFunctionOnSet([k \in T |-> m[k][d]], T)], D)
         = SumFunctionOnSet(DayTotal(owed, part), D)
  <2> DEFINE f == [d \in D |-> SumFunctionOnSet([k \in T |-> m[k][d]], T)]  g == DayTotal(owed, part)
  <2>1. \A d \in D : g[d] \in Int
    <3>1. \A d \in D : Cardinality(Active(d)) \in Nat /\ owed[d][part] \in Int /\ d \in Days
      BY <1>2, ActiveTyped DEF Due
    <3> QED
      BY <3>1 DEF DayTotal
  <2>2. \A d \in D : f[d] \in Int /\ f[d] = g[d]
    BY <1>7, <2>1
  <2> HIDE DEF f, g
  <2>3. SumFunctionOnSet(f, D) = SumFunctionOnSet(g, D)
    BY <1>2, <2>2, SumSame
  <2> QED
    BY <2>3 DEF f, g
<1> QED
  BY <1>1, <1>8, <1>9, <1>10, <1>11 DEF T, D

(***************************************************************************)
(* What a set of settlements charges: its days and its lines.              *)
(***************************************************************************)

LEMMA GreatestNatural ==
    ASSUME NEW T \in SUBSET Nat, T # {}, NEW n \in Nat, \A x \in T : x <= n
    PROVE  \E x \in T : \A y \in T : y <= x
<1> DEFINE U == {n - x : x \in T}
<1>0. \A x \in T : n - x \in Nat
  OBVIOUS
<1>1. U \in SUBSET Nat /\ U # {}
  BY <1>0
<1>2. PICK u \in U : \A y \in U : u <= y
  BY <1>1, LeastNatural
<1>3. PICK x \in T : u = n - x
  BY <1>2
<1>4. \A y \in T : n - x <= n - y
  BY <1>2, <1>3
<1>5. \A y \in T : y <= x
  BY <1>4
<1> QED
  BY <1>5

LEMMA MinIs ==
    ASSUME NEW T \in SUBSET Nat, NEW x \in T, \A y \in T : x <= y
    PROVE  Min(T) = x
<1> DEFINE z == CHOOSE y \in T : \A u \in T : y =< u
<1>1. z \in T /\ \A y \in T : z <= y
  OBVIOUS
<1> HIDE DEF z
<1>2. z = x
  BY <1>1
<1> QED
  BY <1>2 DEF Min, z

LEMMA MaxIs ==
    ASSUME NEW T \in SUBSET Nat, NEW x \in T, \A y \in T : y <= x
    PROVE  Max(T) = x
<1> DEFINE z == CHOOSE y \in T : \A u \in T : y >= u
<1>1. z \in T /\ \A y \in T : z >= y
  OBVIOUS
<1> HIDE DEF z
<1>2. z = x
  BY <1>1
<1> QED
  BY <1>2 DEF Max, z

\* The settlement that covers a day.
Cover(C, d) == CHOOSE c \in C : d \in c.from..c.to

LEMMA CalcTyped ==
    ASSUME Typed, Explained, NEW c \in calcs
    PROVE  /\ c.from \in Days /\ c.to \in Days /\ c.from <= c.to
           /\ c.from \in Nat /\ c.to \in Nat
           /\ c.seen \in SUBSET Versions /\ IsFiniteSet(c.seen)
<1>1. IsCalc(c) /\ CalcExplained(c)
  BY DEF Typed, TypeOK, Explained
<1>2. c.from \in Days /\ c.to \in Days /\ c.seen \in SUBSET Versions
  BY <1>1 DEF IsCalc
<1> QED
  BY <1>1, <1>2, DaysAre DEF CalcExplained

\* Settlements that tile a period were computed from one set of tables.
LEMMA TilingSeen ==
    ASSUME Typed, Explained, NEW C \in Tilings, NEW v \in Seen(C)
    PROVE  /\ C \in SUBSET calcs /\ IsFiniteSet(C) /\ C # {}
           /\ v \in Versions /\ Seen(C) = {v}
<1>1. C \in SUBSET calcs /\ Cardinality(Seen(C)) = 1
  BY DEF Tilings
<1>2. IsFiniteSet(C)
  BY <1>1, FS_Subset DEF Typed
<1>3. PICK c \in C : v \in c.seen
  BY DEF Seen
<1>4. v \in Versions
  BY <1>1, <1>3, CalcTyped
<1> DEFINE f == [k \in C |-> k.seen]  S == {f[k] : k \in C}
<1>5. IsFiniteSet(S)
  <2> HIDE DEF f
  <2> QED
    BY <1>2, ImageFinite
<1>6. \A T \in S : IsFiniteSet(T)
  BY <1>1, CalcTyped
<1>7. Seen(C) = UNION S
  BY DEF Seen
<1> HIDE DEF S
<1>8. IsFiniteSet(Seen(C))
  BY <1>5, <1>6, <1>7, FS_UNION
<1>9. \E x : Seen(C) = {x}
  BY <1>1, <1>8, FS_Singleton
<1> QED
  BY <1>1, <1>2, <1>3, <1>4, <1>9

\* The first and the last of their days.
LEMMA TilingEnds ==
    ASSUME Typed, Explained, NEW C \in Tilings, NEW v \in Seen(C)
    PROVE  /\ First(C) \in Days /\ Last(C) \in Days /\ First(C) <= Last(C)
           /\ First(C) \in Nat /\ Last(C) \in Nat
           /\ \A c \in C : First(C) <= c.from /\ c.to <= Last(C)
<1>1. C \in SUBSET calcs /\ C # {}
  BY TilingSeen
<1>2. \A c \in C : /\ c.from \in Days /\ c.to \in Days /\ c.from <= c.to
                   /\ c.from \in Nat /\ c.to \in Nat
  BY <1>1, CalcTyped
<1> DEFINE F == {c.from : c \in C}  T == {c.to : c \in C}
<1>3. F \in SUBSET Nat /\ F # {} /\ T \in SUBSET Nat /\ T # {}
  BY <1>1, <1>2
<1>4. PICK x \in F : \A y \in F : x <= y
  BY <1>3, LeastNatural
<1>5. LastDay \in Nat /\ \A y \in T : y <= LastDay
  BY <1>2, DaysAre
<1>6. PICK z \in T : \A y \in T : y <= z
  BY <1>3, <1>5, GreatestNatural
<1>7. First(C) = x
  <2> HIDE DEF F
  <2>1. Min(F) = x
    BY <1>3, <1>4, MinIs
  <2> QED
    BY <2>1 DEF First, F
<1>8. Last(C) = z
  <2> HIDE DEF T
  <2>1. Max(T) = z
    BY <1>3, <1>6, MaxIs
  <2> QED
    BY <2>1 DEF Last, T
<1>9. PICK c \in C : c.from = x
  BY <1>4
<1>10. x \in Nat /\ z \in Nat /\ x <= c.from /\ c.from <= c.to /\ c.to <= z
  BY <1>2, <1>3, <1>4, <1>6, <1>9
<1>11. x <= z
  BY <1>2, <1>10
<1>12. x \in Days /\ z \in Days
  BY <1>2, <1>4, <1>6
<1> QED
  BY <1>2, <1>4, <1>6, <1>7, <1>8, <1>10, <1>11, <1>12

\* Each day from the first to the last is covered by one settlement.
LEMMA TilingCover ==
    ASSUME Typed, Explained, NEW C \in Tilings, NEW v \in Seen(C)
    PROVE  /\ \A d \in First(C)..Last(C) : Cover(C, d) \in C
           /\ \A c \in C : {d \in First(C)..Last(C) : Cover(C, d) = c} = c.from..c.to
<1>1. C \in SUBSET calcs
  BY TilingSeen
<1>2. \A c \in C : c.from \in Nat /\ c.to \in Nat
  BY <1>1, CalcTyped
<1>3. /\ First(C) \in Nat /\ Last(C) \in Nat
      /\ \A c \in C : First(C) <= c.from /\ c.to <= Last(C)
  BY TilingEnds
<1>4. \A d \in First(C)..Last(C) : \E c \in C : d \in c.from..c.to
  BY DEF Tilings
<1>5. \A a, b \in C : a # b => a.to < b.from \/ b.to < a.from
  BY DEF Tilings
<1>6. \A d \in First(C)..Last(C) : Cover(C, d) \in C /\ d \in Cover(C, d).from..Cover(C, d).to
  BY <1>4 DEF Cover
<1>7. ASSUME NEW c \in C, NEW d \in c.from..c.to
      PROVE  d \in First(C)..Last(C) /\ Cover(C, d) = c
  <2>1. d \in First(C)..Last(C)
    BY <1>2, <1>3
  <2>2. Cover(C, d) \in C /\ d \in Cover(C, d).from..Cover(C, d).to
    BY <1>6, <2>1
  <2> QED
    BY <1>2, <1>5, <2>1, <2>2
<1>8. ASSUME NEW c \in C, NEW d \in First(C)..Last(C), Cover(C, d) = c
      PROVE  d \in c.from..c.to
  BY <1>6, <1>8
<1>9. ASSUME NEW c \in C
      PROVE  {d \in First(C)..Last(C) : Cover(C, d) = c} = c.from..c.to
  <2>1. \A d : d \in {e \in First(C)..Last(C) : Cover(C, e) = c} <=> d \in c.from..c.to
    BY <1>7, <1>8
  <2> QED
    BY <2>1
<1> QED
  BY <1>6, <1>9

\* What each day costs depends on the days alone.
LEMMA ExactSame ==
    ASSUME NEW owed \in [Days -> Due], NEW w \in [Days -> Due], NEW c, c.from \in Days, c.to \in Days,
           \A d \in c.from..c.to : w[d] = owed[d], NEW k, NEW part \in {"usage", "value"}
    PROVE  /\ Exact(w, c, k, part) = Exact(owed, c, k, part)
           /\ Exact(w, c, k, part) \in Int
<1> DEFINE f == Charge(w, k, part)  g == Charge(owed, k, part)  D == c.from..c.to
<1>1. IsFiniteSet(D) /\ D \subseteq Days
  BY DaysFinite
<1>2. \A d \in D : f[d] \in Int /\ f[d] = g[d]
  BY <1>1, ChargeTyped DEF Charge
<1> HIDE DEF f, g, D
<1>3. SumFunctionOnSet(f, D) = SumFunctionOnSet(g, D) /\ SumFunctionOnSet(f, D) \in Int
  BY <1>1, <1>2, SumSame, SumTyped
<1> QED
  BY <1>3 DEF Exact, f, g, D

\* What a day of theirs costs is computed from their tables, and the lines round what the
\* days cost.
TilingCosts(C, v, w) ==
    /\ \A d \in First(C)..Last(C) : w[d] \in Daily(v, d, Cardinality(Active(d)))
    /\ \A c \in C : \A k \in DOMAIN c.lines : \A part \in {"usage", "value"} :
         c.lines[k][part] = Rounded(Exact(w, c, k, part))

LEMMA TilingOwed ==
    ASSUME Typed, Explained, NEW C \in Tilings, NEW v \in Seen(C)
    PROVE  \E w \in [Days -> Due] : TilingCosts(C, v, w)
<1> DEFINE OK(c, owed) ==
             \E dues \in [Contracts -> Due] :
               /\ Explains(owed, c.from, c.to, c.seen, dues)
               /\ c.lines = [t \in Tenants(c.from, c.to) |-> Line(dues[t])]
           Of == [c \in C |-> CHOOSE owed \in [Days -> Due] : OK(c, owed)]
           w == [d \in Days |-> IF d \in First(C)..Last(C) THEN Of[Cover(C, d)][d] ELSE Nothing]
<1>1. C \in SUBSET calcs /\ Seen(C) = {v}
  BY TilingSeen
<1>2. \A c \in C : \E owed \in [Days -> Due] : OK(c, owed)
  BY <1>1 DEF Explained, CalcExplained
<1>3. \A c \in C : Of[c] \in [Days -> Due] /\ OK(c, Of[c])
  <2> HIDE DEF OK
  <2> QED
    BY <1>2
<1> HIDE DEF Of
<1>4. \A d \in First(C)..Last(C) : Cover(C, d) \in C
  BY TilingCover
<1>5. w \in [Days -> Due]
  <2>1. Nothing \in Due
    BY OwedTyped DEF Nothing
  <2> HIDE DEF OK
  <2> QED
    BY <1>3, <1>4, <2>1
<1>6. ASSUME NEW c \in C
      PROVE  /\ c.from \in Days /\ c.to \in Days /\ c.from..c.to \subseteq Days
             /\ \A d \in c.from..c.to : w[d] = Of[c][d] /\ d \in First(C)..Last(C) /\ Cover(C, d) = c
  <2>1. c.from \in Days /\ c.to \in Days /\ c.from..c.to \subseteq Days
    BY <1>1, CalcTyped, DaysFinite
  <2>2. {d \in First(C)..Last(C) : Cover(C, d) = c} = c.from..c.to
    BY TilingCover
  <2> QED
    BY <2>1, <2>2
<1> HIDE DEF w
<1>7. ASSUME NEW d \in First(C)..Last(C)
      PROVE  w[d] \in Daily(v, d, Cardinality(Active(d)))
  <2>1. PICK c \in C : d \in c.from..c.to
    BY DEF Tilings
  <2>2. PICK u \in c.seen : Of[c][d] \in Daily(u, d, Cardinality(Active(d)))
    BY <1>3, <2>1 DEF Explains
  <2>3. u = v
    BY <1>1, <2>2 DEF Seen
  <2> QED
    BY <1>6, <2>1, <2>2, <2>3
<1>8. ASSUME NEW c \in C, NEW k \in DOMAIN c.lines, NEW part \in {"usage", "value"}
      PROVE  c.lines[k][part] = Rounded(Exact(w, c, k, part))
  <2>1. PICK dues \in [Contracts -> Due] :
          /\ Explains(Of[c], c.from, c.to, c.seen, dues)
          /\ c.lines = [t \in Tenants(c.from, c.to) |-> Line(dues[t])]
    BY <1>3
  <2>2. k \in Contracts
    BY <2>1, ActiveTyped DEF Tenants
  <2>3. dues[k][part] = Exact(Of[c], c, k, part)
    BY <2>1, <2>2 DEF Explains, Exact
  <2>4. c.lines[k] = Line(dues[k])
    BY <2>1
  <2>5. c.lines[k][part] = Rounded(dues[k][part])
    BY <2>4 DEF Line, Owed
  <2>6. Exact(w, c, k, part) = Exact(Of[c], c, k, part)
    BY <1>3, <1>5, <1>6, ExactSame
  <2> QED
    BY <2>3, <2>5, <2>6
<1>9. TilingCosts(C, v, w)
  BY <1>7, <1>8 DEF TilingCosts
<1> QED
  BY <1>5, <1>9

\* Half a digit for each of the rounded summands.
LEMMA NearSums ==
    ASSUME NEW f, NEW g, NEW S, IsFiniteSet(S),
           \A x \in S : /\ f[x] \in Int /\ g[x] \in Int
                        /\ 2 * f[x] - Unit <= 2 * (Unit * g[x])
                        /\ 2 * (Unit * g[x]) <= 2 * f[x] + Unit
    PROVE  /\ SumFunctionOnSet(f, S) \in Int /\ SumFunctionOnSet(g, S) \in Int
           /\ 2 * SumFunctionOnSet(f, S) - Unit * Cardinality(S) <= 2 * (Unit * SumFunctionOnSet(g, S))
           /\ 2 * (Unit * SumFunctionOnSet(g, S)) <= 2 * SumFunctionOnSet(f, S) + Unit * Cardinality(S)
<1> DEFINE Close(a, b, n) == 2 * a - Unit * n <= 2 * (Unit * b) /\ 2 * (Unit * b) <= 2 * a + Unit * n
           Q == {T \in SUBSET S : /\ SumFunctionOnSet(f, T) \in Int /\ SumFunctionOnSet(g, T) \in Int
                                  /\ Close(SumFunctionOnSet(f, T), SumFunctionOnSet(g, T), Cardinality(T))}
<1>0. Unit \in Nat
  BY UnitAssumption DEF UnitAssumption
<1>1. {} \in Q
  BY <1>0, SumOfNone, FS_EmptySet
<1>2. ASSUME NEW T \in SUBSET S, NEW x \in S \ T, T \in Q PROVE T \cup {x} \in Q
  <2>1. IsFiniteSet(T) /\ x \notin T /\ \A y \in T \cup {x} : f[y] \in Int /\ g[y] \in Int
    BY FS_Subset
  <2>2. /\ SumFunctionOnSet(f, T \cup {x}) = f[x] + SumFunctionOnSet(f, T)
        /\ SumFunctionOnSet(g, T \cup {x}) = g[x] + SumFunctionOnSet(g, T)
    BY <2>1, SumAdds
  <2>3. Cardinality(T) \in Nat /\ Cardinality(T \cup {x}) = Cardinality(T) + 1
    BY <2>1, FS_AddElement, FS_CardinalityType
  <2> DEFINE a == SumFunctionOnSet(f, T)  b == SumFunctionOnSet(g, T)  n == Cardinality(T)
             p == f[x]  q == g[x]
  <2>4. a \in Int /\ b \in Int /\ Close(a, b, n) /\ n \in Nat
    BY <1>2, <2>3
  <2>5. p \in Int /\ q \in Int /\ 2 * p - Unit <= 2 * (Unit * q) /\ 2 * (Unit * q) <= 2 * p + Unit
    OBVIOUS
  <2> HIDE DEF a, b, n, p, q
  <2>6. Unit * (q + b) = Unit * q + Unit * b /\ Unit * (n + 1) = Unit * n + Unit
    BY <1>0, <2>4, <2>5
  <2>7. Unit * q \in Int /\ Unit * b \in Int /\ Unit * n \in Int
    BY <1>0, <2>4, <2>5
  <2>8. Close(p + a, q + b, n + 1)
    BY <1>0, <2>4, <2>5, <2>6, <2>7
  <2> HIDE DEF Close
  <2>9. p + a \in Int /\ q + b \in Int
    BY <2>4, <2>5
  <2> QED
    BY <1>2, <2>2, <2>3, <2>8, <2>9 DEF a, b, n, p, q
<1> HIDE DEF Q
<1>3. S \in Q
  BY <1>1, <1>2, EverySubset
<1> QED
  BY <1>3 DEF Q

\* What the lines of C add up to, and what its days cost.
LineTotal(C, part) == SumFunctionOnSet([l \in LinesOf(C) |-> l[1].lines[l[2]][part]], LinesOf(C))
CostTotal(C, w, part) == SumFunctionOnSet(DayTotal(w, part), First(C)..Last(C))

LEMMA Totals ==
    ASSUME NEW C
    PROVE  TotalUsage(C) = LineTotal(C, "usage") /\ TotalValue(C) = LineTotal(C, "value")
BY DEF TotalUsage, TotalValue, SumFunction, LineTotal

LEMMA DayTotalTyped ==
    ASSUME NEW w \in [Days -> Due], NEW part \in {"usage", "value"}, NEW d \in Days
    PROVE  DayTotal(w, part)[d] \in Int
<1>1. Cardinality(Active(d)) \in Nat /\ w[d][part] \in Int
  BY ActiveTyped DEF Due
<1> QED
  BY <1>1 DEF DayTotal

\* The lines of all of them together are what all days cost, but for rounding.
LEMMA LinesOfAll ==
    ASSUME Typed, Explained, NEW C \in Tilings, NEW v \in Seen(C), NEW w \in [Days -> Due],
           NEW part \in {"usage", "value"}
    PROVE  /\ IsFiniteSet(LinesOf(C))
           /\ SumFunctionOnSet([l \in LinesOf(C) |-> Exact(w, l[1], l[2], part)], LinesOf(C))
                = CostTotal(C, w, part)
<1> DEFINE L == LinesOf(C)  D == First(C)..Last(C)
           Of(c) == {<<c, k>> : k \in DOMAIN c.lines}
           exact == [l \in L |-> Exact(w, l[1], l[2], part)]
           cost == DayTotal(w, part)
           owner == [l \in L |-> l[1]]
           cover == [d \in D |-> Cover(C, d)]
           whole == [c \in C |-> SumFunctionOnSet(cost, c.from..c.to)]
<1>1. C \in SUBSET calcs /\ IsFiniteSet(C)
  BY TilingSeen
<1>a. \A l : l \in L <=> \E c \in C : \E k \in DOMAIN c.lines : l = <<c, k>>
  BY DEF LinesOf
<1> HIDE DEF L
<1>b. ASSUME NEW l \in L
      PROVE  \E c \in C : \E k \in DOMAIN c.lines :
               l = <<c, k>> /\ owner[l] = c /\ exact[l] = Exact(w, c, k, part)
  <2>1. PICK c \in C : \E k \in DOMAIN c.lines : l = <<c, k>>
    BY <1>a
  <2>2. PICK k \in DOMAIN c.lines : l = <<c, k>>
    BY <2>1
  <2>3. l[1] = c /\ l[2] = k
    BY <2>2
  <2> QED
    BY <2>2, <2>3
<1>c. \A c \in C : \A k \in DOMAIN c.lines :
        <<c, k>> \in L /\ owner[<<c, k>>] = c /\ exact[<<c, k>>] = Exact(w, c, k, part)
  BY <1>a
<1> HIDE DEF owner, exact, cover
<1>2. ASSUME NEW c \in C
      PROVE  /\ c.from \in Days /\ c.to \in Days /\ DOMAIN c.lines = Tenants(c.from, c.to)
             /\ IsFiniteSet(DOMAIN c.lines)
             /\ \A k \in DOMAIN c.lines : Exact(w, c, k, part) \in Int
             /\ SumFunctionOnSet([k \in DOMAIN c.lines |-> Exact(w, c, k, part)], DOMAIN c.lines) = whole[c]
  <2>1. c.from \in Days /\ c.to \in Days
    BY <1>1, CalcTyped
  <2>2. DOMAIN c.lines = Tenants(c.from, c.to)
    BY <1>1 DEF Explained, CalcExplained
  <2> QED
    BY <2>1, <2>2, LinesOfOne
<1>3. ASSUME NEW c \in C
      PROVE  /\ IsFiniteSet(Of(c)) /\ (\A l : l \in Of(c) <=> l \in L /\ owner[l] = c)
             /\ SumFunctionOnSet(exact, Of(c)) = whole[c]
  <2> DEFINE T == DOMAIN c.lines  h == [k \in T |-> <<c, k>>]
             g == [k \in T |-> Exact(w, c, k, part)]
  <2>1. \A k \in T : <<c, k>> \in L /\ exact[<<c, k>>] = Exact(w, c, k, part) /\ exact[<<c, k>>] \in Int
    BY <1>c, <1>2
  <2>2. \A l \in L : owner[l] = c => l \in Of(c)
    BY <1>b
  <2>3. \A l \in Of(c) : l \in L /\ owner[l] = c
    BY <1>c
  <2>4. \A l : l \in Of(c) <=> l \in L /\ owner[l] = c
    BY <2>2, <2>3
  <2>5. /\ \A k \in T : exact[h[k]] \in Int /\ g[k] = exact[h[k]]
        /\ \A j, k \in T : h[j] = h[k] => j = k
    BY <2>1
  <2>6. \A l : l \in Of(c) <=> \E k \in T : l = h[k]
    OBVIOUS
  <2>7. IsFiniteSet(T) /\ SumFunctionOnSet(g, T) = whole[c]
    BY <1>2
  <2> DEFINE I == Of(c)
  <2> HIDE DEF h, T, whole, Of, cost, D, g, I
  <2>8. IsFiniteSet(I) /\ SumFunctionOnSet(exact, I) = SumFunctionOnSet(g, T)
    <3>1. \A l : l \in I <=> \E k \in T : l = h[k]
      BY <2>6 DEF I
    <3> QED
      BY <2>5, <2>7, <3>1, SumThrough
  <2> QED
    BY <2>4, <2>7, <2>8 DEF I
<1>4. IsFiniteSet(L)
  <2> DEFINE f == [c \in C |-> Of(c)]  S == {f[c] : c \in C}
  <2>1. \A T \in S : IsFiniteSet(T)
    BY <1>3
  <2>2. L = UNION S
    BY DEF L, LinesOf
  <2>3. IsFiniteSet(S)
    <3> HIDE DEF f
    <3> QED
      BY <1>1, ImageFinite
  <2> HIDE DEF S
  <2> QED
    BY <2>1, <2>2, <2>3, FS_UNION
<1>5. \A l \in L : exact[l] \in Int /\ owner[l] \in C
  BY <1>b, <1>2
<1>6. SumFunctionOnSet(exact, L) = SumFunctionOnSet(whole, C)
  <2> DEFINE group == [c \in C |-> Of(c)]
  <2>1. ASSUME NEW c \in C, NEW l PROVE l \in group[c] <=> l \in L /\ owner[l] = c
    <3> HIDE DEF Of, whole
    <3> QED
      BY <1>3
  <2>2. \A c \in C : whole[c] = SumFunctionOnSet(exact, group[c])
    <3> HIDE DEF Of, whole
    <3> QED
      BY <1>3
  <2> HIDE DEF whole, D, cost, Of, group
  <2> QED
    <3>1. IsFiniteSet(L) /\ IsFiniteSet(C)
      BY <1>1, <1>4
    <3>2. \A x \in L : exact[x] \in Int /\ owner[x] \in C
      BY <1>5
    <3>3. \A k \in C : \A x : x \in group[k] <=> x \in L /\ owner[x] = k
      BY <2>1
    <3>4. \A k \in C : whole[k] = SumFunctionOnSet(exact, group[k])
      BY <2>2
    <3> QED
      BY <3>1, <3>2, <3>3, <3>4, SumInGroups
<1>7. IsFiniteSet(D) /\ D \subseteq Days
  BY TilingEnds, DaysFinite
<1>8. \A d \in D : cost[d] \in Int /\ cover[d] \in C
  <2>1. \A d \in D : cover[d] \in C
    BY TilingCover DEF cover
  <2>2. \A d \in D : cost[d] \in Int
    <3> HIDE DEF D
    <3> QED
      BY <1>7, DayTotalTyped
  <2> QED
    BY <2>1, <2>2
<1>9. SumFunctionOnSet(cost, D) = SumFunctionOnSet(whole, C)
  <2> DEFINE group == [c \in C |-> c.from..c.to]
  <2>1. ASSUME NEW c \in C, NEW d PROVE d \in group[c] <=> d \in D /\ cover[d] = c
    <3>1. {e \in D : Cover(C, e) = c} = c.from..c.to
      BY TilingCover
    <3>2. \A e \in D : cover[e] = Cover(C, e)
      BY DEF cover
    <3> QED
      BY <3>1, <3>2
  <2>2. \A c \in C : whole[c] = SumFunctionOnSet(cost, group[c])
    <3> HIDE DEF cost
    <3> QED
      OBVIOUS
  <2> HIDE DEF whole, D, cost, group
  <2> QED
    BY <1>1, <1>7, <1>8, <2>1, <2>2, SumInGroups
<1>10. SumFunctionOnSet(exact, L) = SumFunctionOnSet(cost, D)
  BY <1>6, <1>9
<1> QED
  BY <1>4, <1>10 DEF CostTotal, L, exact

\* So what the lines charge is near what the days cost, by half a digit a line.
LEMMA TilingCharged ==
    ASSUME Typed, Explained, NEW C \in Tilings, NEW v \in Seen(C), NEW w \in [Days -> Due],
           TilingCosts(C, v, w), NEW part \in {"usage", "value"}
    PROVE  /\ IsFiniteSet(LinesOf(C)) /\ Cardinality(LinesOf(C)) \in Nat
           /\ CostTotal(C, w, part) \in Int /\ LineTotal(C, part) \in Int
           /\ 2 * CostTotal(C, w, part) - Unit * Cardinality(LinesOf(C)) <= 2 * (Unit * LineTotal(C, part))
           /\ 2 * (Unit * LineTotal(C, part)) <= 2 * CostTotal(C, w, part) + Unit * Cardinality(LinesOf(C))
<1> DEFINE L == LinesOf(C)  exact == [l \in L |-> Exact(w, l[1], l[2], part)]
           got == [l \in L |-> l[1].lines[l[2]][part]]
<1>1. IsFiniteSet(L) /\ SumFunctionOnSet(exact, L) = CostTotal(C, w, part)
  BY LinesOfAll
<1>2. ASSUME NEW l \in L
      PROVE  /\ exact[l] \in Int /\ got[l] \in Int
             /\ 2 * exact[l] - Unit <= 2 * (Unit * got[l])
             /\ 2 * (Unit * got[l]) <= 2 * exact[l] + Unit
  <2>a. PICK c \in C : l \in {<<c, k>> : k \in DOMAIN c.lines}
    BY DEF LinesOf
  <2>1. PICK k \in DOMAIN c.lines : l = <<c, k>>
    BY <2>a
  <2> DEFINE x == Exact(w, c, k, part)
  <2>2. exact[l] = x /\ got[l] = c.lines[k][part]
    BY <2>1
  <2>3. got[l] = Rounded(x)
    BY <2>2 DEF TilingCosts
  <2>4. c.from \in Days /\ c.to \in Days
    BY CalcTyped DEF Tilings
  <2>5. x \in Int
    BY <2>4, ExactSame
  <2> HIDE DEF x
  <2>6. Rounded(x) \in Int /\ 2 * x - Unit <= 2 * (Unit * Rounded(x)) /\ 2 * (Unit * Rounded(x)) <= 2 * x + Unit
    BY <2>5, RoundedTyped, RoundedNear
  <2> HIDE DEF exact, got
  <2> QED
    BY <2>2, <2>3, <2>5, <2>6
<1> DEFINE e == SumFunctionOnSet(exact, L)  g == SumFunctionOnSet(got, L)
<1> HIDE DEF exact, got, L
<1>3. /\ e \in Int /\ g \in Int
      /\ 2 * e - Unit * Cardinality(L) <= 2 * (Unit * g)
      /\ 2 * (Unit * g) <= 2 * e + Unit * Cardinality(L)
  BY <1>1, <1>2, NearSums
<1>4. g = LineTotal(C, part)
  BY DEF LineTotal, got, L
<1>5. Cardinality(L) \in Nat
  BY <1>1, FS_CardinalityType
<1> HIDE DEF e, g
<1>6. e = CostTotal(C, w, part)
  BY <1>1 DEF e
<1> QED
  BY <1>1, <1>3, <1>4, <1>5, <1>6 DEF L

(***************************************************************************)
(* Shares are exact, because every divisor divides the unit.               *)
(***************************************************************************)

LEMMA ExactQuotient ==
    ASSUME NEW x \in Int, NEW p \in Nat \ {0}
    PROVE  (x * p) \div p = x
<1> DEFINE y == x * p  d == y \div p
<1>1. y \in Int
  OBVIOUS
<1>2. d \in Int /\ p * d <= y /\ y < p * d + p
  <2> HIDE DEF y
  <2> QED
    BY <1>1
<1> HIDE DEF d
<1>3. p * (x - d) = y - p * d
  BY <1>2
<1> DEFINE e == x - d
<1>4. e \in Int /\ 0 <= p * e /\ p * e < p
  BY <1>1, <1>2, <1>3
<1> HIDE DEF e
<1>5. e = 0
  <2>1. e >= 1 => p * e >= p
    BY <1>4
  <2>2. e <= -1 => p * e <= -p
    BY <1>4
  <2> QED
    BY <1>4, <2>1, <2>2
<1>6. x = d
  BY <1>2, <1>5 DEF e
<1> QED
  BY <1>6 DEF d, y

LEMMA ShareExact ==
    ASSUME NEW a \in Int, NEW days \in 1..LastDay, NEW n \in 1..(Cardinality(Contracts) + 2)
    PROVE  /\ days * n \in Nat \ {0} /\ Share(a, days * n) \in Int
           /\ (days * n) * Share(a, days * n) = a * Unit
<1>1. days \in Nat \ {0} /\ n \in Nat \ {0}
  BY DaysAre, FS_CardinalityType DEF ContractsAssumption
<1> DEFINE p == days * n
<1>2. p \in Nat \ {0}
  BY <1>1
<1>3. Unit % p = 0 /\ Unit \in Nat
  BY UnitAssumption DEF UnitAssumption
<1> HIDE DEF p
<1> DEFINE q == Unit \div p
<1>4. q \in Int /\ Unit = p * q
  BY <1>2, <1>3
<1> HIDE DEF q
<1>5. a * Unit = (a * q) * p /\ a * q \in Int
  BY <1>2, <1>4
<1>6. Share(a, p) = a * q
  BY <1>2, <1>5, ExactQuotient DEF Share
<1>7. p * (a * q) = (a * q) * p
  BY <1>2, <1>5
<1> QED
  BY <1>2, <1>5, <1>6, <1>7 DEF p

\* The unit cancels.
LEMMA NearExact ==
    ASSUME NEW t \in Int, NEW x \in Int, NEW n \in Nat,
           2 * (x * Unit) - Unit * n <= 2 * (Unit * t), 2 * (Unit * t) <= 2 * (x * Unit) + Unit * n
    PROVE  2 * Magnitude(t - x) <= n
<1>1. Unit \in Nat \ {0}
  BY UnitAssumption DEF UnitAssumption
<1> DEFINE a == 2 * (t - x) - n  b == 2 * (x - t) - n
<1>2. Unit * a = 2 * (Unit * t) - 2 * (x * Unit) - Unit * n
  BY <1>1
<1>3. Unit * b = 2 * (x * Unit) - 2 * (Unit * t) - Unit * n
  BY <1>1
<1>4. Unit * a <= 0 /\ Unit * b <= 0 /\ a \in Int /\ b \in Int
  <2>1. Unit * t \in Int /\ x * Unit \in Int /\ Unit * n \in Int
    BY <1>1
  <2>2. a \in Int /\ b \in Int
    OBVIOUS
  <2> HIDE DEF a, b
  <2> QED
    BY <1>2, <1>3, <2>1, <2>2
<1>5. a <= 0 /\ b <= 0
  <2> HIDE DEF a, b
  <2>1. a >= 1 => Unit * a >= 1
    BY <1>1, <1>4
  <2>2. b >= 1 => Unit * b >= 1
    BY <1>1, <1>4
  <2> QED
    BY <1>1, <1>4, <2>1, <2>2
<1> QED
  BY <1>5 DEF Magnitude

\* Summands that are one number, or at most that number, when multiplied by M.
LEMMA SumOfParts ==
    ASSUME NEW f, NEW S, IsFiniteSet(S), NEW M \in Int, NEW y \in Int,
           \A x \in S : f[x] \in Int
    PROVE  /\ (\A x \in S : M * f[x] = y) => M * SumFunctionOnSet(f, S) = y * Cardinality(S)
           /\ (\A x \in S : M * f[x] <= y) => M * SumFunctionOnSet(f, S) <= y * Cardinality(S)
<1> DEFINE g == [x \in S |-> M * f[x]]  h == [x \in S |-> y]
<1>1. SumFunctionOnSet(g, S) = M * SumFunctionOnSet(f, S)
  BY SumScales
<1>2. \A x \in S : g[x] = M * f[x] /\ g[x] \in Int /\ h[x] = y
  OBVIOUS
<1> HIDE DEF g, h
<1>3. SumFunctionOnSet(h, S) = y * Cardinality(S)
  BY <1>2, SumOfConstant
<1>4. ASSUME \A x \in S : M * f[x] = y PROVE SumFunctionOnSet(g, S) = y * Cardinality(S)
  <2>1. \A x \in S : g[x] = y
    BY <1>2, <1>4
  <2> QED
    BY <2>1, SumOfConstant
<1>5. ASSUME \A x \in S : M * f[x] <= y PROVE SumFunctionOnSet(g, S) <= SumFunctionOnSet(h, S)
  <2>1. \A x \in S : g[x] \in Int /\ h[x] \in Int /\ g[x] <= h[x]
    BY <1>2, <1>5
  <2> QED
    BY <2>1, SumLessOrEqual
<1> QED
  BY <1>1, <1>3, <1>4, <1>5

\* On a day somebody is there, and not more than there are contracts.
LEMMA TilingActive ==
    ASSUME Typed, Explained, NEW C \in Tilings, NEW v \in Seen(C), NEW d \in First(C)..Last(C)
    PROVE  /\ d \in Days /\ d \in Nat /\ v \in Versions /\ OneAmount({v})
           /\ Cardinality(Active(d)) \in 1..Cardinality(Contracts)
           /\ Cardinality(Contracts) \in Nat
<1>1. d \in Days /\ d \in Nat
  BY TilingEnds, DaysFinite, DaysAre
<1>2. Active(d) # {}
  BY DEF Tilings
<1>3. Cardinality(Active(d)) # 0
  BY <1>2, ActiveTyped, FS_EmptySet
<1>4. Cardinality(Contracts) \in Nat
  BY FS_CardinalityType DEF ContractsAssumption
<1>5. PICK c \in C : v \in c.seen
  BY DEF Seen
<1>6. OneAmount(c.seen)
  BY TilingSeen DEF Explained, CalcExplained
<1> QED
  BY <1>1, <1>3, <1>4, <1>5, <1>6, ActiveTyped, TilingSeen DEF OneAmount

(***************************************************************************)
(* Invoices.                                                               *)
(***************************************************************************)

\* The tenants of a day of the month share a day's part of the amount.
LEMMA InvoiceOfDay ==
    ASSUME Typed, Explained, kind = "invoice", NEW C \in Tilings, NEW v \in Seen(C),
           NEW w \in [Days -> Due], TilingCosts(C, v, w), NEW i \in v.invoices,
           NEW d \in First(C)..Last(C), d \in DaysOf(i.month)
    PROVE  MonthDays[i.month] * DayTotal(w, "value")[d] = i.amount * Unit
<1> DEFINE n == Cardinality(Active(d))  m == i.month  share == Share(i.amount, MonthDays[m] * n)
<1>1. n \in 1..Cardinality(Contracts) /\ Cardinality(Contracts) \in Nat /\ v \in Versions /\ d \in Days
  BY TilingActive
<1>2. m \in Months /\ i.amount \in Int
  BY <1>1, Numbers DEF Versions, Invoice
<1>3. MonthOf(d) = m
  BY <1>2, MonthOfDay
<1>4. {j \in v.invoices : j.month = m} = {i}
  <2>1. \A j \in v.invoices : j.month = m => j = i
    BY TilingActive DEF OneAmount
  <2> QED
    BY <2>1
<1>5. w[d] \in Daily(v, d, n)
  BY DEF TilingCosts
<1>6. DailyAdmin(v, d, n) = {Owed(0, share)}
  <2>1. DailyAdmin(v, d, n)
          = {Owed(0, Share(j.amount, MonthDays[m] * n)) : j \in {j \in v.invoices : j.month = m}}
    BY <1>3 DEF DailyAdmin, InvoiceDays
  <2> QED
    BY <1>4, <2>1
<1>7. n # 0
  BY <1>1
<1>8. Daily(v, d, n) = {Owed(0, share)}
  BY <1>6, <1>7 DEF Daily
<1>9. w[d].value = share
  BY <1>5, <1>8 DEF Owed
<1>10. MonthDays[m] \in 1..LastDay /\ n \in 1..(Cardinality(Contracts) + 2)
  BY <1>1, <1>2, MonthLengths
<1> HIDE DEF n, m
<1>11. share \in Int /\ (MonthDays[m] * n) * share = i.amount * Unit
  BY <1>2, <1>10, ShareExact
<1>12. DayTotal(w, "value")[d] = n * share
  BY <1>1, <1>9 DEF DayTotal, n
<1>13. MonthDays[m] \in Int /\ n \in Int
  BY <1>1, <1>2, MonthsAre
<1> HIDE DEF share
<1>14. MonthDays[m] * (n * share) = (MonthDays[m] * n) * share
  BY <1>11, <1>13
<1> QED
  BY <1>11, <1>12, <1>14 DEF m

\* Settlements of a whole month charge the amount of its invoice.
LEMMA InvoiceStep == Typed /\ Explained => InvoiceCollected
<1> SUFFICES ASSUME Typed, Explained, kind = "invoice", NEW C \in Tilings, NEW v \in Seen(C),
                    NEW i \in v.invoices, First(C)..Last(C) = DaysOf(i.month)
             PROVE  Near(TotalValue(C), i.amount, C)
  BY DEF InvoiceCollected
<1> DEFINE D == First(C)..Last(C)  m == i.month
<1>1. PICK w \in [Days -> Due] : TilingCosts(C, v, w)
  BY TilingOwed
<1>2. i.amount \in Int /\ m \in Months
  BY TilingSeen, Numbers DEF Versions, Invoice
<1>3. IsFiniteSet(D) /\ Cardinality(D) = MonthDays[m] /\ MonthDays[m] \in Nat \ {0}
  BY <1>2, DaysOfMonth, MonthsAre
<1> DEFINE cost == DayTotal(w, "value")
<1>4. \A d \in D : cost[d] \in Int
  <2>1. \A d \in D : d \in Days
    BY TilingActive
  <2> QED
    BY <2>1, DayTotalTyped
<1>5. \A d \in D : MonthDays[m] * cost[d] = i.amount * Unit
  BY <1>1, InvoiceOfDay
<1>6. i.amount * Unit \in Int /\ MonthDays[m] \in Int
  BY <1>2, <1>3, UnitAssumption DEF UnitAssumption
<1>7. CostTotal(C, w, "value") = SumFunctionOnSet(cost, D)
  BY DEF CostTotal
<1> DEFINE x == SumFunctionOnSet(cost, D)  y == i.amount * Unit  M == MonthDays[m]
<1> HIDE DEF D, cost, y, M
<1>8. M * x = y * Cardinality(D)
  BY <1>3, <1>4, <1>5, <1>6, SumOfParts DEF y, M
<1>9. x \in Int
  BY <1>3, <1>4, SumTyped
<1>10. y \in Int /\ M \in Nat \ {0} /\ Cardinality(D) = M
  BY <1>3, <1>6 DEF y, M
<1> HIDE DEF x
<1>11. x = y
  <2>1. M * x = M * y
    BY <1>8, <1>9, <1>10
  <2> QED
    BY <1>9, <1>10, <2>1
<1>12. CostTotal(C, w, "value") = i.amount * Unit
  BY <1>7, <1>11 DEF x, y
<1>13. /\ Cardinality(LinesOf(C)) \in Nat /\ LineTotal(C, "value") \in Int
       /\ 2 * (i.amount * Unit) - Unit * Cardinality(LinesOf(C)) <= 2 * (Unit * LineTotal(C, "value"))
       /\ 2 * (Unit * LineTotal(C, "value")) <= 2 * (i.amount * Unit) + Unit * Cardinality(LinesOf(C))
  BY <1>1, <1>12, TilingCharged
<1>14. 2 * Magnitude(LineTotal(C, "value") - i.amount) <= Cardinality(LinesOf(C))
  BY <1>2, <1>13, NearExact
<1> QED
  BY <1>14, Totals DEF Near

\* Settlements of a whole month, one or several, together charge the tenants what the
\* landlord's invoice of the month says, up to half a digit for each line
\* (_calc_fee_invoice_day and save_settlement).
THEOREM InvoicesCollected == Spec => []InvoiceCollected
BY InvoiceStep, TypesHold, ExplainedHolds, PTL

(***************************************************************************)
(* Shared fees.                                                            *)
(***************************************************************************)

\* The price that holds on a day is the newest of those known on it.
LEMMA PriceHolds ==
    ASSUME NEW v \in Versions, NEW days, NEW p, IsPriceOf(v, days, p), NEW d \in days, d \in Nat,
           NEW known, \A q : q \in known <=> q \in v.prices /\ q.day <= d
    PROVE  Newest(known) = {p}
<1>1. p \in v.prices /\ p.day <= d
  BY DEF IsPriceOf
<1>2. \A q \in v.prices : q = p \/ q.day < p.day \/ q.day > d
  BY DEF IsPriceOf
<1>3. \A q \in v.prices : q.day \in Nat
  BY Numbers DEF Versions, Price
<1>4. p \in Newest(known)
  BY <1>1, <1>2, <1>3 DEF Newest
<1>5. \A q \in Newest(known) : q = p
  BY <1>1, <1>2, <1>3 DEF Newest
<1> QED
  BY <1>4, <1>5

\* Products keep their order.
LEMMA TimesGrows ==
    ASSUME NEW k \in Nat, NEW a \in Int, NEW b \in Int, a <= b
    PROVE  k * a <= k * b
<1>1. k * (b - a) >= 0
  OBVIOUS
<1>2. k * (b - a) = k * b - k * a /\ k * a \in Int /\ k * b \in Int
  OBVIOUS
<1> QED
  BY <1>1, <1>2

\* n of s or more shares are no more than what is shared.
LEMMA SomeShares ==
    ASSUME NEW days \in Nat \ {0}, NEW n \in Nat, NEW s \in Nat \ {0}, n <= s, NEW share \in Int,
           NEW all \in Nat, (days * s) * share = all
    PROVE  days * (n * share) <= all
<1> DEFINE k == days * s
<1>1. k \in Nat \ {0} /\ k * share = all
  OBVIOUS
<1> HIDE DEF k
<1>2. share >= 0
  <2>1. share <= -1 => k * share <= k * (-1)
    BY <1>1, TimesGrows
  <2>2. k * (-1) < 0
    BY <1>1
  <2>3. k * (-1) \in Int
    BY <1>1
  <2> QED
    BY <1>1, <2>1, <2>2, <2>3
<1>3. share * n <= share * s
  BY <1>2, TimesGrows
<1>4. n * share = share * n /\ share * s = s * share /\ n * share \in Int /\ s * share \in Int
  OBVIOUS
<1>5. days * (n * share) <= days * (s * share)
  <2> DEFINE a == n * share  b == s * share
  <2>1. a \in Int /\ b \in Int /\ a <= b
    BY <1>3, <1>4
  <2> HIDE DEF a, b
  <2>2. days * a <= days * b
    BY <2>1, TimesGrows
  <2> QED
    BY <2>2 DEF a, b
<1>6. days * (s * share) = (days * s) * share
  OBVIOUS
<1> QED
  BY <1>5, <1>6

\* The unit cancels here too: t is what the lines charge, x what the days cost in units.
LEMMA PriceExact ==
    ASSUME NEW L \in Nat, NEW M \in Nat, NEW n \in Nat, NEW t \in Int, NEW x \in Int, NEW price \in Int,
           L * x <= (price * Unit) * M, 2 * (Unit * t) <= 2 * x + Unit * n
    PROVE  2 * (t * L - price * M) <= L * n
<1>1. Unit \in Nat \ {0}
  BY UnitAssumption DEF UnitAssumption
<1>2. L * (2 * (Unit * t)) <= L * (2 * x + Unit * n)
  <2> DEFINE a == 2 * (Unit * t)  b == 2 * x + Unit * n
  <2>1. a \in Int /\ b \in Int /\ a <= b
    BY <1>1
  <2> HIDE DEF a, b
  <2>2. L * a <= L * b
    BY <2>1, TimesGrows
  <2> QED
    BY <2>2 DEF a, b
<1> DEFINE a == t * L  b == price * M  c == L * n
<1>3. L * (2 * (Unit * t)) = Unit * (2 * a)
  BY <1>1
<1>4. L * (2 * x + Unit * n) = 2 * (L * x) + Unit * c
  BY <1>1
<1>5. (price * Unit) * M = Unit * b
  BY <1>1
<1>6. a \in Int /\ b \in Int /\ c \in Int /\ L * x \in Int
  OBVIOUS
<1> HIDE DEF a, b, c
<1> DEFINE e == 2 * (a - b) - c  z == L * x  g == Unit * (2 * a)  h == Unit * b  i == Unit * c
<1>7. Unit * e = g - 2 * h - i
  BY <1>1, <1>6
<1>8. e \in Int /\ z \in Int /\ g \in Int /\ h \in Int /\ i \in Int
  BY <1>1, <1>6
<1>9. z <= h /\ g <= 2 * z + i
  BY <1>2, <1>3, <1>4, <1>5
<1> HIDE DEF e, z, g, h, i
<1>10. Unit * e <= 0
  BY <1>7, <1>8, <1>9
<1>11. e >= 1 => Unit * 1 <= Unit * e
  BY <1>1, <1>8, TimesGrows
<1>12. e <= 0
  BY <1>1, <1>8, <1>10, <1>11
<1>13. 2 * (a - b) <= c
  BY <1>6, <1>12 DEF e
<1> QED
  BY <1>13 DEF a, b, c

\* The tenants of a day never owe more together than a day of the month that the engine counts.
LEMMA SharedOfDay ==
    ASSUME Typed, Explained, kind = "shared", NEW C \in Tilings, NEW v \in Seen(C),
           NEW w \in [Days -> Due], TilingCosts(C, v, w), NEW m \in Months, NEW p \in v.prices,
           First(C)..Last(C) = DaysOf(m), IsPriceOf(v, First(C)..Last(C), p),
           NEW d \in First(C)..Last(C), beds = 0 \/ Cardinality(Active(d)) <= beds
    PROVE  LegacyDays[m] * DayTotal(w, "value")[d] <= p.price * Unit
<1> DEFINE n == Cardinality(Active(d))  s == Splitter(n)  share == Share(p.price, LegacyDays[m] * s)
<1>1. /\ n \in 1..Cardinality(Contracts) /\ Cardinality(Contracts) \in Nat
      /\ v \in Versions /\ d \in Days /\ d \in Nat
  BY TilingActive
<1>2. p.price \in Nat
  BY <1>1, Numbers DEF Versions, Price
<1>3. MonthOf(d) = m
  BY MonthOfDay
<1> DEFINE known == {q \in v.prices : q.day <= d}
<1>4. Newest(known) = {p}
  <2>1. \A q : q \in known <=> q \in v.prices /\ q.day <= d
    OBVIOUS
  <2> HIDE DEF known
  <2> QED
    BY <1>1, <2>1, PriceHolds
<1>5. w[d] \in Daily(v, d, n)
  BY DEF TilingCosts
<1>6. DailyAdmin(v, d, n) = {Owed(0, share)}
  <2>1. DailyAdmin(v, d, n)
          = {Owed(0, Share(q.price, LegacyDays[m] * s)) : q \in Newest({r \in v.prices : r.day <= d})}
    BY <1>3 DEF DailyAdmin
  <2>2. DailyAdmin(v, d, n) = {Owed(0, Share(q.price, LegacyDays[m] * s)) : q \in {p}}
    BY <1>4, <2>1
  <2> QED
    BY <2>2
<1>7. n # 0
  BY <1>1
<1>8. Daily(v, d, n) = {Owed(0, share)}
  BY <1>6, <1>7 DEF Daily
<1>9. w[d].value = share
  BY <1>5, <1>8 DEF Owed
<1>10. s \in Nat \ {0} /\ s <= n + 2 /\ n <= s
  <2>1. beds \in Bedrooms /\ n \in Nat \ {0}
    BY <1>1 DEF Typed, TypeOK
  <2> QED
    BY <2>1, SplitterTyped
<1>11. DayTotal(w, "value")[d] = n * share
  BY <1>1, <1>9 DEF DayTotal
<1>12. LegacyDays[m] \in 1..LastDay /\ LegacyDays[m] \in Nat \ {0}
  BY MonthLengths, MonthsAre
<1> HIDE DEF n, s
<1>13. s \in 1..(Cardinality(Contracts) + 2) /\ n \in Nat
  BY <1>1, <1>10
<1>14. share \in Int /\ (LegacyDays[m] * s) * share = p.price * Unit
  <2> DEFINE a == p.price  l == LegacyDays[m]
  <2>1. a \in Int /\ l \in 1..LastDay
    BY <1>2, <1>12
  <2> HIDE DEF a, l
  <2>2. Share(a, l * s) \in Int /\ (l * s) * Share(a, l * s) = a * Unit
    BY <1>13, <2>1, ShareExact
  <2> QED
    BY <2>2 DEF a, l
<1>15. p.price * Unit \in Nat
  BY <1>2, UnitAssumption DEF UnitAssumption
<1> HIDE DEF share
<1> DEFINE all == p.price * Unit
<1> HIDE DEF all
<1>16. LegacyDays[m] * (n * share) <= all
  BY <1>10, <1>12, <1>13, <1>14, <1>15, SomeShares DEF all
<1> QED
  BY <1>11, <1>16 DEF all

\* What the days of a whole month cost is no more than the price of the days that the month
\* really has.
LEMMA SharedStep == Typed /\ Explained => SharedWithinPrice
<1> SUFFICES ASSUME Typed, Explained, kind = "shared", NEW C \in Tilings, NEW v \in Seen(C),
                    NEW m \in Months, NEW p \in v.prices, First(C)..Last(C) = DaysOf(m),
                    IsPriceOf(v, First(C)..Last(C), p),
                    beds = 0 \/ \A d \in First(C)..Last(C) : Cardinality(Active(d)) <= beds
             PROVE  2 * (TotalValue(C) * LegacyDays[m] - p.price * MonthDays[m])
                      <= LegacyDays[m] * Cardinality(LinesOf(C))
  BY DEF SharedWithinPrice
<1>1. PICK w \in [Days -> Due] : TilingCosts(C, v, w)
  BY TilingOwed
<1> DEFINE D == First(C)..Last(C)  cost == DayTotal(w, "value")
           x == SumFunctionOnSet(cost, D)  y == p.price * Unit  M == MonthDays[m]  L == LegacyDays[m]
           N == Cardinality(LinesOf(C))  t == LineTotal(C, "value")
<1>2. p.price \in Int
  BY TilingSeen, Numbers DEF Versions, Price
<1>3. IsFiniteSet(D) /\ Cardinality(D) = M /\ M \in Nat \ {0} /\ L \in Nat \ {0}
  BY DaysOfMonth, MonthsAre
<1>4. \A d \in D : cost[d] \in Int
  <2>1. \A d \in D : d \in Days
    BY TilingActive
  <2> QED
    BY <2>1, DayTotalTyped
<1>5. \A d \in D : L * cost[d] <= y
  BY <1>1, SharedOfDay
<1>6. y \in Int
  BY <1>2, UnitAssumption DEF UnitAssumption
<1>7. CostTotal(C, w, "value") = x
  BY DEF CostTotal
<1> HIDE DEF D, cost, y, M, L
<1>8. L * x <= y * M
  <2>1. y * Cardinality(D) = y * M /\ L \in Int
    BY <1>3
  <2>2. L * x <= y * Cardinality(D)
    BY <1>3, <1>4, <1>5, <1>6, <2>1, SumOfParts
  <2> QED
    BY <2>1, <2>2
<1>9. x \in Int
  BY <1>3, <1>4, SumTyped
<1> HIDE DEF x
<1>10. N \in Nat /\ t \in Int /\ 2 * (Unit * t) <= 2 * x + Unit * N
  BY <1>1, <1>7, TilingCharged
<1>11. L * x <= (p.price * Unit) * M
  BY <1>8 DEF y
<1> HIDE DEF N, t
<1>12. 2 * (t * L - p.price * M) <= L * N
  BY <1>2, <1>3, <1>9, <1>10, <1>11, PriceExact
<1>13. t = TotalValue(C)
  BY Totals DEF t
<1> QED
  BY <1>12, <1>13 DEF L, M, N

\* The tenants of a shared fee together never pay more than it costs, while they fit the
\* flat, but for the days of a leap February that are not counted (_calc_fee_shared_day).
THEOREM SharedFeesBounded == Spec => []SharedWithinPrice
BY SharedStep, TypesHold, ExplainedHolds, PTL

(***************************************************************************)
(* Meters.                                                                 *)
(***************************************************************************)

LEMMA NewestExists ==
    ASSUME NEW rows, rows # {}, NEW bound \in Nat, \A r \in rows : r.day \in Nat /\ r.day <= bound
    PROVE  Newest(rows) # {}
<1> DEFINE T == {r.day : r \in rows}
<1>1. T \in SUBSET Nat /\ T # {} /\ \A x \in T : x <= bound
  OBVIOUS
<1> HIDE DEF T
<1>2. PICK x \in T : \A y \in T : y <= x
  BY <1>1, GreatestNatural
<1>3. PICK r \in rows : r.day = x
  BY DEF T
<1>4. \A s \in rows : s.day <= r.day
  BY <1>2, <1>3 DEF T
<1> QED
  BY <1>4 DEF Newest

\* Readings with no other between them.
Neighbours(v, r, s) ==
    /\ r \in v.readings /\ s \in v.readings /\ r.day < s.day
    /\ \A q \in v.readings : q.day <= r.day \/ s.day <= q.day

\* They are what the engine finds around the days between them.
LEMMA ReadingsFound ==
    ASSUME NEW v \in Versions, NoCopies(v), NEW r, NEW s, Neighbours(v, r, s),
           NEW d \in (r.day + 1)..s.day,
           NEW earlier, \A q : q \in earlier <=> q \in v.readings /\ q.day < d,
           NEW later, \A q : q \in later <=> q \in v.readings /\ q.day >= d
    PROVE  Newest(earlier) = {r} /\ Oldest(later) = {s}
<1>1. \A q \in v.readings : q.day \in Nat
  BY Numbers DEF Versions, Reading
<1>2. \A p, q \in v.readings : p.day = q.day => p = q
  BY DEF NoCopies, IsReadingOf
<1>3. /\ r \in v.readings /\ s \in v.readings /\ r.day < d /\ d <= s.day /\ d \in Int
      /\ \A q \in v.readings : q.day <= r.day \/ s.day <= q.day
  BY <1>1 DEF Neighbours
<1>4. r \in Newest(earlier) /\ \A q \in Newest(earlier) : q = r
  <2>1. \A q \in earlier : q.day <= r.day
    BY <1>1, <1>3
  <2>2. r \in earlier
    BY <1>3
  <2>3. r \in Newest(earlier)
    BY <2>1, <2>2 DEF Newest
  <2>4. ASSUME NEW q \in Newest(earlier) PROVE q = r
    <3>1. q \in earlier /\ r.day <= q.day
      BY <2>2 DEF Newest
    <3> QED
      BY <1>1, <1>2, <1>3, <2>1, <3>1
  <2> QED
    BY <2>3, <2>4
<1>5. s \in Oldest(later) /\ \A q \in Oldest(later) : q = s
  <2>1. \A q \in later : s.day <= q.day
    BY <1>1, <1>3
  <2>2. s \in later
    BY <1>3
  <2>3. s \in Oldest(later)
    BY <2>1, <2>2 DEF Oldest
  <2>4. ASSUME NEW q \in Oldest(later) PROVE q = s
    <3>1. q \in later /\ q.day <= s.day
      BY <2>2 DEF Oldest
    <3> QED
      BY <1>1, <1>2, <1>3, <2>1, <3>1
  <2> QED
    BY <2>3, <2>4
<1> QED
  BY <1>4, <1>5

\* The tenants of a day share a day's part of what the meter showed from one reading to the
\* next, each unit at a price dated before the day.
LEMMA MeterOfDay ==
    ASSUME Typed, Explained, kind = "meter", NEW C \in Tilings, NEW v \in Seen(C),
           NEW w \in [Days -> Due], TilingCosts(C, v, w), NoCopies(v),
           NEW r, NEW s, Neighbours(v, r, s),
           NEW d \in First(C)..Last(C), d \in (r.day + 1)..s.day,
           \E p \in v.prices : p.day < d
    PROVE  /\ (s.day - r.day) * DayTotal(w, "usage")[d] = (s.value - r.value) * Unit
           /\ \E p \in CounterPrice(v, d) : DayTotal(w, "value")[d] = p.price * DayTotal(w, "usage")[d]
<1> DEFINE n == Cardinality(Active(d))  gap == s.day - r.day
           share == Share(s.value - r.value, gap * n)
           earlier == {q \in v.readings : q.day < d}
           dated == {p \in v.prices : p.day < d}
           beg == Newest(earlier)  end == ReadUntil(v, d)  price == CounterPrice(v, d)
<1>1. /\ n \in 1..Cardinality(Contracts) /\ Cardinality(Contracts) \in Nat
      /\ v \in Versions /\ d \in Days /\ d \in Nat
  BY TilingActive
<1>2. beg = {r} /\ end = {s}
  <2> DEFINE later == {q \in v.readings : q.day >= d}
  <2>1. /\ \A q : q \in earlier <=> q \in v.readings /\ q.day < d
        /\ \A q : q \in later <=> q \in v.readings /\ q.day >= d
    OBVIOUS
  <2> HIDE DEF earlier, later
  <2>2. Newest(earlier) = {r} /\ Oldest(later) = {s}
    BY <1>1, <2>1, ReadingsFound
  <2> QED
    BY <2>2 DEF ReadUntil, later
<1>3. \A p \in v.prices : p.day \in Nat /\ p.price \in Int
  BY <1>1, Numbers DEF Versions, Price
<1>4. price # {} /\ price \subseteq v.prices
  <2>1. dated # {} /\ \A p \in dated : p.day \in Nat /\ p.day <= d
    BY <1>1, <1>3
  <2>2. price = Newest(dated)
    BY DEF CounterPrice
  <2> HIDE DEF dated
  <2>3. price # {}
    BY <1>1, <2>1, <2>2, NewestExists
  <2>4. price \subseteq dated
    BY <2>2 DEF Newest
  <2> QED
    BY <2>3, <2>4 DEF dated
<1>5. w[d] \in Daily(v, d, n)
  BY DEF TilingCosts
<1>6. DailyCounter(v, d, n) = {Owed(share, share * p.price) : p \in price}
  <2>1. DailyCounter(v, d, n)
          = {Owed(Share(t.value - q.value, (t.day - q.day) * n),
                  Share(t.value - q.value, (t.day - q.day) * n) * p.price) :
               q \in beg, t \in end, p \in price}
    BY DEF DailyCounter
  <2> HIDE DEF beg, end, price
  <2>2. DailyCounter(v, d, n)
          = {Owed(Share(t.value - q.value, (t.day - q.day) * n),
                  Share(t.value - q.value, (t.day - q.day) * n) * p.price) :
               q \in {r}, t \in {s}, p \in price}
    BY <1>2, <2>1
  <2> QED
    BY <2>2
<1> HIDE DEF share, price
<1>7. PICK p \in price : w[d] = Owed(share, share * p.price)
  <2>1. DailyCounter(v, d, n) # {}
    BY <1>4, <1>6
  <2>2. n # 0
    BY <1>1
  <2>3. Daily(v, d, n) = DailyCounter(v, d, n)
    BY <2>1, <2>2 DEF Daily
  <2> QED
    BY <1>5, <1>6, <2>3
<1>8. r \in Reading /\ s \in Reading /\ r.day < s.day
  BY <1>1 DEF Neighbours, Versions
<1>9. /\ r.value \in Int /\ s.value \in Int /\ r.day \in Nat /\ s.day \in Nat /\ LastDay \in Nat
      /\ s.day <= LastDay
  BY <1>8, Numbers, DaysAre DEF Reading
<1>10. gap \in 1..LastDay /\ s.value - r.value \in Int /\ n \in 1..(Cardinality(Contracts) + 2)
  BY <1>1, <1>8, <1>9
<1> HIDE DEF gap, n
<1> DEFINE rise == s.value - r.value
<1> HIDE DEF rise
<1>11. share \in Int /\ (gap * n) * share = rise * Unit
  <2>1. share = Share(rise, gap * n)
    BY DEF share, rise
  <2>2. rise \in Int
    BY <1>10 DEF rise
  <2> QED
    BY <1>10, <2>1, <2>2, ShareExact
<1>12. DayTotal(w, "usage")[d] = n * share /\ DayTotal(w, "value")[d] = n * (share * p.price)
  BY <1>1, <1>7 DEF DayTotal, Owed, n
<1>13. gap \in Int /\ n \in Int /\ p.price \in Int
  BY <1>1, <1>3, <1>4, <1>10
<1> DEFINE a == p.price
<1>14. (gap * n) * share = gap * (n * share) /\ n * (share * a) = a * (n * share)
  <2> HIDE DEF a
  <2>1. a \in Int
    BY <1>13 DEF a
  <2> QED
    BY <1>11, <1>13, <2>1
<1> QED
  BY <1>7, <1>11, <1>12, <1>14 DEF gap, rise, price

\* From one reading to the next the days cost what the meter showed.
LEMMA CostOfGap ==
    ASSUME Typed, Explained, kind = "meter", NEW C \in Tilings, NEW v \in Seen(C),
           NEW w \in [Days -> Due], TilingCosts(C, v, w), NoCopies(v),
           NEW r, NEW s, Neighbours(v, r, s), (r.day + 1)..s.day \subseteq First(C)..Last(C),
           \E p \in v.prices : p.day < First(C)
    PROVE  SumFunctionOnSet(DayTotal(w, "usage"), (r.day + 1)..s.day) = (s.value - r.value) * Unit
<1> DEFINE D == (r.day + 1)..s.day  cost == DayTotal(w, "usage")
           gap == s.day - r.day  all == (s.value - r.value) * Unit  x == SumFunctionOnSet(cost, D)
<1>1. v \in Versions
  BY TilingSeen
<1>2. r \in Reading /\ s \in Reading /\ r.day < s.day
  BY <1>1 DEF Neighbours, Versions
<1>3. r.value \in Int /\ s.value \in Int /\ r.day \in Nat /\ s.day \in Nat
  BY <1>2, Numbers DEF Reading
<1>4. gap \in Nat \ {0} /\ all \in Int /\ gap \in Int
  BY <1>2, <1>3, UnitAssumption DEF UnitAssumption
<1>5. IsFiniteSet(D) /\ Cardinality(D) = gap
  <2>1. r.day + 1 \in Int /\ s.day \in Int
    BY <1>3
  <2>2. IsFiniteSet(D) /\ Cardinality(D) = IF r.day + 1 > s.day THEN 0 ELSE s.day - (r.day + 1) + 1
    BY <2>1, FS_Interval
  <2> QED
    BY <1>2, <1>3, <2>2
<1>6. /\ First(C) \in Nat /\ \A p \in v.prices : p.day \in Nat
      /\ \A d \in First(C)..Last(C) : d \in Days /\ d \in Nat
  BY <1>1, TilingEnds, TilingActive, Numbers DEF Versions, Price
<1>7. ASSUME NEW d \in D PROVE gap * cost[d] = all /\ cost[d] \in Int
  <2>1. d \in First(C)..Last(C) /\ d \in Days
    BY <1>6
  <2>2. \E p \in v.prices : p.day < d
    BY <1>6, <2>1
  <2>3. gap * cost[d] = all
    BY <2>1, <2>2, MeterOfDay
  <2>4. cost[d] \in Int
    BY <2>1, DayTotalTyped
  <2> QED
    BY <2>3, <2>4
<1> HIDE DEF D, cost, gap, all
<1>8. gap * x = all * Cardinality(D)
  BY <1>4, <1>5, <1>7, SumOfParts
<1>9. x \in Int
  BY <1>5, <1>7, SumTyped
<1> HIDE DEF x
<1>10. gap * x = gap * all
  BY <1>4, <1>5, <1>8
<1>11. x = all
  BY <1>4, <1>9, <1>10
<1> QED
  BY <1>11 DEF x, D, cost, all

\* And so they do from the first to the last reading, whatever is read in between.
LEMMA CostOfMeter ==
    ASSUME Typed, Explained, kind = "meter", NEW C \in Tilings, NEW v \in Seen(C),
           NEW w \in [Days -> Due], TilingCosts(C, v, w), NoCopies(v),
           NEW b \in v.readings, NEW e \in v.readings, b.day = First(C) - 1, e.day = Last(C),
           \E p \in v.prices : p.day < First(C)
    PROVE  CostTotal(C, w, "usage") = (e.value - b.value) * Unit
<1> DEFINE D == First(C)..Last(C)  cost == DayTotal(w, "usage")
           K == {k \in b.day..e.day : \E q \in v.readings : q.day = k}
           At(k) == CHOOSE q \in v.readings : q.day = k
           before == [k \in K |-> CHOOSE p : Prior(K, p, k)]
           group == [k \in K |-> IF k = b.day THEN {} ELSE (before[k] + 1)..k]
           next == [d \in D |-> CHOOSE k \in K : d \in group[k]]
           step == [k \in K |-> SumFunctionOnSet(cost, group[k])]
           shown == [k \in K |-> At(k).value * Unit]
<1>1. v \in Versions
  BY TilingSeen
<1>2. \A q \in v.readings : q.day \in Nat /\ q.value \in Int
  BY <1>1, Numbers DEF Versions, Reading
<1>3. /\ First(C) \in Nat /\ Last(C) \in Nat /\ First(C) <= Last(C)
      /\ b.day \in Nat /\ e.day \in Nat /\ b.day < e.day
  BY <1>2, TilingEnds
<1>4. K \in SUBSET Nat /\ IsFiniteSet(K) /\ b.day \in K /\ e.day \in K
      /\ \A k \in K : b.day <= k /\ k <= e.day
  <2>1. IsFiniteSet(b.day..e.day) /\ K \in SUBSET (b.day..e.day)
    BY <1>3, FS_Interval
  <2>2. IsFiniteSet(K)
    BY <2>1, FS_Subset
  <2>3. b.day \in K /\ e.day \in K
    BY <1>3
  <2>4. K \in SUBSET Nat /\ \A k \in K : b.day <= k /\ k <= e.day
    BY <1>3, <2>1
  <2> QED
    BY <2>2, <2>3, <2>4
<1>5. \A k \in K : At(k) \in v.readings /\ At(k).day = k
  OBVIOUS
<1>6. \A q \in v.readings : b.day <= q.day /\ q.day <= e.day => q.day \in K
  BY <1>2, <1>3
<1>7. At(b.day) = b /\ At(e.day) = e
  BY DEF NoCopies, IsReadingOf
<1> HIDE DEF K, At
<1>8. ASSUME NEW k \in K, k # b.day
      PROVE  Prior(K, before[k], k) /\ group[k] = (before[k] + 1)..k /\ before[k] \in K
  <2> DEFINE T == {x \in K : x < k}
  <2>a. k \in Nat /\ b.day < k
    BY <1>3, <1>4, <1>8
  <2>b. b.day \in T
    BY <1>4, <2>a
  <2>c. T \in SUBSET Nat /\ \A x \in T : x <= k
    <3>1. \A x \in K : x \in Nat
      BY <1>4
    <3>2. ASSUME NEW x \in T PROVE x \in Nat /\ x <= k
      BY <2>a, <3>1
    <3> HIDE DEF T
    <3> QED
      BY <3>2
  <2>1. T \in SUBSET Nat /\ T # {} /\ k \in Nat /\ \A x \in T : x <= k
    BY <2>a, <2>b, <2>c
  <2> HIDE DEF T
  <2>2. PICK x \in T : \A y \in T : y <= x
    BY <2>1, GreatestNatural
  <2>3. Prior(K, x, k)
    BY <2>2 DEF T, Prior
  <2>4. Prior(K, before[k], k)
    BY <2>3
  <2> QED
    BY <1>8, <2>4 DEF Prior
<1>9. group[b.day] = {}
  BY <1>4
<1> HIDE DEF before, group
<1>10. ASSUME NEW k \in K, NEW d \in group[k]
       PROVE  d \in D /\ d \in Nat /\ d <= k /\ k # b.day /\ before[k] < d
  <2>1. k # b.day
    BY <1>9
  <2>2. Prior(K, before[k], k) /\ d \in (before[k] + 1)..k /\ before[k] \in K
    BY <1>8, <2>1
  <2>3. before[k] \in Nat /\ k \in Nat /\ b.day <= before[k] /\ k <= e.day
    BY <1>4, <2>2
  <2> QED
    BY <1>3, <2>1, <2>2, <2>3
<1>11. ASSUME NEW d \in D PROVE \E k \in K : d \in group[k]
  <2> DEFINE T == {k \in K : d <= k}
  <2>1. d \in Nat /\ b.day < d /\ d <= e.day
    BY <1>3
  <2>2. T \in SUBSET Nat /\ e.day \in T
    BY <1>4, <2>1
  <2> HIDE DEF T
  <2>3. PICK k \in T : \A x \in T : k <= x
    BY <2>2, LeastNatural
  <2>4. k \in K /\ d <= k /\ k \in Nat /\ \A x \in K : d <= x => k <= x
    BY <2>2, <2>3 DEF T
  <2>5. k # b.day
    BY <1>3, <2>1, <2>4
  <2>6. before[k] \in K /\ before[k] < k /\ group[k] = (before[k] + 1)..k /\ before[k] \in Nat
    BY <1>4, <1>8, <2>4, <2>5 DEF Prior
  <2>7. before[k] < d
    BY <2>1, <2>4, <2>6
  <2>8. d \in group[k]
    BY <2>1, <2>4, <2>6, <2>7
  <2> QED
    BY <2>4, <2>8
<1>12. ASSUME NEW j \in K, NEW k \in K, NEW d \in group[j], d \in group[k] PROVE j = k
  <2>1. /\ d \in Nat /\ d <= j /\ d <= k /\ before[j] < d /\ before[k] < d
        /\ j # b.day /\ k # b.day
    BY <1>10, <1>12
  <2>2. j \in Nat /\ k \in Nat /\ before[j] \in Nat /\ before[k] \in Nat
    BY <1>4, <1>8, <2>1
  <2>3. (j < k => j <= before[k]) /\ (k < j => k <= before[j])
    BY <1>8, <2>1 DEF Prior
  <2> QED
    BY <2>1, <2>2, <2>3
<1>13. \A d \in D : next[d] \in K /\ d \in group[next[d]]
  BY <1>11
<1> HIDE DEF next
<1>14. \A k \in K : \A d : d \in group[k] <=> d \in D /\ next[d] = k
  BY <1>10, <1>12, <1>13
<1>15. IsFiniteSet(D) /\ \A d \in D : cost[d] \in Int
  <2>1. IsFiniteSet(D)
    BY <1>3, FS_Interval
  <2>2. \A d \in D : d \in Days
    BY TilingActive
  <2> QED
    BY <2>1, <2>2, DayTotalTyped
<1>16. SumFunctionOnSet(cost, D) = SumFunctionOnSet(step, K)
  <2>1. \A k \in K : step[k] = SumFunctionOnSet(cost, group[k])
    OBVIOUS
  <2>2. \A d \in D : cost[d] \in Int /\ next[d] \in K
    BY <1>13, <1>15
  <2> HIDE DEF step, cost, D
  <2> QED
    <3>1. IsFiniteSet(D) /\ IsFiniteSet(K)
      BY <1>4, <1>15
    <3>2. \A k \in K : \A x : x \in group[k] <=> x \in D /\ next[x] = k
      BY <1>14
    <3> QED
      BY <2>1, <2>2, <3>1, <3>2, SumInGroups
<1>17. step[b.day] = 0
  BY <1>4, <1>9, SumOfNone
<1>18. ASSUME NEW k \in K \ {b.day}
       PROVE  \E p : Prior(K, p, k) /\ step[k] = shown[k] - shown[p]
  <2> DEFINE r == At(before[k])  s == At(k)
  <2>1. /\ Prior(K, before[k], k) /\ before[k] \in K /\ k \in K
        /\ group[k] = (before[k] + 1)..k
    BY <1>8
  <2>2. r \in v.readings /\ s \in v.readings /\ r.day = before[k] /\ s.day = k
    BY <1>5, <2>1
  <2>3. before[k] < k /\ \A q \in K : q < k => q <= before[k]
    BY <2>1 DEF Prior
  <2>4. ASSUME NEW q \in v.readings PROVE q.day <= before[k] \/ k <= q.day
    <3>1. b.day <= before[k] /\ k <= e.day /\ k \in Nat /\ before[k] \in Nat /\ q.day \in Nat
      BY <1>2, <1>4, <2>1
    <3>2. CASE b.day <= q.day /\ q.day <= e.day
      BY <1>6, <2>3, <3>1, <3>2
    <3> QED
      BY <1>3, <3>1, <3>2
  <2>5. Neighbours(v, r, s)
    BY <2>2, <2>3, <2>4 DEF Neighbours
  <2>6. (r.day + 1)..s.day \subseteq First(C)..Last(C)
    BY <1>10, <2>1, <2>2
  <2>7. step[k] = (s.value - r.value) * Unit
    <3> HIDE DEF r, s
    <3>1. SumFunctionOnSet(cost, (r.day + 1)..s.day) = (s.value - r.value) * Unit
      BY <2>5, <2>6, CostOfGap
    <3> QED
      BY <2>1, <2>2, <3>1
  <2>8. shown[k] = s.value * Unit /\ shown[before[k]] = r.value * Unit
    BY <2>1
  <2>9. s.value \in Int /\ r.value \in Int /\ Unit \in Int
    BY <1>2, <2>2, UnitAssumption DEF UnitAssumption
  <2> HIDE DEF r, s
  <2>10. (s.value - r.value) * Unit = s.value * Unit - r.value * Unit
    BY <2>9
  <2> QED
    BY <2>1, <2>7, <2>8, <2>10
<1>19. \A k \in K : shown[k] \in Int
  BY <1>2, <1>5, UnitAssumption DEF UnitAssumption
<1>20. shown[e.day] = e.value * Unit /\ shown[b.day] = b.value * Unit
  BY <1>4, <1>7
<1> HIDE DEF step, shown
<1>21. SumFunctionOnSet(step, K) = shown[e.day] - shown[b.day]
  <2> DEFINE low == b.day  high == e.day
  <2>1. K \in SUBSET Nat /\ IsFiniteSet(K) /\ low \in K /\ high \in K
    BY <1>4
  <2>2. (\A k \in K : low <= k) /\ (\A k \in K : k <= high)
    BY <1>4
  <2>3. step[low] = 0
    BY <1>17
  <2>4. \A k \in K \ {low} : \E p : Prior(K, p, k) /\ step[k] = shown[k] - shown[p]
    BY <1>18
  <2> HIDE DEF low, high
  <2>5. SumFunctionOnSet(step, K) = shown[high] - shown[low]
    <3>1. K \in SUBSET Nat /\ IsFiniteSet(K)
      BY <2>1
    <3>2. \A d \in K : shown[d] \in Int
      BY <1>19
    <3>3. low \in K /\ \A d \in K : low <= d
      BY <2>1, <2>2
    <3>4. high \in K /\ \A d \in K : d <= high
      BY <2>1, <2>2
    <3>5. \A d \in K \ {low} : \E p : Prior(K, p, d) /\ step[d] = shown[d] - shown[p]
      BY <2>4
    <3> QED
      BY <2>3, <3>1, <3>2, <3>3, <3>4, <3>5, SumTelescopes
  <2> QED
    BY <2>5 DEF low, high
<1>22. e.value \in Int /\ b.value \in Int /\ Unit \in Int
  BY <1>2, UnitAssumption DEF UnitAssumption
<1>23. e.value * Unit - b.value * Unit = (e.value - b.value) * Unit
  BY <1>22
<1>24. CostTotal(C, w, "usage") = SumFunctionOnSet(cost, D)
  BY DEF CostTotal
<1> QED
  BY <1>16, <1>20, <1>21, <1>23, <1>24

\* The lines are near what the meter showed.
LEMMA UsageStep == Typed /\ Explained => UsageConserved
<1> SUFFICES ASSUME Typed, Explained, kind = "meter", NEW C \in Tilings, NEW v \in Seen(C),
                    NEW b \in v.readings, NEW e \in v.readings,
                    NoCopies(v), b.day = First(C) - 1, e.day = Last(C),
                    \E p \in v.prices : p.day < First(C)
             PROVE  Near(TotalUsage(C), e.value - b.value, C)
  BY DEF UsageConserved
<1>1. PICK w \in [Days -> Due] : TilingCosts(C, v, w)
  BY TilingOwed
<1>2. CostTotal(C, w, "usage") = (e.value - b.value) * Unit
  BY <1>1, CostOfMeter
<1>3. b.value \in Int /\ e.value \in Int
  BY TilingSeen, Numbers DEF Versions, Reading
<1> DEFINE rise == e.value - b.value  n == Cardinality(LinesOf(C))  t == LineTotal(C, "usage")
<1>4. /\ n \in Nat /\ t \in Int
      /\ 2 * (rise * Unit) - Unit * n <= 2 * (Unit * t) /\ 2 * (Unit * t) <= 2 * (rise * Unit) + Unit * n
  BY <1>1, <1>2, TilingCharged
<1>5. rise \in Int
  BY <1>3
<1> HIDE DEF rise, n, t
<1>6. 2 * Magnitude(t - rise) <= n
  BY <1>4, <1>5, NearExact
<1> QED
  BY <1>6, Totals DEF Near, rise, n, t

\* While one price holds, money is that price times the consumption, day by day.
LEMMA PricedStep == Typed /\ Explained => PricedFromTheReading
<1> SUFFICES ASSUME Typed, Explained, kind = "meter", NEW C \in Tilings, NEW v \in Seen(C),
                    NEW b \in v.readings, NEW e \in v.readings, NEW p \in v.prices,
                    NoCopies(v), b.day = First(C) - 1, e.day = Last(C),
                    IsPriceOf(v, b.day..(e.day - 1), p)
             PROVE  Near(TotalValue(C), (e.value - b.value) * p.price, C)
  BY DEF PricedFromTheReading
<1>1. PICK w \in [Days -> Due] : TilingCosts(C, v, w)
  BY TilingOwed
<1> DEFINE D == First(C)..Last(C)  usage == DayTotal(w, "usage")  value == DayTotal(w, "value")
           shown == e.value - b.value  price == p.price
<1>2. v \in Versions
  BY TilingSeen
<1>3. /\ b.value \in Int /\ e.value \in Int /\ price \in Int /\ shown \in Int
      /\ b.day \in Nat /\ e.day \in Nat
      /\ \A q \in v.prices : q.day \in Nat
      /\ \A r \in v.readings : r.day \in Nat
  <2>1. b \in Reading /\ e \in Reading /\ p \in Price
    BY <1>2 DEF Versions
  <2>2. b.value \in Int /\ e.value \in Int /\ price \in Int
    BY <2>1, Numbers DEF Reading, Price
  <2> QED
    BY <1>2, <2>2, Numbers DEF Versions, Reading, Price
<1>4. First(C) \in Nat /\ Last(C) \in Nat /\ First(C) <= Last(C)
  BY TilingEnds
<1>5. ASSUME NEW d \in D PROVE d \in Days /\ d \in Nat /\ d - 1 \in b.day..(e.day - 1)
  <2>1. d \in Days /\ d \in Nat
    BY TilingActive
  <2> QED
    BY <1>3, <1>4, <2>1
<1>6. p.day < First(C)
  <2>1. b.day \in b.day..(e.day - 1)
    BY <1>3, <1>4
  <2>2. p.day <= b.day /\ p.day \in Nat
    BY <1>3, <2>1 DEF IsPriceOf
  <2> QED
    BY <1>3, <1>4, <2>2
<1>7. CostTotal(C, w, "usage") = shown * Unit
  BY <1>1, <1>6, CostOfMeter
<1>8. ASSUME NEW d \in D PROVE value[d] = price * usage[d]
  <2> DEFINE dated == {q \in v.prices : q.day < d}
  <2>1. d - 1 \in b.day..(e.day - 1) /\ d - 1 \in Nat /\ d \in Nat
    BY <1>3, <1>5
  <2>2. \A q : q \in dated <=> q \in v.prices /\ q.day <= d - 1
    BY <1>3, <2>1
  <2> HIDE DEF dated
  <2> DEFINE k == d - 1  span == b.day..(e.day - 1)
  <2>a. k \in span /\ k \in Nat /\ IsPriceOf(v, span, p)
    BY <2>1
  <2>b. \A q : q \in dated <=> q \in v.prices /\ q.day <= k
    BY <2>2
  <2> HIDE DEF k, span
  <2>3. Newest(dated) = {p}
    BY <1>2, <2>a, <2>b, PriceHolds
  <2>4. CounterPrice(v, d) = {p}
    BY <2>3 DEF CounterPrice, dated
  <2>5. p.day < d
    BY <1>3, <1>4, <1>6, <2>1
  <2>6. \E r, s : Neighbours(v, r, s) /\ d \in (r.day + 1)..s.day
    <3> DEFINE T == {r.day : r \in {r \in v.readings : r.day < d}}
               U == {r.day : r \in {r \in v.readings : r.day >= d}}
    <3>1. /\ T \in SUBSET Nat /\ U \in SUBSET Nat /\ b.day \in T /\ e.day \in U
          /\ \A x \in T : x <= d
      BY <1>3, <1>4, <2>1
    <3>2. PICK r \in v.readings : r.day < d /\ \A x \in T : x <= r.day
      <4> HIDE DEF T
      <4>1. PICK x \in T : \A y \in T : y <= x
        BY <2>1, <3>1, GreatestNatural
      <4> QED
        BY <4>1 DEF T
    <3>3. PICK s \in v.readings : s.day >= d /\ \A x \in U : s.day <= x
      <4> HIDE DEF U
      <4>1. PICK x \in U : \A y \in U : x <= y
        BY <3>1, LeastNatural
      <4> QED
        BY <4>1 DEF U
    <3>4. \A q \in v.readings : q.day <= r.day \/ s.day <= q.day
      BY <1>3, <2>1, <3>2, <3>3
    <3>5. r.day \in Nat /\ s.day \in Nat /\ r.day < s.day
      BY <1>3, <2>1, <3>2, <3>3
    <3>6. d \in (r.day + 1)..s.day
      BY <2>1, <3>2, <3>3, <3>5
    <3> QED
      BY <3>4, <3>5, <3>6 DEF Neighbours
  <2>7. PICK r, s : Neighbours(v, r, s) /\ d \in (r.day + 1)..s.day
    BY <2>6
  <2>8. \E q \in CounterPrice(v, d) : DayTotal(w, "value")[d] = q.price * DayTotal(w, "usage")[d]
    <3>1. \E q \in v.prices : q.day < d
      BY <2>5
    <3> HIDE DEF usage, value
    <3> QED
      BY <1>1, <2>7, <3>1, MeterOfDay
  <2> QED
    BY <2>4, <2>8
<1>9. \A d \in D : usage[d] \in Int
  BY <1>5, DayTotalTyped
<1>10. IsFiniteSet(D)
  BY <1>4, FS_Interval
<1> DEFINE x == SumFunctionOnSet(usage, D)
<1>11. CostTotal(C, w, "value") = price * x
  <2> DEFINE g == [d \in D |-> price * usage[d]]
  <2>1. SumFunctionOnSet(g, D) = price * x
    <3> HIDE DEF D, usage, price
    <3> QED
      BY <1>3, <1>9, <1>10, SumScales
  <2>2. \A d \in D : g[d] \in Int /\ g[d] = value[d]
    <3> HIDE DEF D, usage, value, price
    <3> QED
      BY <1>3, <1>8, <1>9
  <2> HIDE DEF D, g, value
  <2>3. SumFunctionOnSet(g, D) = SumFunctionOnSet(value, D)
    BY <1>10, <2>2, SumSame
  <2> QED
    BY <2>1, <2>3 DEF CostTotal, value, D
<1>12. x = shown * Unit
  BY <1>7 DEF CostTotal
<1> HIDE DEF x
<1> DEFINE a == shown * price  n == Cardinality(LinesOf(C))  t == LineTotal(C, "value")
<1>13. price * (shown * Unit) = a * Unit /\ a \in Int
  <2> HIDE DEF price, shown
  <2> QED
    BY <1>3, UnitAssumption DEF UnitAssumption
<1> HIDE DEF a
<1>14. CostTotal(C, w, "value") = a * Unit
  BY <1>11, <1>12, <1>13
<1>15. /\ n \in Nat /\ t \in Int
       /\ 2 * (a * Unit) - Unit * n <= 2 * (Unit * t) /\ 2 * (Unit * t) <= 2 * (a * Unit) + Unit * n
  BY <1>1, <1>14, TilingCharged
<1> HIDE DEF n, t
<1>16. 2 * Magnitude(t - a) <= n
  BY <1>13, <1>15, NearExact
<1> QED
  BY <1>16, Totals DEF Near, a, n, t

\* Settlements from one reading to another together charge the tenants what the meter
\* showed, each unit at the price of the reading, up to half a digit for each line, however
\* the time between is cut into periods and whatever is read in between
\* (_calc_fee_counter_day and save_settlement).
THEOREM MetersConserved == Spec => []MetersCharged
<1>1. Typed /\ Explained => MetersCharged
  BY UsageStep, PricedStep DEF MetersCharged
<1> QED
  BY <1>1, TypesHold, ExplainedHolds, PTL

=============================================================================
