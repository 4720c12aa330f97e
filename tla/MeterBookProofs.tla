--------------------------- MODULE MeterBookProofs ---------------------------
(* Proofs about MeterBook, checked by TLAPS. *)
EXTENDS MeterBook, SumLemmas

USE BookAssumption, NoRowAssumption

(***************************************************************************)
(* The matrix.                                                             *)
(***************************************************************************)

\* Without a price that starts after the first day and by the last, all days between
\* see the same dated prices.
LEMMA PricesBetween ==
    ASSUME TypeOK, NEW u \in Utilities, NEW a \in Days, NEW b \in Days, NEW day \in (a + 1)..b,
           \A p \in prices : p.of = u /\ p.from # None => p.from <= a \/ b < p.from
    PROVE  PriceOn(u, day) = CounterPrice(u, day)
<1>1. \A p \in prices : p.from # None => p.from \in Int
  BY DEF TypeOK, Price, Days
<1>2. \A p \in prices : p.of = u => (p.from \in 1..day <=> p.from \in 1..(day - 1))
  <2> SUFFICES ASSUME NEW p \in prices, p.of = u, p.from = day PROVE FALSE
    BY <1>1 DEF Days
  <2>1. p.from # None
    BY DEF Days
  <2> QED
    BY <2>1 DEF Days
<1>3. LatestPrice(u, 1..day) = LatestPrice(u, 1..(day - 1))
  BY <1>2 DEF LatestPrice
<1> QED
  BY <1>3 DEF PriceOn, CounterPrice, PriceAmong

\* Between the readings of a cell the meter has no other.
LEMMA CellIsAnInterval ==
    ASSUME TypeOK, NEW u \in Utilities, Filed(u), NEW day \in Days, NEW cell \in Cell(u, day)
    PROVE  /\ cell[1] \in ReadingsOf(u) /\ cell[2] \in ReadingsOf(u)
           /\ cell[1].day < cell[2].day
           /\ \A r \in ReadingsOf(u) : r.day <= cell[1].day \/ cell[2].day <= r.day
<1>1. PICK a, b \in {r \in Matrix(utilities[u].flat) : r.of = u} :
        /\ a = cell[1] /\ b = cell[2]
        /\ b.day = day /\ a.day \in PrevDay(utilities[u].flat, day)
  BY DEF Cell
<1>2. a \in ReadingsOf(u) /\ b \in ReadingsOf(u)
  BY <1>1 DEF Matrix, ReadingsOf
<1>3. u \in Meters(utilities[u].flat)
  BY <1>1 DEF Matrix
<1>4. \A r \in ReadingsOf(u) : r \in Matrix(utilities[u].flat)
  BY <1>3 DEF Filed, Matrix, ReadingsOf
<1>5. \A r \in readings : r.day \in Int
  BY DEF TypeOK, Reading, Days
<1>6. a.day < b.day
  BY <1>1 DEF PrevDay
<1>7. ASSUME NEW r \in ReadingsOf(u) PROVE r.day <= a.day \/ b.day <= r.day
  <2>1. r.day < day => r.day <= a.day
    BY <1>1, <1>4 DEF PrevDay
  <2> QED
    BY <1>1, <1>5, <2>1 DEF ReadingsOf, Days
<1> QED
  BY <1>1, <1>2, <1>6, <1>7

\* Then the engine takes each day between for a day of this interval.
LEMMA AroundTheDay ==
    ASSUME TypeOK, NEW u \in Utilities, NEW a \in ReadingsOf(u), NEW b \in ReadingsOf(u),
           a.day < b.day, Sole(a), Sole(b),
           \A r \in ReadingsOf(u) : r.day <= a.day \/ b.day <= r.day,
           NEW day \in (a.day + 1)..b.day
    PROVE  Before(u, day) = {a} /\ After(u, day) = {b}
<1>1. \A r \in ReadingsOf(u) : r.day \in Int /\ r.of = u
  BY DEF TypeOK, Reading, Days, ReadingsOf
<1>2. day \in Int /\ a.day < day /\ day <= b.day
  BY <1>1
<1>3. \A r \in ReadingsOf(u) : (r.day < day <=> r.day <= a.day) /\ (r.day >= day <=> b.day <= r.day)
  BY <1>1, <1>2
<1>4. \A r \in ReadingsOf(u) : (r.day = a.day => r = a) /\ (r.day = b.day => r = b)
  BY <1>1 DEF Sole
<1>5. \A r \in Before(u, day) : r = a
  <2> SUFFICES ASSUME NEW r \in Before(u, day) PROVE r.day = a.day
    BY <1>4 DEF Before
  <2>1. r \in ReadingsOf(u) /\ r.day < day /\ a.day <= r.day
    BY <1>2 DEF Before
  <2> QED
    BY <1>1, <1>3, <2>1
<1>6. a \in Before(u, day)
  BY <1>2, <1>3 DEF Before
<1>7. \A r \in After(u, day) : r = b
  <2> SUFFICES ASSUME NEW r \in After(u, day) PROVE r.day = b.day
    BY <1>4 DEF After
  <2>1. r \in ReadingsOf(u) /\ r.day >= day /\ r.day <= b.day
    BY <1>2 DEF After
  <2> QED
    BY <1>1, <1>3, <2>1
<1>8. b \in After(u, day)
  BY <1>1, <1>2, <1>3 DEF After
<1> QED
  BY <1>5, <1>6, <1>7, <1>8

LEMMA MatrixCharges == TypeOK => CellMatchesEngine
<1> SUFFICES ASSUME TypeOK, NEW u \in Utilities, Filed(u), NEW day \in Days,
                    NEW cell \in Cell(u, day), Sole(cell[1]), Sole(cell[2]),
                    \A p \in prices : p.of = u /\ p.from # None =>
                        p.from <= cell[1].day \/ cell[2].day < p.from
             PROVE  ShownCost(u, cell[1], cell[2])
                      = Charged(u, (cell[1].day + 1)..cell[2].day)
  BY DEF CellMatchesEngine
<1> DEFINE a == cell[1]
           b == cell[2]
<1>1. /\ a \in ReadingsOf(u) /\ b \in ReadingsOf(u) /\ a.day < b.day
      /\ \A r \in ReadingsOf(u) : r.day <= a.day \/ b.day <= r.day
  BY CellIsAnInterval
<1>2. a.day \in Days /\ b.day \in Days
  BY <1>1 DEF ReadingsOf, TypeOK, Reading
<1> HIDE DEF a, b
<1>3. ASSUME NEW d \in (a.day + 1)..b.day
      PROVE  {Share(b.value - a.value, b.day - a.day, p) : p \in PriceOn(u, d)}
               = {Share(e.value - s.value, e.day - s.day, p) :
                    s \in Before(u, d), e \in After(u, d), p \in CounterPrice(u, d)}
  <2>1. PriceOn(u, d) = CounterPrice(u, d)
    BY <1>2, PricesBetween DEF a, b
  <2>2. Before(u, d) = {a} /\ After(u, d) = {b}
    <3>1. Sole(a) /\ Sole(b)
      BY DEF a, b
    <3> QED
      BY <1>1, <3>1, AroundTheDay
  <2> QED
    BY <2>1, <2>2
<1>4. ShownCost(u, a, b) = Charged(u, (a.day + 1)..b.day)
  BY <1>3 DEF ShownCost, Charged
<1> QED
  BY <1>4 DEF a, b

(***************************************************************************)
(* Estimates.                                                              *)
(***************************************************************************)

\* Primary keys come from the sequence.
KeysFresh ==
    /\ \A r \in readings : r.id <= last
    /\ \A c \in Clients : request[c].op = "edit" => request[c].row.id <= last

LEMMA GreatestInteger ==
    ASSUME NEW T \in SUBSET Int, T # {}, NEW n \in Int, \A t \in T : t <= n
    PROVE  \E x \in T : \A y \in T : y <= x
<1> DEFINE D == {n - t : t \in T}
<1>1. D \in SUBSET Nat
  <2> SUFFICES ASSUME NEW t \in T PROVE n - t \in Nat
    OBVIOUS
  <2>1. t \in Int
    OBVIOUS
  <2> QED
    BY <2>1
<1>2. PICK d \in D : \A e \in D : d <= e
  <2>1. \A t \in T : n - t \in D
    OBVIOUS
  <2> HIDE DEF D
  <2> QED
    BY <1>1, <2>1, LeastNatural
<1>3. PICK x \in T : d = n - x
  BY <1>2
<1>4. ASSUME NEW y \in T PROVE y <= x
  <2>1. n - x <= n - y
    BY <1>2, <1>3
  <2>2. x \in Int /\ y \in Int
    OBVIOUS
  <2> QED
    BY <2>1, <2>2
<1> QED
  BY <1>4

LEMMA ReadingTyped == TypeOK => \A r \in readings : r.day \in 1..LastDay /\ r.id \in Nat /\ r.value \in Int
BY DEF TypeOK, Reading, Days

\* The reading order_by puts last is one of the readings, and on the last day.
LEMMA LatestReading ==
    ASSUME TypeOK, KeysFresh, NEW R \in SUBSET readings, R # {}
    PROVE  Latest(R) \in R /\ \A s \in R : s.day <= Latest(R).day
<1>1. PICK d \in {r.day : r \in R} : \A e \in {r.day : r \in R} : e <= d
  <2> DEFINE T == {r.day : r \in R}
  <2>1. T \in SUBSET Int /\ T # {} /\ \A t \in T : t <= LastDay
    BY ReadingTyped
  <2>2. LastDay \in Int
    OBVIOUS
  <2> HIDE DEF T
  <2>3. \E x \in T : \A y \in T : y <= x
    BY <2>1, <2>2, GreatestInteger
  <2> QED
    BY <2>3 DEF T
<1>2. PICK i \in {r.id : r \in {q \in R : q.day = d}} :
        \A j \in {r.id : r \in {q \in R : q.day = d}} : j <= i
  <2> DEFINE T == {r.id : r \in {q \in R : q.day = d}}
  <2>1. T \in SUBSET Int /\ T # {} /\ \A t \in T : t <= last
    BY <1>1, ReadingTyped DEF KeysFresh
  <2>2. last \in Int
    BY DEF TypeOK
  <2> HIDE DEF T
  <2>3. \E x \in T : \A y \in T : y <= x
    BY <2>1, <2>2, GreatestInteger
  <2> QED
    BY <2>3 DEF T
<1>3. \E r \in R : \A s \in R : Sooner(s, r)
  <2>1. PICK r \in R : r.day = d /\ r.id = i
    BY <1>2
  <2>2. ASSUME NEW s \in R PROVE Sooner(s, r)
    <3>1. s.day <= d /\ (s.day = d => s.id <= i)
      BY <1>1, <1>2
    <3> QED
      BY <2>1, <3>1, ReadingTyped DEF Sooner
  <2> QED
    BY <2>2
<1>4. Latest(R) \in R /\ \A s \in R : Sooner(s, Latest(R))
  BY <1>3 DEF Latest
<1> QED
  BY <1>4, ReadingTyped DEF Sooner

LEMMA EarliestReading ==
    ASSUME TypeOK, NEW R \in SUBSET readings, R # {}
    PROVE  Earliest(R) \in R /\ \A s \in R : Earliest(R).day <= s.day
<1>1. PICK d \in {r.day : r \in R} : \A e \in {r.day : r \in R} : d <= e
  <2> DEFINE T == {r.day : r \in R}
  <2>1. T \in SUBSET Nat /\ T # {}
    BY ReadingTyped
  <2> HIDE DEF T
  <2>2. \E x \in T : \A y \in T : x <= y
    BY <2>1, LeastNatural
  <2> QED
    BY <2>2 DEF T
<1>2. PICK i \in {r.id : r \in {q \in R : q.day = d}} :
        \A j \in {r.id : r \in {q \in R : q.day = d}} : i <= j
  <2> DEFINE T == {r.id : r \in {q \in R : q.day = d}}
  <2>1. T \in SUBSET Nat /\ T # {}
    BY <1>1, ReadingTyped
  <2> HIDE DEF T
  <2>2. \E x \in T : \A y \in T : x <= y
    BY <2>1, LeastNatural
  <2> QED
    BY <2>2 DEF T
<1>3. \E r \in R : \A s \in R : Sooner(r, s)
  <2>1. PICK r \in R : r.day = d /\ r.id = i
    BY <1>2
  <2>2. ASSUME NEW s \in R PROVE Sooner(r, s)
    <3>1. d <= s.day /\ (s.day = d => i <= s.id)
      BY <1>1, <1>2
    <3> QED
      BY <2>1, <3>1, ReadingTyped DEF Sooner
  <2> QED
    BY <2>2
<1>4. Earliest(R) \in R /\ \A s \in R : Sooner(Earliest(R), s)
  BY <1>3 DEF Earliest
<1> QED
  BY <1>4, ReadingTyped DEF Sooner

LEMMA BaselineReading ==
    ASSUME TypeOK, KeysFresh, NEW R \in SUBSET readings, R # {}, NEW start
    PROVE  Baseline(R, start) \in R
<1> DEFINE early == {r \in R : r.day <= start}
<1>1. CASE Baseline(R, start) = Earliest(R)
  BY <1>1, EarliestReading
<1>2. CASE early # {} /\ Baseline(R, start) = Latest(early)
  <2>1. early \in SUBSET readings
    OBVIOUS
  <2>2. Latest(early) \in early
    BY <1>2, <2>1, LatestReading
  <2> QED
    BY <1>2, <2>2
<1> QED
  BY <1>1, <1>2 DEF Baseline

\* A share of something that is not negative is not either.
LEMMA RoundedNatural ==
    ASSUME NEW n \in Int, NEW d \in Int, d > 0
    PROVE  Rounded(n, d) \in Int /\ (n >= 0 => Rounded(n, d) >= 0)
<1> DEFINE m == 2 * n + d
           k == 2 * d
<1>1. m \in Int /\ k \in Int /\ k > 0 /\ (n >= 0 => m >= 0)
  OBVIOUS
<1> HIDE DEF m, k
<1>2. m \div k \in Int /\ (m >= 0 => m \div k >= 0)
  BY <1>1
<1> QED
  BY <1>1, <1>2 DEF Rounded, m, k

LEMMA ProductNatural ==
    ASSUME NEW x \in Int, NEW y \in Int
    PROVE  x * y \in Int /\ (x >= 0 /\ y >= 0 => x * y >= 0)
OBVIOUS

LEMMA EstimateKept ==
    ASSUME TypeOK, KeysFresh, NEW R \in SUBSET readings, R # {},
           NEW target \in Int, NEW months \in Int, Estimate(R, target, months) # None
    PROVE  Estimate(R, target, months) \in Int /\ Estimate(R, target, months) >= Latest(R).value
<1> DEFINE base == Baseline(R, target - months)
           end == Latest(R)
           span == end.day - base.day
           use == ProjectedUse(base, end)
           far == target - end.day
<1>1. base \in R /\ end \in R
  BY BaselineReading, LatestReading
<1>2. /\ base.day \in Int /\ base.value \in Int
      /\ end.day \in Int /\ end.value \in Int
  BY <1>1, ReadingTyped
<1>3. span \in Int /\ far \in Int
  BY <1>2
<1>4. use \in Int /\ use >= 0
  BY <1>2 DEF ProjectedUse
<1> HIDE DEF base, end, span, use, far
<1>5. CASE far <= 0
  <2>1. Estimate(R, target, months) = end.value
    BY <1>2, <1>5 DEF Estimate, base, end, span, far
  <2> QED
    BY <1>2, <2>1 DEF end
<1>6. CASE far > 0
  <2>1. span > 0 /\ Estimate(R, target, months) = end.value + Rounded(use * far, span)
    BY <1>2, <1>3, <1>6 DEF Estimate, base, end, span, use, far
  <2>2. use * far \in Int /\ use * far >= 0
    BY <1>3, <1>4, <1>6, ProductNatural
  <2>3. Rounded(use * far, span) \in Int /\ Rounded(use * far, span) >= 0
    BY <1>3, <2>1, <2>2, RoundedNatural
  <2> QED
    BY <1>2, <2>1, <2>3 DEF end
<1> QED
  BY <1>3, <1>5, <1>6

\* "never estimate a lower reading", whatever meter, window and day.
LEMMA EstimatesHold == TypeOK /\ KeysFresh => EstimateNotLower
<1> SUFFICES ASSUME TypeOK, KeysFresh, NEW u \in Utilities, NEW target \in Days,
                    NEW months \in Windows, ReadingsOf(u) # {},
                    Estimate(ReadingsOf(u), target, months) # None
             PROVE  Estimate(ReadingsOf(u), target, months) >= Latest(ReadingsOf(u)).value
  BY DEF EstimateNotLower
<1>1. ReadingsOf(u) \in SUBSET readings
  BY DEF ReadingsOf
<1>2. target \in Int /\ months \in Int
  BY DEF Days
<1> QED
  BY <1>1, <1>2, EstimateKept

(***************************************************************************)
(* Types.                                                                  *)
(***************************************************************************)

LEMMA RequestTyped ==
    ASSUME TypeOK, NEW c \in Clients
    PROVE  /\ request[c].op = "price" =>
                /\ request[c].of \in Utilities /\ request[c].amount \in Amounts
                /\ request[c].from \in Days \cup {None}
           /\ request[c].op \in {"estimate", "submit"} =>
                request[c] \in [op : {"estimate", "submit"}, flat : Flats, day : Days,
                               left : SUBSET Field]
           /\ request[c].op = "insert" =>
                /\ request[c].flat \in Flats /\ request[c].day \in Days
                /\ request[c].left \subseteq Field
                /\ request[c].of \in Utilities /\ request[c].value \in Int
                /\ request[c].seen \in Nat
           /\ request[c].op = "edit" => request[c].row \in Reading
           /\ request[c].op = "move" => request[c].of \in Utilities
           /\ request[c].op = "invoice" =>
                /\ request[c].of \in Utilities /\ request[c].amount \in Amounts
                /\ request[c].month \in Invoiced
<1>1. request[c] \in Request
  BY DEF TypeOK
<1> QED
  BY <1>1 DEF Request, Idle

\* The next field, or the end of the request, is a request.
LEMMA GoOnTyped ==
    ASSUME TypeOK, NEW c \in Clients, request[c].op \in {"submit", "insert"},
           NEW left \in SUBSET Field, GoOn(c, left)
    PROVE  request' \in [Clients -> Request]
<1>1. request[c].flat \in Flats /\ request[c].day \in Days
  BY RequestTyped
<1>2. Idle \in Request
  BY DEF Request
<1>3. [op |-> "submit", flat |-> request[c].flat, day |-> request[c].day, left |-> left]
        \in Request
  BY <1>1 DEF Request
<1> QED
  BY <1>2, <1>3 DEF TypeOK, GoOn

LEMMA FilledTyped ==
    ASSUME TypeOK, KeysFresh, NEW flat \in Flats, NEW day \in Days, NEW months \in Windows
    PROVE  Filled(flat, day, months) \subseteq Field
<1> SUFFICES ASSUME NEW u \in Meters(flat),
                    Estimate(ReadingsOf(u), day, months) # None
             PROVE  Estimate(ReadingsOf(u), day, months) \in Int /\ u \in Utilities
  BY DEF Filled, Field
<1>1. ReadingsOf(u) \in SUBSET readings /\ u \in Utilities
  BY DEF ReadingsOf, Meters
<1>2. day \in Int /\ months \in Int
  BY DEF Days
<1>3. ReadingsOf(u) # {}
  BY DEF Estimate
<1> QED
  BY <1>1, <1>2, <1>3, EstimateKept

LEMMA TypeStep == TypeOK /\ KeysFresh /\ [Next]_vars => TypeOK'
<1> SUFFICES ASSUME TypeOK, KeysFresh, [Next]_vars PROVE TypeOK'
  OBVIOUS
<1>i. Idle \in Request
  BY DEF Request
<1> USE DEF TypeOK, NewRow, Done
<1>1. CASE UNCHANGED vars
  BY <1>1 DEF vars
<1>2. ASSUME NEW c \in Clients, AddUtility(c) PROVE TypeOK'
  <2>1. utilities' \in [Utilities -> Utility \cup {None}]
    <3>1. PICK u \in Utilities, kind \in Kinds, flat \in Flats :
            utilities' = [utilities EXCEPT ![u] = [kind |-> kind, flat |-> flat]]
      BY <1>2 DEF AddUtility
    <3>2. [kind |-> kind, flat |-> flat] \in Utility
      BY DEF Utility
    <3> QED
      BY <3>1, <3>2
  <2>2. request' \in [Clients -> Request]
    BY <1>2 DEF AddUtility, Request
  <2> QED
    BY <1>2, <2>1, <2>2 DEF AddUtility
<1>3. ASSUME NEW c \in Clients, AddMeter(c) PROVE TypeOK'
  BY <1>3 DEF AddMeter, Utility
<1>4. ASSUME NEW c \in Clients, PriceRead(c) PROVE TypeOK'
  BY <1>4 DEF PriceRead, Request
<1>5. ASSUME NEW c \in Clients, PriceInsert(c) PROVE TypeOK'
  BY <1>i, <1>5, RequestTyped DEF PriceInsert, Price
<1>6. ASSUME NEW c \in Clients, DeletePrice(c) PROVE TypeOK'
  BY <1>6 DEF DeletePrice
<1>7. ASSUME NEW c \in Clients, MoveRead(c) PROVE TypeOK'
  BY <1>7 DEF MoveRead, Request
<1>8. ASSUME NEW c \in Clients, MoveMeter(c) PROVE TypeOK'
  BY <1>i, <1>8, RequestTyped DEF MoveMeter, Utility
<1>9. ASSUME NEW c \in Clients, DeleteUtility(c) PROVE TypeOK'
  BY <1>9 DEF DeleteUtility, OtherReadings
<1>10. ASSUME NEW c \in Clients, EstimateForm(c) PROVE TypeOK'
  <2>1. PICK flat \in Flats, day \in Days, months \in Windows :
          request' = [request EXCEPT ![c] =
            [op |-> "estimate", flat |-> flat, day |-> day, left |-> Filled(flat, day, months)]]
    BY <1>10 DEF EstimateForm
  <2>2. Filled(flat, day, months) \subseteq Field
    BY FilledTyped
  <2>3. request' \in [Clients -> Request]
    BY <2>1, <2>2 DEF Request
  <2> QED
    BY <1>10, <2>3 DEF EstimateForm
<1>11. ASSUME NEW c \in Clients, Submit(c) PROVE TypeOK'
  <2>1. request' \in [Clients -> Request]
    <3>1. CASE /\ request[c].op = "estimate"
               /\ request' = [request EXCEPT ![c].op = "submit"]
      <4>1. [request[c] EXCEPT !.op = "submit"] \in Request
        BY <3>1, RequestTyped DEF Request
      <4> QED
        BY <3>1, <4>1
    <3>2. CASE \E flat \in Flats, day \in Days : \E typed \in SUBSET Meters(flat) :
                 \E value \in [typed -> Values] :
                   request' = [request EXCEPT ![c] =
                     [op |-> "submit", flat |-> flat, day |-> day,
                      left |-> {[of |-> u, value |-> value[u]] : u \in typed}]]
      <4>1. PICK flat \in Flats, day \in Days : \E typed \in SUBSET Meters(flat) :
              \E value \in [typed -> Values] :
                request' = [request EXCEPT ![c] =
                  [op |-> "submit", flat |-> flat, day |-> day,
                   left |-> {[of |-> u, value |-> value[u]] : u \in typed}]]
        BY <3>2
      <4>2. PICK left : /\ left \subseteq Field
                        /\ request' = [request EXCEPT ![c] =
                             [op |-> "submit", flat |-> flat, day |-> day, left |-> left]]
        <5>0. PICK typed \in SUBSET Meters(flat) : \E value \in [typed -> Values] :
                request' = [request EXCEPT ![c] =
                  [op |-> "submit", flat |-> flat, day |-> day,
                   left |-> {[of |-> u, value |-> value[u]] : u \in typed}]]
          BY <4>1
        <5>1. PICK value \in [typed -> Values] :
                request' = [request EXCEPT ![c] =
                  [op |-> "submit", flat |-> flat, day |-> day,
                   left |-> {[of |-> u, value |-> value[u]] : u \in typed}]]
          BY <5>0
        <5>2. \A u \in typed : u \in Utilities /\ value[u] \in Int
          BY DEF Meters
        <5>3. {[of |-> u, value |-> value[u]] : u \in typed} \subseteq Field
          BY <5>2 DEF Field
        <5> QED
          BY <5>1, <5>3
      <4>3. [op |-> "submit", flat |-> flat, day |-> day, left |-> left] \in Request
        BY <4>2 DEF Request
      <4> QED
        BY <4>2, <4>3
    <3> QED
      BY <1>11, <3>1, <3>2 DEF Submit
  <2> QED
    BY <1>11, <2>1 DEF Submit
<1>12. ASSUME NEW c \in Clients, UpdateReading(c) PROVE TypeOK'
  <2>1. PICK f \in request[c].left : \E r \in OnTheDay(c, f) :
          /\ readings' = (readings \ {r}) \cup {[r EXCEPT !.value = f.value]}
          /\ GoOn(c, request[c].left \ {f})
    BY <1>12 DEF UpdateReading
  <2>2. request[c].op = "submit" /\ request[c].left \subseteq Field
    BY <1>12, RequestTyped DEF UpdateReading
  <2>3. readings' \subseteq Reading
    BY <2>1, <2>2 DEF OnTheDay, Reading, Field
  <2>4. request' \in [Clients -> Request]
    BY <2>1, <2>2, GoOnTyped
  <2> QED
    BY <1>12, <2>3, <2>4 DEF UpdateReading
<1>13. ASSUME NEW c \in Clients, MissReading(c) PROVE TypeOK'
  <2>1. request[c] \in [op : {"estimate", "submit"}, flat : Flats, day : Days,
                        left : SUBSET Field]
    BY <1>13, RequestTyped DEF MissReading
  <2>2. request' \in [Clients -> Request]
    BY <1>13, <2>1 DEF MissReading, Request, Field
  <2> QED
    BY <1>13, <2>2 DEF MissReading
<1>14. ASSUME NEW c \in Clients, InsertReading(c) PROVE TypeOK'
  <2>1. request[c].op = "insert" /\ request[c].left \subseteq Field
    BY <1>14, RequestTyped DEF InsertReading
  <2>2. NewReading(c) \in Reading
    BY <2>1, RequestTyped DEF NewReading, Reading
  <2>3. request' \in [Clients -> Request]
    BY <1>14, <2>1, GoOnTyped DEF InsertReading
  <2> QED
    BY <1>14, <2>2, <2>3 DEF InsertReading
<1>15. ASSUME NEW c \in Clients, SubmitAbort(c) PROVE TypeOK'
  BY <1>i, <1>15 DEF SubmitAbort
<1>16. ASSUME NEW c \in Clients, EditRead(c) PROVE TypeOK'
  BY <1>16 DEF EditRead, Request
<1>17. ASSUME NEW c \in Clients, EditWrite(c) PROVE TypeOK'
  <2>1. request[c].row \in Reading
    BY <1>17, RequestTyped DEF EditWrite
  <2>2. readings' \subseteq Reading
    BY <1>17, <2>1 DEF EditWrite, Reading
  <2> QED
    BY <1>i, <1>17, <2>2 DEF EditWrite
<1>18. ASSUME NEW c \in Clients, DeleteReading(c) PROVE TypeOK'
  BY <1>18 DEF DeleteReading
<1>19. ASSUME NEW c \in Clients, DeleteRow(c) PROVE TypeOK'
  BY <1>19 DEF DeleteRow
<1>20. ASSUME NEW c \in Clients, InvoiceUpdate(c) PROVE TypeOK'
  BY <1>20 DEF InvoiceUpdate, Invoice
<1>21. ASSUME NEW c \in Clients, InvoiceMiss(c) PROVE TypeOK'
  BY <1>21 DEF InvoiceMiss, Request
<1>22. ASSUME NEW c \in Clients, InvoiceInsert(c) PROVE TypeOK'
  <2>1. /\ request[c].of \in Utilities /\ request[c].amount \in Amounts
        /\ request[c].month \in Invoiced
    BY <1>22, RequestTyped DEF InvoiceInsert
  <2>2. invoices' \subseteq Invoice
    BY <1>22, <2>1 DEF InvoiceInsert, OfMonth, Invoice
  <2> QED
    BY <1>i, <1>22, <2>2 DEF InvoiceInsert
<1>23. ASSUME NEW c \in Clients, DeleteInvoice(c) PROVE TypeOK'
  BY <1>23 DEF DeleteInvoice
<1>24. ASSUME NEW c \in Clients, Abort(c) PROVE TypeOK'
  BY <1>i, <1>24 DEF Abort
<1> QED
  BY <1>1, <1>2, <1>3, <1>4, <1>5, <1>6, <1>7, <1>8, <1>9, <1>10, <1>11, <1>12, <1>13, <1>14,
     <1>15, <1>16, <1>17, <1>18, <1>19, <1>20, <1>21, <1>22, <1>23, <1>24 DEF Next

(***************************************************************************)
(* Readings of one day.                                                    *)
(***************************************************************************)

\* A request that found no reading to update, and that nobody overtook since, would
\* still find none, but for one an edit moved there.
MissesStand == \A c \in Clients : request[c].op = "insert" =>
    /\ request[c].seen <= last
    /\ request[c].seen = last =>
         \A r \in readings :
            r.of = request[c].of /\ r.flat = request[c].flat /\ r.day = request[c].day => r.moved

ReadingInv == KeysFresh /\ MissesStand /\ OneReadingPerDay

\* A step that at most deletes readings and begins no insert or edit of one.
Quiet ==
    /\ readings' \subseteq readings
    /\ last' \in Nat /\ last <= last'
    /\ \A c \in Clients : request'[c] = request[c] \/ request'[c].op \notin {"insert", "edit"}

LEMMA QuietKeeps ==
    ASSUME TypeOK, ReadingInv, Quiet
    PROVE  ReadingInv'
<1>1. last \in Nat
  BY DEF TypeOK
<1>2. KeysFresh'
  <2>1. ASSUME NEW r \in readings' PROVE r.id <= last'
    <3>1. r \in readings /\ r.id \in Nat /\ r.id <= last
      BY <2>1, ReadingTyped DEF Quiet, ReadingInv, KeysFresh
    <3> QED
      BY <1>1, <3>1 DEF Quiet
  <2>2. ASSUME NEW c \in Clients, request'[c].op = "edit" PROVE request'[c].row.id <= last'
    <3>1. request'[c] = request[c]
      BY <2>2 DEF Quiet
    <3>2. request[c].row.id \in Nat /\ request[c].row.id <= last
      BY <2>2, <3>1, RequestTyped DEF Reading, ReadingInv, KeysFresh
    <3> QED
      BY <1>1, <3>1, <3>2 DEF Quiet
  <2> QED
    BY <2>1, <2>2 DEF KeysFresh
<1>3. MissesStand'
  <2> SUFFICES ASSUME NEW c \in Clients, request'[c].op = "insert"
               PROVE  /\ request'[c].seen <= last'
                      /\ request'[c].seen = last' =>
                           \A r \in readings' :
                             r.of = request'[c].of /\ r.flat = request'[c].flat
                             /\ r.day = request'[c].day => r.moved
    BY DEF MissesStand
  <2>1. request'[c] = request[c]
    BY DEF Quiet
  <2>2. request[c].seen \in Nat
    BY <2>1, RequestTyped
  <2>3. /\ request[c].seen <= last
        /\ request[c].seen = last =>
             \A r \in readings :
                r.of = request[c].of /\ r.flat = request[c].flat /\ r.day = request[c].day
                  => r.moved
    BY <2>1 DEF ReadingInv, MissesStand
  <2>4. request[c].seen <= last' /\ (request[c].seen = last' => request[c].seen = last)
    BY <1>1, <2>2, <2>3 DEF Quiet
  <2> QED
    BY <2>1, <2>3, <2>4 DEF Quiet
<1>4. OneReadingPerDay'
  BY DEF ReadingInv, OneReadingPerDay, Quiet
<1> QED
  BY <1>2, <1>3, <1>4 DEF ReadingInv

LEMMA ReadingStep == TypeOK /\ ReadingInv /\ [Next]_vars => ReadingInv'
<1> SUFFICES ASSUME TypeOK, ReadingInv, [Next]_vars PROVE ReadingInv'
  OBVIOUS
<1>l. last \in Nat /\ request \in [Clients -> Request] /\ readings \subseteq Reading
  BY DEF TypeOK
<1>1. CASE Quiet
  BY <1>1, QuietKeeps
<1>2. ASSUME NEW c \in Clients, UpdateReading(c) PROVE ReadingInv'
  <2>0. PICK f \in request[c].left : \E r \in OnTheDay(c, f) :
          /\ readings' = (readings \ {r}) \cup {[r EXCEPT !.value = f.value]}
          /\ GoOn(c, request[c].left \ {f})
    BY <1>2 DEF UpdateReading
  <2>1. PICK r \in OnTheDay(c, f) :
          /\ readings' = (readings \ {r}) \cup {[r EXCEPT !.value = f.value]}
          /\ GoOn(c, request[c].left \ {f})
    BY <2>0
  <2> DEFINE n == [r EXCEPT !.value = f.value]
  <2>2. /\ r \in readings /\ r \in Reading
        /\ n.id = r.id /\ n.of = r.of /\ n.flat = r.flat /\ n.day = r.day
        /\ n.late = r.late /\ n.moved = r.moved
    BY <1>l, <2>1 DEF OnTheDay, Reading
  <2>3. \A d \in Clients : request'[d] = request[d] \/ request'[d].op \notin {"insert", "edit"}
    BY <1>l, <2>1 DEF GoOn, Idle
  <2>4. last' = last
    BY <1>2 DEF UpdateReading
  <2>5. readings' = (readings \ {r}) \cup {n}
    BY <2>1
  <2> HIDE DEF n
  <2>6. KeysFresh'
    BY <2>2, <2>3, <2>4, <2>5 DEF ReadingInv, KeysFresh
  <2>7. MissesStand'
    BY <2>2, <2>3, <2>4, <2>5 DEF ReadingInv, MissesStand
  <2>8. OneReadingPerDay'
    BY <2>2, <2>5 DEF ReadingInv, OneReadingPerDay
  <2> QED
    BY <2>6, <2>7, <2>8 DEF ReadingInv
<1>3. ASSUME NEW c \in Clients, MissReading(c) PROVE ReadingInv'
  <2>1. PICK f \in request[c].left :
          /\ OnTheDay(c, f) = {}
          /\ request' = [request EXCEPT ![c] =
               [op |-> "insert", flat |-> request[c].flat, day |-> request[c].day,
                left |-> request[c].left \ {f}, of |-> f.of, value |-> f.value, seen |-> last]]
    BY <1>3 DEF MissReading
  <2>2. readings' = readings /\ last' = last
    BY <1>3 DEF MissReading
  <2>3. KeysFresh'
    BY <1>l, <2>1, <2>2 DEF ReadingInv, KeysFresh
  <2>4. \A r \in readings : ~(r.of = f.of /\ r.flat = request[c].flat /\ r.day = request[c].day)
    BY <2>1 DEF OnTheDay
  <2>5. MissesStand'
    BY <1>l, <2>1, <2>2, <2>4 DEF ReadingInv, MissesStand
  <2>6. OneReadingPerDay'
    BY <2>2 DEF ReadingInv, OneReadingPerDay
  <2> QED
    BY <2>3, <2>5, <2>6 DEF ReadingInv
<1>4. ASSUME NEW c \in Clients, InsertReading(c) PROVE ReadingInv'
  <2> DEFINE n == NewReading(c)
  <2>1. /\ n.id = last + 1 /\ n.of = request[c].of /\ n.flat = request[c].flat
        /\ n.day = request[c].day /\ n.late = (last # request[c].seen)
    BY DEF NewReading
  <2>2. /\ readings' = readings \cup {n} /\ last' = last + 1
        /\ request[c].op = "insert"
    BY <1>4 DEF InsertReading, NewRow
  <2>3. \A d \in Clients : request'[d] = request[d] \/ request'[d].op \notin {"insert", "edit"}
    BY <1>4, <1>l DEF InsertReading, GoOn, Idle
  <2> HIDE DEF n
  <2>4. KeysFresh'
    <3>1. ASSUME NEW r \in readings PROVE r.id <= last + 1
      BY <1>l, ReadingTyped DEF ReadingInv, KeysFresh
    <3>2. ASSUME NEW d \in Clients, request[d].op = "edit" PROVE request[d].row.id <= last + 1
      BY <1>l, <3>2, RequestTyped DEF ReadingInv, KeysFresh, Reading
    <3> QED
      BY <1>l, <2>1, <2>2, <2>3, <3>1, <3>2 DEF KeysFresh
  <2>5. MissesStand'
    <3>1. ASSUME NEW d \in Clients, request[d].op = "insert"
          PROVE  request[d].seen <= last + 1 /\ request[d].seen # last + 1
      BY <1>l, <3>1, RequestTyped DEF ReadingInv, MissesStand
    <3> QED
      BY <2>2, <2>3, <3>1 DEF MissesStand
  <2>6. OneReadingPerDay'
    <3>1. \A r \in readings : r.of = n.of /\ r.flat = n.flat /\ r.day = n.day => n.late \/ r.moved
      BY <2>1, <2>2 DEF ReadingInv, MissesStand
    <3> QED
      BY <2>2, <3>1 DEF ReadingInv, OneReadingPerDay
  <2> QED
    BY <2>4, <2>5, <2>6 DEF ReadingInv
<1>5. ASSUME NEW c \in Clients, EditRead(c) PROVE ReadingInv'
  <2>1. PICK r \in readings : request' = [request EXCEPT ![c] = [op |-> "edit", row |-> r]]
    BY <1>5 DEF EditRead
  <2>2. readings' = readings /\ last' = last
    BY <1>5 DEF EditRead
  <2>3. KeysFresh'
    BY <1>l, <2>1, <2>2 DEF ReadingInv, KeysFresh
  <2>4. MissesStand'
    BY <1>l, <2>1, <2>2 DEF ReadingInv, MissesStand
  <2>5. OneReadingPerDay'
    BY <2>2 DEF ReadingInv, OneReadingPerDay
  <2> QED
    BY <2>3, <2>4, <2>5 DEF ReadingInv
<1>6. ASSUME NEW c \in Clients, EditWrite(c) PROVE ReadingInv'
  <2>1. PICK u \in Utilities, day \in Days, value \in Values :
          readings' = {r \in readings : r.id # request[c].row.id} \cup
            {[request[c].row EXCEPT !.of = u, !.day = day, !.value = value, !.moved = TRUE]}
    BY <1>6 DEF EditWrite
  <2> DEFINE n == [request[c].row EXCEPT !.of = u, !.day = day, !.value = value, !.moved = TRUE]
  <2>2. /\ request[c].op = "edit" /\ last' = last
        /\ \A d \in Clients : request'[d] = request[d] \/ request'[d].op \notin {"insert", "edit"}
    BY <1>6, <1>l DEF EditWrite, Done, Idle
  <2>3. n.id = request[c].row.id /\ n.moved
    BY <2>2, RequestTyped DEF Reading
  <2>4. readings' \subseteq readings \cup {n} 
    BY <2>1
  <2> HIDE DEF n
  <2>5. KeysFresh'
    BY <2>2, <2>3, <2>4 DEF ReadingInv, KeysFresh
  <2>6. MissesStand'
    BY <2>2, <2>3, <2>4 DEF ReadingInv, MissesStand
  <2>7. OneReadingPerDay'
    BY <2>3, <2>4 DEF ReadingInv, OneReadingPerDay
  <2> QED
    BY <2>5, <2>6, <2>7 DEF ReadingInv
<1>7. CASE UNCHANGED vars
  BY <1>1, <1>7, <1>l DEF vars, Quiet
<1>8. ASSUME NEW c \in Clients,
             \/ AddUtility(c) \/ AddMeter(c) \/ PriceRead(c) \/ PriceInsert(c) \/ DeletePrice(c)
             \/ MoveRead(c) \/ MoveMeter(c) \/ DeleteUtility(c)
      PROVE  Quiet
  BY <1>8, <1>l DEF Quiet, NewRow, Done, Idle, OtherReadings, AddUtility, AddMeter, PriceRead,
     PriceInsert, DeletePrice, MoveRead, MoveMeter, DeleteUtility
<1>9. ASSUME NEW c \in Clients,
             EstimateForm(c) \/ SubmitAbort(c) \/ DeleteReading(c) \/ DeleteRow(c)
      PROVE  Quiet
  BY <1>9, <1>l DEF Quiet, Done, Idle, EstimateForm, SubmitAbort, DeleteReading, DeleteRow
<1>10. ASSUME NEW c \in Clients,
              \/ InvoiceUpdate(c) \/ InvoiceMiss(c) \/ InvoiceInsert(c) \/ DeleteInvoice(c)
              \/ Abort(c)
       PROVE  Quiet
  BY <1>10, <1>l DEF Quiet, NewRow, Done, Idle, InvoiceUpdate, InvoiceMiss, InvoiceInsert,
     DeleteInvoice, Abort
<1>11. ASSUME NEW c \in Clients, Submit(c) PROVE Quiet
  <2>1. request'[c].op = "submit" /\ \A d \in Clients : d # c => request'[d] = request[d]
    <3>1. CASE /\ request[c].op = "estimate"
               /\ request' = [request EXCEPT ![c].op = "submit"]
      <4>1. [request[c] EXCEPT !.op = "submit"].op = "submit"
        BY <3>1, RequestTyped
      <4> QED
        BY <1>l, <3>1, <4>1
    <3>2. CASE request[c] = Idle
      BY <1>l, <1>11, <3>2 DEF Submit, Idle
    <3> QED
      BY <1>11, <3>1, <3>2 DEF Submit, Free
  <2> QED
    BY <1>11, <1>l, <2>1 DEF Submit, Quiet
<1> QED
  BY <1>1, <1>2, <1>3, <1>4, <1>5, <1>6, <1>7, <1>8, <1>9, <1>10, <1>11 DEF Next

(***************************************************************************)
(* Rows and their utilities.                                               *)
(***************************************************************************)

LEMMA OrphanStep == TypeOK /\ NothingOrphaned /\ [Next]_vars => NothingOrphaned'
<1> SUFFICES ASSUME TypeOK, NothingOrphaned, [Next]_vars PROVE NothingOrphaned'
  OBVIOUS
<1> DEFINE rows == prices \cup readings \cup invoices
<1>l. utilities \in [Utilities -> Utility \cup {None}] /\ readings \subseteq Reading
      /\ invoices \subseteq Invoice
  BY DEF TypeOK
<1>0. \A row \in rows : utilities[row.of] # None
  BY DEF NothingOrphaned, Exists
\* Rows that were there, or of a utility that is, with the utilities that were there.
<1>1. ASSUME \A row \in rows' : row \in rows \/ utilities[row.of] # None,
             \A u : utilities[u] # None => utilities'[u] # None
      PROVE  NothingOrphaned'
  BY <1>0, <1>1 DEF NothingOrphaned, Exists
<1>2. CASE /\ prices' \subseteq prices /\ readings' \subseteq readings /\ invoices' \subseteq invoices
           /\ utilities' = utilities
  BY <1>1, <1>2
<1>3. ASSUME NEW c \in Clients, AddUtility(c) \/ AddMeter(c) PROVE NothingOrphaned'
  <2>1. PICK u \in Utilities, new \in Utility : utilities' = [utilities EXCEPT ![u] = new]
    BY <1>3 DEF AddUtility, AddMeter, Utility
  <2>2. \A v : utilities[v] # None => utilities'[v] # None
    BY <1>l, <2>1
  <2> QED
    BY <1>1, <1>3, <2>2 DEF AddUtility, AddMeter
<1>4. ASSUME NEW c \in Clients, MoveMeter(c) PROVE NothingOrphaned'
  <2>1. request[c].of \in Utilities
    BY <1>4, RequestTyped DEF MoveMeter
  <2>2. PICK new \in Utility : utilities' = [utilities EXCEPT ![request[c].of] = new]
    BY <1>4 DEF MoveMeter, Utility
  <2>3. \A v : utilities[v] # None => utilities'[v] # None
    BY <1>l, <2>1, <2>2
  <2> QED
    BY <1>1, <1>4, <2>3 DEF MoveMeter
<1>5. ASSUME NEW c \in Clients, DeleteUtility(c) PROVE NothingOrphaned'
  <2>1. PICK u \in Utilities :
          /\ utilities' = [utilities EXCEPT ![u] = None]
          /\ prices' = {p \in prices : p.of # u}
          /\ readings' = OtherReadings(u)
          /\ invoices' = {i \in invoices : i.of # u}
    BY <1>5 DEF DeleteUtility
  <2>2. \A row \in rows' : row \in rows /\ row.of # u
    BY <2>1 DEF OtherReadings, ReadingsOf
  <2>3. \A v : v # u => utilities'[v] = utilities[v]
    BY <1>l, <2>1
  <2> QED
    BY <1>0, <2>2, <2>3 DEF NothingOrphaned, Exists
<1>6. ASSUME NEW c \in Clients, PriceInsert(c) PROVE NothingOrphaned'
  BY <1>1, <1>6 DEF PriceInsert, Live, Exists
<1>7. ASSUME NEW c \in Clients, UpdateReading(c) PROVE NothingOrphaned'
  <2>1. PICK r \in readings, f \in request[c].left : readings' = (readings \ {r}) \cup {[r EXCEPT !.value = f.value]}
    BY <1>7 DEF UpdateReading, OnTheDay
  <2>2. [r EXCEPT !.value = f.value].of = r.of
    BY <1>l DEF Reading
  <2>3. \A row \in readings' : row \in readings \/ utilities[row.of] # None
    BY <1>0, <2>1, <2>2
  <2> QED
    BY <1>1, <1>7, <2>3 DEF UpdateReading
<1>8. ASSUME NEW c \in Clients, InsertReading(c) PROVE NothingOrphaned'
  BY <1>1, <1>8 DEF InsertReading, NewReading, Live, Exists
<1>9. ASSUME NEW c \in Clients, EditWrite(c) PROVE NothingOrphaned'
  <2>1. PICK u \in Utilities, day \in Days, value \in Values :
          /\ Live(u)
          /\ readings' = {r \in readings : r.id # request[c].row.id} \cup
               {[request[c].row EXCEPT !.of = u, !.day = day, !.value = value, !.moved = TRUE]}
    BY <1>9 DEF EditWrite
  <2>2. [request[c].row EXCEPT !.of = u, !.day = day, !.value = value, !.moved = TRUE].of = u
    BY <1>9, RequestTyped DEF EditWrite, Reading
  <2>3. \A row \in readings' : row \in readings \/ utilities[row.of] # None
    BY <2>1, <2>2 DEF Live, Exists
  <2> QED
    BY <1>1, <1>9, <2>3 DEF EditWrite
<1>10. ASSUME NEW c \in Clients, InvoiceUpdate(c) PROVE NothingOrphaned'
  <2>1. PICK i \in invoices, amount \in Amounts : invoices' = (invoices \ {i}) \cup {[i EXCEPT !.amount = amount]}
    BY <1>10 DEF InvoiceUpdate
  <2> DEFINE n == [i EXCEPT !.amount = amount]
  <2>2. n.of = i.of /\ utilities[i.of] # None
    BY <1>0, <1>l, <2>1 DEF Invoice
  <2>4. invoices' = (invoices \ {i}) \cup {n}
    BY <2>1
  <2> HIDE DEF n
  <2>3. \A row \in invoices' : row \in invoices \/ utilities[row.of] # None
    BY <2>2, <2>4
  <2> QED
    BY <1>1, <1>10, <2>3 DEF InvoiceUpdate
<1>11. ASSUME NEW c \in Clients, InvoiceInsert(c) PROVE NothingOrphaned'
  <2> DEFINE u == request[c].of
             there == OfMonth(u, request[c].month)
             new == [id |-> last + 1, of |-> u, month |-> request[c].month,
                     amount |-> request[c].amount]
             changed(i) == [i EXCEPT !.amount = request[c].amount]
  <2>1. \A i \in there : changed(i).of = u
    BY <1>l DEF OfMonth, Invoice
  <2>2. new.of = u
    OBVIOUS
  <2>3. invoices' = (invoices \ there) \cup IF there = {} THEN {new} ELSE {changed(i) : i \in there}
    BY <1>11 DEF InvoiceInsert
  <2>4. UNCHANGED <<utilities, prices, readings>> /\ Live(u)
    BY <1>11 DEF InvoiceInsert
  <2> HIDE DEF u, there, new, changed
  <2>5. \A row \in invoices' : row \in invoices \/ row.of = u
    BY <2>1, <2>2, <2>3
  <2> QED
    BY <1>1, <2>4, <2>5 DEF Live, Exists
<1>12. CASE UNCHANGED vars
  BY <1>2, <1>12 DEF vars
<1>13. ASSUME NEW c \in Clients,
              \/ PriceRead(c) \/ DeletePrice(c) \/ MoveRead(c) \/ EstimateForm(c) \/ Submit(c)
              \/ MissReading(c) \/ SubmitAbort(c) \/ EditRead(c) \/ DeleteReading(c)
              \/ DeleteRow(c) \/ InvoiceMiss(c) \/ DeleteInvoice(c) \/ Abort(c)
       PROVE  NothingOrphaned'
  BY <1>2, <1>13 DEF PriceRead, DeletePrice, MoveRead, EstimateForm, Submit, MissReading,
     SubmitAbort, EditRead, DeleteReading, DeleteRow, InvoiceMiss, DeleteInvoice, Abort
<1> QED
  BY <1>3, <1>4, <1>5, <1>6, <1>7, <1>8, <1>9, <1>10, <1>11, <1>12, <1>13 DEF Next

(***************************************************************************)
(* Invoices of one month.                                                  *)
(***************************************************************************)

LEMMA InvoiceStep == TypeOK /\ OneInvoicePerMonth /\ [Next]_vars => OneInvoicePerMonth'
<1> SUFFICES ASSUME TypeOK, OneInvoicePerMonth, [Next]_vars PROVE OneInvoicePerMonth'
  OBVIOUS
<1>l. invoices \subseteq Invoice
  BY DEF TypeOK
<1>1. CASE invoices' \subseteq invoices
  BY <1>1 DEF OneInvoicePerMonth
<1>2. ASSUME NEW c \in Clients, InvoiceUpdate(c) PROVE OneInvoicePerMonth'
  <2>1. PICK i \in invoices, amount \in Amounts : invoices' = (invoices \ {i}) \cup {[i EXCEPT !.amount = amount]}
    BY <1>2 DEF InvoiceUpdate
  <2> DEFINE n == [i EXCEPT !.amount = amount]
  <2>2. i.of = n.of /\ i.month = n.month
    BY <1>l, <2>1 DEF Invoice
  <2>3. invoices' = (invoices \ {i}) \cup {n}
    BY <2>1
  <2> HIDE DEF n
  <2> QED
    BY <2>1, <2>2, <2>3 DEF OneInvoicePerMonth
<1>3. ASSUME NEW c \in Clients, InvoiceInsert(c) PROVE OneInvoicePerMonth'
  <2> DEFINE u == request[c].of
             m == request[c].month
             there == OfMonth(u, m)
  <2>1. PICK n : invoices' = (invoices \ there) \cup {n} /\ n.of = u /\ n.month = m
    <3>1. CASE there = {}
      BY <1>3, <3>1 DEF InvoiceInsert
    <3>2. CASE there # {}
      <4>1. PICK i \in there : TRUE
        BY <3>2
      <4>2. there = {i}
        BY <4>1 DEF OfMonth, OneInvoicePerMonth
      <4>3. LET n == [i EXCEPT !.amount = request[c].amount] IN n.of = u /\ n.month = m
        BY <1>l, <4>1 DEF Invoice, OfMonth
      <4>4. invoices' = (invoices \ there) \cup {[i EXCEPT !.amount = request[c].amount]}
        BY <1>3, <3>2, <4>2 DEF InvoiceInsert
      <4> QED
        BY <4>3, <4>4
    <3> QED
      BY <3>1, <3>2
  <2>2. \A j \in invoices \ there : ~(j.of = u /\ j.month = m)
    BY DEF OfMonth
  <2> HIDE DEF u, m, there
  <2> QED
    BY <2>1, <2>2 DEF OneInvoicePerMonth
<1>4. CASE UNCHANGED invoices
  BY <1>1, <1>4
<1> QED
  BY <1>1, <1>2, <1>3, <1>4 DEF Next, vars, AddUtility, AddMeter, PriceRead, PriceInsert,
     DeletePrice, MoveRead, MoveMeter, DeleteUtility, EstimateForm, Submit, UpdateReading,
     MissReading, InsertReading, SubmitAbort, EditRead, EditWrite, DeleteReading, DeleteRow,
     InvoiceMiss, DeleteInvoice, Abort

(***************************************************************************)
(* Readings are of meters.                                                 *)
(***************************************************************************)

\* The keys of utilities that are meters, or no longer there.
MeterOrGone == {u \in Utilities : Exists(u) => utilities[u].kind = "meter"}

\* What a request in flight is going to write readings of, or move.
Asked(c) ==
    (IF request[c].op \in {"estimate", "submit", "insert"} THEN {f.of : f \in request[c].left} ELSE {})
    \cup (IF request[c].op \in {"insert", "move"} THEN {request[c].of} ELSE {})

OnlyMeters ==
    /\ \A r \in readings : r.of \in MeterOrGone
    /\ \A c \in Clients : Asked(c) \subseteq MeterOrGone

LEMMA MetersStep == TypeOK /\ NothingOrphaned /\ OnlyMeters /\ [Next]_vars => OnlyMeters'
<1> SUFFICES ASSUME TypeOK, NothingOrphaned, OnlyMeters, [Next]_vars PROVE OnlyMeters'
  OBVIOUS
<1>l. /\ utilities \in [Utilities -> Utility \cup {None}] /\ readings \subseteq Reading
      /\ request \in [Clients -> Request]
  BY DEF TypeOK
<1>a. /\ \A r \in readings : r.of \in MeterOrGone
      /\ \A c \in Clients : Asked(c) \subseteq MeterOrGone
  BY DEF OnlyMeters
\* The rows a step keeps, and what its requests still ask for, are of meters as before.
<1>b. ASSUME MeterOrGone \subseteq MeterOrGone',
             \A r \in readings' : r.of \in MeterOrGone',
             NEW c \in Clients, Asked(c)' \subseteq MeterOrGone',
             \A d \in Clients : d # c => request'[d] = request[d]
      PROVE  OnlyMeters'
  <2>1. \A d \in Clients : d # c => Asked(d)' = Asked(d)
    BY <1>b DEF Asked
  <2> QED
    BY <1>a, <1>b, <2>1 DEF OnlyMeters
<1>c. \A c \in Clients : request'[c] = Idle => Asked(c)' = {}
  BY DEF Asked, Idle
<1>1. CASE UNCHANGED vars
  BY <1>1 DEF vars, OnlyMeters, MeterOrGone, Asked, Exists
<1>2. ASSUME NEW c \in Clients, AddUtility(c) PROVE OnlyMeters'
  <2>1. PICK u \in Utilities, kind \in Kinds, flat \in Flats :
          /\ ~Exists(u)
          /\ \A d \in Clients : request[d] = Idle
          /\ utilities' = [utilities EXCEPT ![u] = [kind |-> kind, flat |-> flat]]
    BY <1>2 DEF AddUtility
  <2>2. \A r \in readings : r.of # u
    BY <2>1 DEF NothingOrphaned
  <2>3. \A v \in MeterOrGone : v # u => v \in MeterOrGone'
    BY <1>l, <2>1 DEF MeterOrGone, Exists
  <2>4. \A d \in Clients : Asked(d)' = {}
    <3>1. \A d \in Clients : request'[d] = Idle \/ request'[d].op = "price"
      BY <1>2, <1>l, <2>1 DEF AddUtility
    <3> QED
      BY <3>1 DEF Asked, Idle
  <2>5. readings' = readings
    BY <1>2 DEF AddUtility
  <2> QED
    BY <1>a, <2>2, <2>3, <2>4, <2>5 DEF OnlyMeters
<1>3. ASSUME NEW c \in Clients, AddMeter(c) \/ MoveMeter(c) \/ DeleteUtility(c) PROVE OnlyMeters'
  <2>1. MeterOrGone \subseteq MeterOrGone'
    <3>1. \E u \in Utilities : \E row :
            /\ utilities' = [utilities EXCEPT ![u] = row]
            /\ row = None \/ row.kind = "meter"
      <4>1. CASE AddMeter(c)
        <5>1. PICK u \in Utilities, flat \in Flats :
                utilities' = [utilities EXCEPT ![u] = [kind |-> "meter", flat |-> flat]]
          BY <4>1 DEF AddMeter
        <5>2. [kind |-> "meter", flat |-> flat].kind = "meter"
          OBVIOUS
        <5> QED
          BY <5>1, <5>2
      <4>2. CASE MoveMeter(c)
        <5>1. request[c].of \in Utilities
          BY <4>2, RequestTyped DEF MoveMeter
        <5>2. PICK flat \in Flats :
                utilities' = [utilities EXCEPT ![request[c].of] = [kind |-> "meter", flat |-> flat]]
          BY <4>2 DEF MoveMeter
        <5>3. [kind |-> "meter", flat |-> flat].kind = "meter"
          OBVIOUS
        <5> QED
          BY <5>1, <5>2, <5>3
      <4>3. CASE DeleteUtility(c)
        <5>1. PICK u \in Utilities : utilities' = [utilities EXCEPT ![u] = None]
          BY <4>3 DEF DeleteUtility
        <5> QED
          BY <5>1
      <4> QED
        BY <1>3, <4>1, <4>2, <4>3
    <3> QED
      BY <1>l, <3>1 DEF MeterOrGone, Exists
  <2>2. readings' \subseteq readings
    BY <1>3 DEF AddMeter, MoveMeter, DeleteUtility, OtherReadings
  <2>3. \A d \in Clients : request'[d] = request[d] \/ request'[d] = Idle
    BY <1>3, <1>l DEF AddMeter, MoveMeter, DeleteUtility, Done
  <2>4. \A d \in Clients : Asked(d)' \subseteq Asked(d)
    BY <1>c, <2>3 DEF Asked
  <2> QED
    BY <1>a, <2>1, <2>2, <2>4 DEF OnlyMeters
<1> USE DEF Done
<1>m. UNCHANGED utilities => MeterOrGone' = MeterOrGone
  BY DEF MeterOrGone, Exists
<1>n. ASSUME UNCHANGED utilities, \A r \in readings' : r.of \in MeterOrGone,
             NEW c \in Clients, Asked(c)' \subseteq MeterOrGone,
             \A d \in Clients : d # c => request'[d] = request[d]
      PROVE  OnlyMeters'
  BY <1>b, <1>m, <1>n
<1>4. ASSUME NEW c \in Clients,
             \/ PriceRead(c) \/ PriceInsert(c) \/ DeletePrice(c) \/ InvoiceUpdate(c)
             \/ InvoiceMiss(c) \/ InvoiceInsert(c) \/ DeleteInvoice(c)
             \/ DeleteReading(c) \/ DeleteRow(c) \/ EditRead(c) \/ Abort(c) \/ SubmitAbort(c)
      PROVE  OnlyMeters'
  <2>1. /\ UNCHANGED utilities /\ readings' \subseteq readings
        /\ \A d \in Clients : d # c => request'[d] = request[d]
    BY <1>4, <1>l DEF PriceRead, PriceInsert, DeletePrice, InvoiceUpdate, InvoiceMiss,
       InvoiceInsert, DeleteInvoice, DeleteReading, DeleteRow, EditRead, Abort, SubmitAbort
  <2>2. \/ request' = request
        \/ request'[c] = Idle
        \/ request'[c].op \in {"price", "invoice", "edit"}
    BY <1>4, <1>l DEF PriceRead, PriceInsert, DeletePrice, InvoiceUpdate, InvoiceMiss,
       InvoiceInsert, DeleteInvoice, DeleteReading, DeleteRow, EditRead, Abort, SubmitAbort
  <2>3. Asked(c)' \subseteq Asked(c)
    BY <1>c, <2>2 DEF Asked
  <2> QED
    BY <1>a, <1>n, <2>1, <2>3
<1>5. ASSUME NEW c \in Clients, MoveRead(c) PROVE OnlyMeters'
  <2>1. PICK u \in Utilities :
          utilities[u].kind = "meter" /\ request' = [request EXCEPT ![c] = [op |-> "move", of |-> u]]
    BY <1>5 DEF MoveRead
  <2>2. Asked(c)' \subseteq MeterOrGone
    BY <1>l, <2>1 DEF Asked, MeterOrGone
  <2> QED
    BY <1>5, <1>l, <1>a, <1>n, <2>1, <2>2 DEF MoveRead
<1>6. ASSUME NEW c \in Clients, EstimateForm(c) PROVE OnlyMeters'
  <2>1. PICK flat \in Flats, day \in Days, months \in Windows :
          request' = [request EXCEPT ![c] =
            [op |-> "estimate", flat |-> flat, day |-> day, left |-> Filled(flat, day, months)]]
    BY <1>6 DEF EstimateForm
  <2>2. \A f \in Filled(flat, day, months) : f.of \in MeterOrGone
    BY DEF Filled, Meters, MeterOrGone
  <2>3. Asked(c)' \subseteq MeterOrGone
    BY <1>l, <2>1, <2>2 DEF Asked
  <2> QED
    BY <1>6, <1>l, <1>a, <1>n, <2>1, <2>3 DEF EstimateForm
<1>7. ASSUME NEW c \in Clients, Submit(c) PROVE OnlyMeters'
  <2>1. CASE /\ request[c].op = "estimate"
             /\ request' = [request EXCEPT ![c].op = "submit"]
    <3>1. request'[c].op = "submit" /\ request'[c].left = request[c].left
      BY <1>l, <2>1, RequestTyped
    <3>2. Asked(c)' \subseteq Asked(c)
      BY <2>1, <3>1 DEF Asked
    <3>3. \A d \in Clients : d # c => request'[d] = request[d]
      BY <1>l, <2>1
    <3> QED
      BY <1>7, <1>a, <1>n, <3>2, <3>3 DEF Submit
  <2>2. CASE \E flat \in Flats, day \in Days : \E typed \in SUBSET Meters(flat) :
               \E value \in [typed -> Values] :
                 request' = [request EXCEPT ![c] =
                   [op |-> "submit", flat |-> flat, day |-> day,
                    left |-> {[of |-> u, value |-> value[u]] : u \in typed}]]
    <3>1. PICK flat \in Flats, day \in Days : \E typed \in SUBSET Meters(flat) :
            \E value \in [typed -> Values] :
              request' = [request EXCEPT ![c] =
                [op |-> "submit", flat |-> flat, day |-> day,
                 left |-> {[of |-> u, value |-> value[u]] : u \in typed}]]
      BY <2>2
    <3>2. PICK typed \in SUBSET Meters(flat) : \E value \in [typed -> Values] :
            request' = [request EXCEPT ![c] =
              [op |-> "submit", flat |-> flat, day |-> day,
               left |-> {[of |-> u, value |-> value[u]] : u \in typed}]]
      BY <3>1
    <3>3. PICK value \in [typed -> Values] :
            request' = [request EXCEPT ![c] =
              [op |-> "submit", flat |-> flat, day |-> day,
               left |-> {[of |-> u, value |-> value[u]] : u \in typed}]]
      BY <3>2
    <3>4. typed \subseteq MeterOrGone
      BY <3>2 DEF Meters, MeterOrGone
    <3>5. /\ request'[c].op = "submit"
          /\ request'[c].left = {[of |-> u, value |-> value[u]] : u \in typed}
          /\ \A d \in Clients : d # c => request'[d] = request[d]
      BY <1>l, <3>3
    <3>6. Asked(c)' \subseteq MeterOrGone
      BY <3>4, <3>5 DEF Asked
    <3> QED
      BY <1>7, <1>a, <1>n, <3>5, <3>6 DEF Submit
  <2> QED
    BY <1>7, <2>1, <2>2 DEF Submit
<1>8. ASSUME NEW c \in Clients, NEW left \in SUBSET request[c].left,
             request[c].op \in {"submit", "insert"}, GoOn(c, left)
      PROVE  /\ Asked(c)' \subseteq MeterOrGone
             /\ \A d \in Clients : d # c => request'[d] = request[d]
  <2>1. \A d \in Clients : d # c => request'[d] = request[d]
    BY <1>l, <1>8 DEF GoOn
  <2>2. request'[c] = Idle \/ (request'[c].op = "submit" /\ request'[c].left = left)
    BY <1>l, <1>8 DEF GoOn
  <2>3. Asked(c)' \subseteq Asked(c)
    BY <1>c, <1>8, <2>2 DEF Asked
  <2> QED
    BY <1>a, <2>1, <2>3
<1>9. ASSUME NEW c \in Clients, UpdateReading(c) PROVE OnlyMeters'
  <2>0. PICK f \in request[c].left : \E r \in OnTheDay(c, f) :
          /\ readings' = (readings \ {r}) \cup {[r EXCEPT !.value = f.value]}
          /\ GoOn(c, request[c].left \ {f})
    BY <1>9 DEF UpdateReading
  <2>1. PICK r \in OnTheDay(c, f) :
          /\ readings' = (readings \ {r}) \cup {[r EXCEPT !.value = f.value]}
          /\ GoOn(c, request[c].left \ {f})
    BY <2>0
  <2>2. r \in readings /\ r \in Reading
    BY <1>l DEF OnTheDay
  <2>3. [r EXCEPT !.value = f.value].of = r.of
    BY <2>2 DEF Reading
  <2>4. \A s \in readings' : s.of \in MeterOrGone
    BY <1>a, <2>1, <2>2, <2>3
  <2>5. /\ Asked(c)' \subseteq MeterOrGone
        /\ \A d \in Clients : d # c => request'[d] = request[d]
    BY <1>8, <1>9, <2>1 DEF UpdateReading
  <2> QED
    BY <1>9, <1>n, <2>4, <2>5 DEF UpdateReading
<1>10. ASSUME NEW c \in Clients, MissReading(c) PROVE OnlyMeters'
  <2>1. PICK f \in request[c].left :
          request' = [request EXCEPT ![c] =
            [op |-> "insert", flat |-> request[c].flat, day |-> request[c].day,
             left |-> request[c].left \ {f}, of |-> f.of, value |-> f.value, seen |-> last]]
    BY <1>10 DEF MissReading
  <2>2. /\ request'[c].op = "insert" /\ request'[c].left \subseteq request[c].left
        /\ request'[c].of = f.of
        /\ \A d \in Clients : d # c => request'[d] = request[d]
    BY <1>l, <2>1
  <2>3. Asked(c)' \subseteq Asked(c)
    BY <1>10, <2>2 DEF Asked, MissReading
  <2> QED
    BY <1>10, <1>a, <1>n, <2>2, <2>3 DEF MissReading
<1>11. ASSUME NEW c \in Clients, InsertReading(c) PROVE OnlyMeters'
  <2>1. /\ request[c].op = "insert" /\ GoOn(c, request[c].left)
        /\ readings' = readings \cup {NewReading(c)} /\ UNCHANGED utilities
    BY <1>11 DEF InsertReading
  <2>2. NewReading(c).of = request[c].of /\ request[c].of \in Asked(c)
    BY <2>1 DEF NewReading, Asked
  <2>3. /\ Asked(c)' \subseteq MeterOrGone
        /\ \A d \in Clients : d # c => request'[d] = request[d]
    BY <1>8, <2>1
  <2> QED
    BY <1>a, <1>n, <2>1, <2>2, <2>3
<1>12. ASSUME NEW c \in Clients, EditWrite(c) PROVE OnlyMeters'
  <2>1. PICK u \in Utilities, day \in Days, value \in Values :
          /\ Live(u)
          /\ utilities[u] # None => utilities[u].kind = "meter"
          /\ readings' = {r \in readings : r.id # request[c].row.id} \cup
               {[request[c].row EXCEPT !.of = u, !.day = day, !.value = value, !.moved = TRUE]}
    BY <1>12 DEF EditWrite
  <2> DEFINE n == [request[c].row EXCEPT !.of = u, !.day = day, !.value = value, !.moved = TRUE]
  <2>2. n.of = u
    BY <1>12, RequestTyped DEF Reading, EditWrite
  <2>3. u \in MeterOrGone
    BY <2>1 DEF MeterOrGone, Exists
  <2>4. readings' \subseteq readings \cup {n}
    BY <2>1
  <2> HIDE DEF n
  <2>5. \A r \in readings' : r.of \in MeterOrGone
    BY <1>a, <2>2, <2>3, <2>4
  <2>6. request'[c] = Idle /\ \A d \in Clients : d # c => request'[d] = request[d]
    BY <1>12, <1>l DEF EditWrite
  <2> QED
    BY <1>12, <1>c, <1>n, <2>5, <2>6 DEF EditWrite
<1> QED
  BY <1>1, <1>2, <1>3, <1>4, <1>5, <1>6, <1>7, <1>9, <1>10, <1>11, <1>12 DEF Next

(***************************************************************************)
(* The columns of the matrix.                                              *)
(***************************************************************************)

LEMMA SumOfIsSum == ASSUME NEW f PROVE SumOf(f) = SumFunctionOnSet(f, DOMAIN f)
BY DEF SumOf, FoldFunction, SumFunctionOnSet

LEMMA ColumnsAdd == TypeOK /\ KeysFresh /\ OnlyMeters => ColumnAddsUp
<1> SUFFICES ASSUME TypeOK, KeysFresh, OnlyMeters, NEW u \in Utilities,
                    Filed(u), ReadingsOf(u) # {}, \A r \in ReadingsOf(u) : Sole(r),
                    {r.day : r \in ReadingsOf(u)} = {r.day : r \in Matrix(utilities[u].flat)}
             PROVE  SumOf([r \in ReadingsOf(u) |->
                             IF Cell(u, r.day) = {} THEN 0
                             ELSE LET cell == CHOOSE x \in Cell(u, r.day) : TRUE
                                  IN  cell[2].value - cell[1].value])
                      = Latest(ReadingsOf(u)).value - Earliest(ReadingsOf(u)).value
  BY DEF ColumnAddsUp
<1> DEFINE R == ReadingsOf(u)
           D == {r.day : r \in R}
           On(d) == CHOOSE r \in R : r.day = d
           usage == [r \in R |-> IF Cell(u, r.day) = {} THEN 0
                                 ELSE LET cell == CHOOSE x \in Cell(u, r.day) : TRUE
                                      IN  cell[2].value - cell[1].value]
           day == [r \in R |-> r.day]
           v == [d \in D |-> On(d).value]
           step == [d \in D |-> usage[On(d)]]
<1>1. \A r \in R : r \in readings /\ r.of = u /\ r.day \in Days /\ r.value \in Int
  BY DEF TypeOK, Reading, ReadingsOf
<1>2. \A r, s \in R : r.day = s.day => r = s
  BY <1>1 DEF Sole, ReadingsOf
<1>3. \A r \in R : On(r.day) = r
  BY <1>2
<1>4. \A d \in D : On(d) \in R /\ On(d).day = d
  OBVIOUS
<1>5. D \in SUBSET Nat /\ D # {}
  BY <1>1 DEF Days
\* A day has one reading at most, so there are finitely many.
<1>6. IsFiniteSet(R)
  <2>1. day \in Injection(R, Days)
    <3>1. day \in [R -> Days] /\ \A r, s \in DOMAIN day : day[r] = day[s] => r = s
      BY <1>1, <1>2
    <3> HIDE DEF day
    <3> QED
      BY <3>1 DEF Injection, IsInjective
  <2>2. IsFiniteSet(Days)
    BY FS_Interval DEF Days
  <2> HIDE DEF R
  <2> QED
    BY <2>1, <2>2, FS_Injection
\* A cell is a reading and the one on the day before, of those with a reading.
<1>7. \A r \in Matrix(utilities[u].flat) : r.of = u <=> r \in R
  <2>1. R = {r \in readings : r.of = u}
    BY DEF ReadingsOf
  <2> QED
    BY <2>1 DEF Matrix
<1>8. R \subseteq Matrix(utilities[u].flat)
  <2>1. ASSUME NEW r \in R PROVE r \in Matrix(utilities[u].flat)
    <3>1. r \in readings /\ r.of = u /\ r.flat = utilities[u].flat
      BY <1>1 DEF Filed
    <3>2. u \in MeterOrGone /\ Exists(u)
      BY <3>1 DEF OnlyMeters, Filed
    <3> QED
      BY <3>1, <3>2 DEF Matrix, Meters, MeterOrGone
  <2> QED
    BY <2>1
<1>9. \A d : PrevDay(utilities[u].flat, d) = {p \in D : Prior(D, p, d)}
  BY DEF PrevDay, Prior
<1>10. \A d \in D : \A a, b :
         <<a, b>> \in Cell(u, d) <=> a \in R /\ b = On(d) /\ Prior(D, a.day, d)
  <2> TAKE d \in D
  <2> TAKE a, b
  <2>1. {r \in Matrix(utilities[u].flat) : r.of = u} = R
    BY <1>7, <1>8
  <2>2. <<a, b>> \in Cell(u, d) <=>
          a \in R /\ b \in R /\ b.day = d /\ a.day \in PrevDay(utilities[u].flat, d)
    BY <2>1 DEF Cell
  <2>3. b \in R /\ b.day = d <=> b = On(d)
    BY <1>3, <1>4
  <2>4. a \in R => (a.day \in PrevDay(utilities[u].flat, d) <=> Prior(D, a.day, d))
    BY <1>9
  <2> QED
    BY <2>2, <2>3, <2>4
<1>11. \A d : \A x \in Cell(u, d) : x = <<x[1], x[2]>>
  BY DEF Cell
<1> DEFINE low == Earliest(R).day
           high == Latest(R).day
<1>12. /\ Earliest(R) \in R /\ Latest(R) \in R
       /\ \A r \in R : low <= r.day /\ r.day <= high
  <2>1. R \in SUBSET readings /\ R # {}
    BY <1>1
  <2> HIDE DEF R
  <2> QED
    BY <2>1, LatestReading, EarliestReading
<1>13. low \in D /\ high \in D /\ \A d \in D : low <= d /\ d <= high
  BY <1>12
<1>14. v[low] = Earliest(R).value /\ v[high] = Latest(R).value
  BY <1>3, <1>12, <1>13
<1>u. \A r \in R : Cell(u, r.day) # {} =>
         usage[r] = (CHOOSE x \in Cell(u, r.day) : TRUE)[2].value
                      - (CHOOSE x \in Cell(u, r.day) : TRUE)[1].value
  OBVIOUS
<1> HIDE DEF R, D, On, low, high
<1>15. step[low] = 0
  <2>1. Cell(u, low) = {}
    <3> SUFFICES ASSUME NEW x \in Cell(u, low) PROVE FALSE
      OBVIOUS
    <3>1. Prior(D, x[1].day, low)
      BY <1>10, <1>11, <1>13
    <3>2. x[1].day \in D /\ x[1].day < low
      BY <3>1 DEF Prior
    <3>3. x[1].day \in Nat /\ low \in Nat /\ low <= x[1].day
      BY <1>5, <1>13, <3>2
    <3> QED
      BY <3>2, <3>3
  <2> QED
    BY <1>4, <1>13, <2>1
<1>16. ASSUME NEW d \in D \ {low} PROVE \E p : Prior(D, p, d) /\ step[d] = v[d] - v[p]
  <2>1. PICK p : Prior(D, p, d)
    <3> DEFINE T == {q \in D : q < d}
    <3>1. low \in T
      <4>1. low \in Nat /\ d \in Nat /\ low <= d /\ low # d
        BY <1>5, <1>13
      <4> QED
        BY <1>13, <4>1
    <3>2. T \in SUBSET Int /\ T # {} /\ d \in Int /\ \A q \in T : q <= d
      <4>1. \A q \in D : q \in Int
        <5>1. D \in SUBSET Nat /\ Nat \subseteq Int
          BY <1>5
        <5> HIDE DEF T, usage, day, v, step
        <5> QED
          BY <5>1
      <4>2. ASSUME NEW q \in T PROVE q \in Int /\ q <= d
        <5>1. q \in D /\ d \in D /\ q < d
          OBVIOUS
        <5>2. q \in Int /\ d \in Int
          BY <4>1, <5>1
        <5> HIDE DEF T
        <5> QED
          BY <5>1, <5>2
      <4>3. d \in Int
        BY <4>1
      <4> HIDE DEF T
      <4> QED
        BY <3>1, <4>2, <4>3
    <3>3. PICK p \in T : \A q \in T : q <= p
      <4> HIDE DEF T
      <4> QED
        BY <3>2, GreatestInteger
    <3> QED
      BY <3>3 DEF Prior
  <2>2. p \in D
    BY <2>1 DEF Prior
  <2>3. \A q : Prior(D, q, d) => q = p
    <3> SUFFICES ASSUME NEW q, Prior(D, q, d) PROVE q = p
      OBVIOUS
    <3>1. q \in Nat /\ p \in Nat /\ q <= p /\ p <= q
      BY <1>5, <2>1 DEF Prior
    <3> QED
      BY <3>1
  <2>4. Cell(u, d) = {<<On(p), On(d)>>}
    <3>1. <<On(p), On(d)>> \in Cell(u, d)
      BY <1>4, <1>10, <2>1, <2>2
    <3>2. ASSUME NEW x \in Cell(u, d) PROVE x = <<On(p), On(d)>>
      <4>1. x[1] \in R /\ x[2] = On(d) /\ Prior(D, x[1].day, d)
        BY <1>10, <1>11
      <4>2. x[1] = On(p)
        BY <1>3, <2>3, <4>1
      <4> QED
        BY <1>11, <4>1, <4>2
    <3> QED
      BY <3>1, <3>2
  <2>5. usage[On(d)] = On(d).value - On(p).value
    <3>1. (CHOOSE x \in Cell(u, d) : TRUE) = <<On(p), On(d)>>
      BY <2>4
    <3>2. On(d).day = d /\ On(d) \in R /\ Cell(u, d) # {}
      BY <1>4, <2>4
    <3>3. usage[On(d)] = (CHOOSE x \in Cell(u, d) : TRUE)[2].value
                          - (CHOOSE x \in Cell(u, d) : TRUE)[1].value
      <4> HIDE DEF usage
      <4> QED
        BY <1>u, <3>2
    <3>4. <<On(p), On(d)>>[1] = On(p) /\ <<On(p), On(d)>>[2] = On(d)
      OBVIOUS
    <3> HIDE DEF usage
    <3>5. usage[On(d)] = <<On(p), On(d)>>[2].value - <<On(p), On(d)>>[1].value
      BY <3>1, <3>3
    <3> QED
      BY <3>4, <3>5
  <2> QED
    BY <2>1, <2>2, <2>5
<1>17. \A d \in D : v[d] \in Int
  BY <1>1, <1>4
<1>18. \A d \in D : step[d] \in Int
  <2> TAKE d \in D
  <2>1. CASE d = low
    BY <1>15, <2>1
  <2>2. CASE d # low
    <3>1. PICK p : Prior(D, p, d) /\ step[d] = v[d] - v[p]
      BY <1>16, <2>2
    <3> HIDE DEF step, v
    <3> QED
      BY <1>17, <3>1 DEF Prior
  <2> QED
    BY <2>1, <2>2
<1>19. D = {day[r] : r \in R}
  BY DEF D
<1>20. /\ \A r \in R : day[r] \in D /\ step[day[r]] = usage[r] /\ step[day[r]] \in Int
       /\ \A r, s \in R : day[r] = day[s] => r = s
  <2>1. \A r \in R : day[r] \in D /\ day[r] = r.day
    BY <1>19
  <2>2. \A r \in R : step[r.day] = usage[r]
    BY <1>3, <2>1
  <2> HIDE DEF step, usage, day
  <2> QED
    BY <1>2, <1>18, <2>1, <2>2
<1>21. usage = [r \in R |-> step[day[r]]]
  <2>1. \A r \in R : usage[r] = step[day[r]]
    BY <1>20
  <2> HIDE DEF step, day
  <2> QED
    BY <2>1
<1>22. SumOf(usage) = SumFunctionOnSet(usage, R)
  BY SumOfIsSum
<1> HIDE DEF usage, step, day, v
<1>23. IsFiniteSet(D) /\ SumFunctionOnSet(step, D) = SumFunctionOnSet(usage, R)
  BY <1>6, <1>19, <1>20, <1>21, SumOverImage
<1>24. SumFunctionOnSet(step, D) = v[high] - v[low]
  BY <1>5, <1>13, <1>15, <1>16, <1>17, <1>23, SumTelescopes
<1> QED
  BY <1>14, <1>22, <1>23, <1>24 DEF usage, R

(***************************************************************************)
(* The theorems.                                                           *)
(***************************************************************************)

\* The inductive invariant: typed rows with keys the sequence gave out, none orphaned or
\* double but by an overlap or an edit, lookups of inserts that still hold, and readings of
\* meters only.
BookHolds == TypeOK /\ ReadingInv /\ NothingOrphaned /\ OneInvoicePerMonth /\ OnlyMeters

THEOREM BookHoldsAlways == Spec => []BookHolds
<1>1. Init => BookHolds
  BY DEF Init, BookHolds, TypeOK, ReadingInv, KeysFresh, MissesStand, OneReadingPerDay,
         NothingOrphaned, OneInvoicePerMonth, OnlyMeters, Asked, Request, Idle
<1>2. BookHolds /\ [Next]_vars => BookHolds'
  BY TypeStep, ReadingStep, OrphanStep, InvoiceStep, MetersStep DEF BookHolds, ReadingInv
<1> QED
  BY <1>1, <1>2, PTL DEF Spec

\* Rows of the utilities are typed, have their utility, and are one for a day or a month
\* but where requests overlapped or an edit moved one, for any number of requests.
THEOREM BookIsKept == Spec => []BookInv
<1>1. BookHolds => BookInv
  BY DEF BookHolds, ReadingInv, BookInv
<1> QED
  BY <1>1, BookHoldsAlways, PTL

\* The meter matrix shows what the engine charges, cell by cell.
THEOREM MatrixShowsTheCharge == Spec => []CellMatchesEngine
<1>1. BookHolds => CellMatchesEngine
  BY MatrixCharges DEF BookHolds
<1> QED
  BY <1>1, BookHoldsAlways, PTL

\* No estimate is lower than what the meter showed last.
THEOREM EstimatesNeverFall == Spec => []EstimateNotLower
<1>1. BookHolds => EstimateNotLower
  BY EstimatesHold DEF BookHolds, ReadingInv
<1> QED
  BY <1>1, BookHoldsAlways, PTL

\* Read on every date of the matrix, a meter's usages add up to what it moved between its
\* first and its last reading.
THEOREM MatrixColumnsAddUp == Spec => []ColumnAddsUp
<1>1. BookHolds => ColumnAddsUp
  BY ColumnsAdd DEF BookHolds, ReadingInv
<1> QED
  BY <1>1, BookHoldsAlways, PTL

=============================================================================
