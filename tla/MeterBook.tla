------------------------------- MODULE MeterBook -------------------------------
(***************************************************************************)
(* The utilities of the flats: meters, administrative fees and fees by     *)
(* invoice with their prices, readings and invoices; the matrix of         *)
(* counters.py and the estimates of estimate.py, which the pages compute   *)
(* from those rows, next to what the settlement engine reads off them.     *)
(*                                                                         *)
(* Every statement autocommits.  A form of readings saves one meter after  *)
(* the other, each with a lookup and then an update or an insert, and      *)
(* update_or_create has no constraint under it for readings but has one    *)
(* for invoices.  Days are numbered; an estimate looks back whole days.    *)
(***************************************************************************)
EXTENDS Integers, Functions

CONSTANTS
    Clients,     \* requests that can be in flight together
    Flats,
    Utilities,   \* primary keys of meters and fees
    Kinds,       \* kinds of utilities the owner adds
    LastDay,     \* bound: days there are
    Values,      \* values typed for readings
    Amounts,     \* prices and invoiced amounts
    PriceDays,   \* days prices may start on, and None
    Invoiced,    \* months with an invoice
    Windows,     \* days an estimate may look back
    MaxWrites,   \* bound: rows ever inserted
    MaxOverlap,  \* bound: rows from which on requests no longer overlap
    None         \* SQL NULL, and the row that does not exist

Days == 1..LastDay

ASSUME BookAssumption ==
    /\ Kinds \subseteq {"meter", "admin", "invoice"}
    /\ LastDay \in Nat /\ Values \subseteq Int /\ Amounts \subseteq Nat
    /\ PriceDays \subseteq Days \cup {None} /\ None \notin Int
    /\ Windows \subseteq Nat

\* MeterDefinition, AdminFee
Utility == [kind : {"meter", "admin", "invoice"}, flat : Flats]
ASSUME NoRowAssumption == None \notin Utility

\* MeterPrice, AdminFeePrice
Price == [id : Nat, of : Utilities, from : Days \cup {None}, amount : Amounts]

\* MeterReading.  The last two are not in the code: the row was inserted by a
\* request that others overtook since its lookup; an edit moved it to its day.
Reading == [id : Nat, of : Utilities, flat : Flats, day : Days, value : Int,
            late : BOOLEAN, moved : BOOLEAN]

\* AdminFeeInvoice
Invoice == [id : Nat, of : Utilities, month : Invoiced, amount : Amounts]

Idle == [op |-> "idle"]
\* What a form of readings still has to save.
Field == [of : Utilities, value : Int]
Request ==
    {Idle}
    \cup [op : {"price"}, of : Utilities, from : Days \cup {None}, amount : Amounts]
    \cup [op : {"estimate", "submit"}, flat : Flats, day : Days, left : SUBSET Field]
    \cup [op : {"insert"}, flat : Flats, day : Days, left : SUBSET Field,
          of : Utilities, value : Int, seen : Nat]
    \cup [op : {"edit"}, row : Reading]
    \cup [op : {"move"}, of : Utilities]
    \cup [op : {"invoice"}, of : Utilities, month : Invoiced, amount : Amounts]

VARIABLES
    utilities,  \* MeterDefinition and AdminFee rows by primary key
    prices,     \* MeterPrice and AdminFeePrice rows
    readings,   \* MeterReading rows
    invoices,   \* AdminFeeInvoice rows
    request,    \* what each in-flight request has read or has left to do
    last        \* serial of the rows

vars == <<utilities, prices, readings, invoices, request, last>>

TypeOK ==
    /\ utilities \in [Utilities -> Utility \cup {None}]
    /\ prices \subseteq Price
    /\ readings \subseteq Reading
    /\ invoices \subseteq Invoice
    /\ request \in [Clients -> Request]
    /\ last \in Nat

Init ==
    /\ utilities = [u \in Utilities |-> None]
    /\ prices = {} /\ readings = {} /\ invoices = {}
    /\ request = [c \in Clients |-> Idle]
    /\ last = 0

Exists(u) == utilities[u] # None
Meters(flat) == {u \in Utilities : /\ Exists(u)
                                   /\ utilities[u].kind = "meter"
                                   /\ utilities[u].flat = flat}
ReadingsOf(u) == {r \in readings : r.of = u}

Free(c) ==
    /\ request[c] = Idle
    /\ \A d \in Clients : request[d] = Idle \/ last < MaxOverlap

Done(c) == request' = [request EXCEPT ![c] = Idle]

RowsLeft == last < MaxWrites
NewRow ==
    /\ RowsLeft
    /\ last' = last + 1

-----------------------------------------------------------------------------
(* The engine's reading of the tables *)

\* The latest prices of a utility among those that start on the days given.
LatestPrice(u, from) ==
    {p \in prices : /\ p.of = u
                    /\ p.from \in from
                    /\ \A q \in prices : q.of = u /\ q.from \in from => q.from <= p.from}

\* A price without a date holds before all others.
PriceAmong(u, from) ==
    LET dated == LatestPrice(u, from)
    IN  IF dated # {} THEN {p.amount : p \in dated}
        ELSE {p.amount : p \in {q \in prices : q.of = u /\ q.from = None}}

\* _counter_price: dated strictly before the day; none, one or any of several.
CounterPrice(u, day) == PriceAmong(u, 1..(day - 1))

\* _daily_counter: the readings around the day.
Before(u, day) == {r \in ReadingsOf(u) : /\ r.day < day
                                         /\ \A s \in ReadingsOf(u) : s.day < day => s.day <= r.day}
After(u, day) == {r \in ReadingsOf(u) : /\ r.day >= day
                                        /\ \A s \in ReadingsOf(u) : s.day >= day => s.day >= r.day}

\* A day's use between two readings at a price: use / length, times the price.
Share(use, length, price) == [use |-> use, length |-> length, price |-> price]

\* What the days cost when one tenant is active.
Charged(u, days) ==
    [day \in days |-> {Share(e.value - b.value, e.day - b.day, p) :
                         b \in Before(u, day), e \in After(u, day), p \in CounterPrice(u, day)}]

-----------------------------------------------------------------------------
(* counters.py *)

\* Mutant: the matrix prices a day as the engine prices the one before it.
PriceOnEve(u, day) == PriceAmong(u, 1..(day - 2))

\* _price_lookup: dated on the day or before.
PriceOn(u, day) == PriceAmong(u, 1..day)

\* The readings of the flat's meters that are filed under the flat.
Matrix(flat) == {r \in readings : r.flat = flat /\ r.of \in Meters(flat)}

\* Mutant: the row below may be the row itself.
PrevDayOrSame(flat, day) ==
    {d \in {r.day : r \in Matrix(flat)} :
        d <= day /\ \A r \in Matrix(flat) : r.day <= day => r.day <= d}

\* The row below: the latest date before on which any meter was read.
PrevDay(flat, day) ==
    {d \in {r.day : r \in Matrix(flat)} :
        d < day /\ \A r \in Matrix(flat) : r.day < day => r.day <= d}

\* A cell's usage, as the readings it is the difference of: none when this meter
\* was not read on the date of the row below.
Cell(u, day) ==
    LET shown == {r \in Matrix(utilities[u].flat) : r.of = u}
    IN  {cell \in shown \X shown : /\ cell[2].day = day
                                   /\ cell[1].day \in PrevDay(utilities[u].flat, day)}

\* _cost: the day-by-day cost of a cell.
ShownCost(u, a, b) ==
    [day \in (a.day + 1)..b.day |->
        {Share(b.value - a.value, b.day - a.day, p) : p \in PriceOn(u, day)}]

-----------------------------------------------------------------------------
(* estimate.py *)

\* order_by("read_date", "id")
Sooner(r, s) == r.day < s.day \/ (r.day = s.day /\ r.id <= s.id)
Latest(R) == CHOOSE r \in R : \A s \in R : Sooner(s, r)
Earliest(R) == CHOOSE r \in R : \A s \in R : Sooner(r, s)

\* The most recent reading before the window, else the earliest.
Baseline(R, start) ==
    LET early == {r \in R : r.day <= start}
    IN  IF early = {} \/ Latest(early).day >= Latest(R).day THEN Earliest(R) ELSE Latest(early)

\* Mutant: a reset meter is projected downwards.
FallingUse(a, b) == b.value - a.value

\* "never estimate a lower reading"
ProjectedUse(a, b) == IF b.value < a.value THEN 0 ELSE b.value - a.value

\* A quotient to the nearest whole number, a half up.
Rounded(n, d) == (2 * n + d) \div (2 * d)

\* estimate_reading: None without two readings a day apart.
Estimate(R, target, months) ==
    LET base == Baseline(R, target - months)
        end  == Latest(R)
        span == end.day - base.day
    IN  IF R = {} \/ span <= 0 THEN None
        ELSE IF target <= end.day THEN end.value
        ELSE end.value + Rounded(ProjectedUse(base, end) * (target - end.day), span)

-----------------------------------------------------------------------------
(* Meters, fees and prices *)

\* Mutant: no foreign key.
Unconstrained(u) == TRUE

\* The foreign key of prices, readings and invoices, at commit.
Live(u) == Exists(u)

\* fee_add: the utility first, then in a statement of its own its price, except
\* for a fee by invoice.
AddUtility(c) ==
    /\ Free(c)
    /\ NewRow
    /\ \E u \in Utilities, kind \in Kinds, flat \in Flats :
         /\ ~Exists(u)
         /\ \A d \in Clients : request[d] = Idle
         /\ utilities' = [utilities EXCEPT ![u] = [kind |-> kind, flat |-> flat]]
         /\ IF kind = "invoice"
            THEN UNCHANGED request
            ELSE \E from \in PriceDays, amount \in Amounts :
                   request' = [request EXCEPT ![c] =
                     [op |-> "price", of |-> u, from |-> from, amount |-> amount]]
    /\ UNCHANGED <<prices, readings, invoices>>

\* MeterCreate: a meter without a price.
AddMeter(c) ==
    /\ Free(c)
    /\ NewRow
    /\ \E u \in Utilities, flat \in Flats :
         /\ ~Exists(u) /\ "meter" \in Kinds
         /\ \A d \in Clients : request[d] = Idle
         /\ utilities' = [utilities EXCEPT ![u] = [kind |-> "meter", flat |-> flat]]
    /\ UNCHANGED <<prices, readings, invoices, request>>

\* add_fee_price, add_meter_price: the fee is looked up first.
PriceRead(c) ==
    /\ Free(c)
    /\ RowsLeft
    /\ \E u \in Utilities, from \in PriceDays, amount \in Amounts :
         /\ Exists(u)
         /\ utilities[u].kind # "invoice"
         /\ request' = [request EXCEPT ![c] =
              [op |-> "price", of |-> u, from |-> from, amount |-> amount]]
    /\ UNCHANGED <<utilities, prices, readings, invoices, last>>

PriceInsert(c) ==
    /\ request[c].op = "price"
    /\ Live(request[c].of)
    /\ NewRow
    /\ prices' = prices \cup {[id |-> last + 1, of |-> request[c].of,
                               from |-> request[c].from, amount |-> request[c].amount]}
    /\ Done(c)
    /\ UNCHANGED <<utilities, readings, invoices>>

\* delete_fee_price, delete_meter_price.
DeletePrice(c) ==
    /\ Free(c)
    /\ \E p \in prices : prices' = prices \ {p}
    /\ UNCHANGED <<utilities, readings, invoices, request, last>>

\* MeterUpdate reads the row ...
MoveRead(c) ==
    /\ Free(c)
    /\ \E u \in Utilities : /\ Exists(u) /\ utilities[u].kind = "meter"
                            /\ request' = [request EXCEPT ![c] = [op |-> "move", of |-> u]]
    /\ UNCHANGED <<utilities, prices, readings, invoices, last>>

\* ... and writes all of it, also when it was deleted meanwhile; the form can move
\* the meter to another flat, and its readings stay behind.
MoveMeter(c) ==
    /\ request[c].op = "move"
    /\ \E flat \in Flats :
         utilities' = [utilities EXCEPT ![request[c].of] = [kind |-> "meter", flat |-> flat]]
    /\ Done(c)
    /\ UNCHANGED <<prices, readings, invoices, last>>

OtherReadings(u) == readings \ ReadingsOf(u)

\* delete_fee, flat_meter_delete, MeterDelete: CASCADE.
DeleteUtility(c) ==
    /\ Free(c)
    /\ \E u \in Utilities :
         /\ Exists(u)
         /\ utilities' = [utilities EXCEPT ![u] = None]
         /\ prices' = {p \in prices : p.of # u}
         /\ readings' = OtherReadings(u)
         /\ invoices' = {i \in invoices : i.of # u}
    /\ UNCHANGED <<request, last>>

-----------------------------------------------------------------------------
(* Readings *)

Filled(flat, day, months) ==
    {f \in {[of |-> u, value |-> Estimate(ReadingsOf(u), day, months)] : u \in Meters(flat)} :
        f.value # None}

\* estimate_readings: the browser fills the form in with the estimates.
EstimateForm(c) ==
    /\ Free(c)
    /\ RowsLeft
    /\ \E flat \in Flats, day \in Days, months \in Windows :
         /\ Filled(flat, day, months) # {}
         /\ request' = [request EXCEPT ![c] =
              [op |-> "estimate", flat |-> flat, day |-> day, left |-> Filled(flat, day, months)]]
    /\ UNCHANGED <<utilities, prices, readings, invoices, last>>

\* add_reading: the form as estimated, or typed.  A blank field is skipped, and so
\* is one that is no number, with an error on the page.
Submit(c) ==
    /\ \/ /\ request[c].op = "estimate"
          /\ request' = [request EXCEPT ![c].op = "submit"]
       \/ /\ Free(c)
          /\ \E flat \in Flats, day \in Days : \E typed \in SUBSET Meters(flat) :
               \E value \in [typed -> Values] :
                 /\ typed # {}
                 /\ RowsLeft \/ \A u \in typed : \E r \in ReadingsOf(u) : r.day = day
                 /\ request' = [request EXCEPT ![c] =
                      [op |-> "submit", flat |-> flat, day |-> day,
                       left |-> {[of |-> u, value |-> value[u]] : u \in typed}]]
    /\ UNCHANGED <<utilities, prices, readings, invoices, last>>

\* The lookup of update_or_create.
OnTheDay(c, f) == {r \in readings : /\ r.of = f.of /\ r.flat = request[c].flat
                                    /\ r.day = request[c].day}

\* The next field, or the end of the request.
GoOn(c, left) ==
    request' = [request EXCEPT ![c] =
      IF left = {} THEN Idle
      ELSE [op |-> "submit", flat |-> @.flat, day |-> @.day, left |-> left]]

\* One row: it is locked and updated.
UpdateReading(c) ==
    /\ request[c].op = "submit"
    /\ \E f \in request[c].left : \E r \in OnTheDay(c, f) :
         /\ OnTheDay(c, f) = {r}
         /\ readings' = (readings \ {r}) \cup {[r EXCEPT !.value = f.value]}
         /\ GoOn(c, request[c].left \ {f})
    /\ UNCHANGED <<utilities, prices, invoices, last>>

\* No row: it is inserted in a statement of its own.
MissReading(c) ==
    /\ request[c].op = "submit"
    /\ \E f \in request[c].left :
         /\ OnTheDay(c, f) = {}
         /\ request' = [request EXCEPT ![c] =
              [op |-> "insert", flat |-> request[c].flat, day |-> request[c].day,
               left |-> request[c].left \ {f}, of |-> f.of, value |-> f.value, seen |-> last]]
    /\ UNCHANGED <<utilities, prices, readings, invoices, last>>

NewReading(c) ==
    [id |-> last + 1, of |-> request[c].of, flat |-> request[c].flat, day |-> request[c].day,
     value |-> request[c].value, late |-> last # request[c].seen, moved |-> FALSE]

InsertReading(c) ==
    /\ request[c].op = "insert"
    /\ Live(request[c].of)
    /\ NewRow
    /\ readings' = readings \cup {NewReading(c)}
    /\ GoOn(c, request[c].left)
    /\ UNCHANGED <<utilities, prices, invoices>>

\* Several rows: MultipleObjectsReturned ends the request, half saved.
SubmitAbort(c) ==
    /\ request[c].op = "submit"
    /\ \E f \in request[c].left : \E r, s \in OnTheDay(c, f) : r # s
    /\ Done(c)
    /\ UNCHANGED <<utilities, prices, readings, invoices, last>>

\* ReadingUpdate reads the row ...
EditRead(c) ==
    /\ Free(c)
    /\ \E r \in readings : request' = [request EXCEPT ![c] = [op |-> "edit", row |-> r]]
    /\ UNCHANGED <<utilities, prices, readings, invoices, last>>

\* ... and writes all of it, for any meter and day, also when it was deleted
\* meanwhile; the flat it is filed under stays.
EditWrite(c) ==
    /\ request[c].op = "edit"
    /\ \E u \in Utilities, day \in Days, value \in Values :
         /\ Live(u)
         /\ utilities[u] # None => utilities[u].kind = "meter"
         /\ readings' = {r \in readings : r.id # request[c].row.id} \cup
              {[request[c].row EXCEPT !.of = u, !.day = day, !.value = value, !.moved = TRUE]}
    /\ Done(c)
    /\ UNCHANGED <<utilities, prices, invoices, last>>

\* ReadingDelete.
DeleteReading(c) ==
    /\ Free(c)
    /\ \E r \in readings : readings' = readings \ {r}
    /\ UNCHANGED <<utilities, prices, invoices, request, last>>

\* delete_readings_on_date.
DeleteRow(c) ==
    /\ Free(c)
    /\ \E r \in readings :
         readings' = {s \in readings : s.flat # r.flat \/ s.day # r.day}
    /\ UNCHANGED <<utilities, prices, invoices, request, last>>

-----------------------------------------------------------------------------
(* Invoices *)

OfMonth(u, month) == {i \in invoices : i.of = u /\ i.month = month}

\* add_invoice_amount: one row for the month is updated in place ...
InvoiceUpdate(c) ==
    /\ Free(c)
    /\ \E i \in invoices, amount \in Amounts :
         invoices' = (invoices \ {i}) \cup {[i EXCEPT !.amount = amount]}
    /\ UNCHANGED <<utilities, prices, readings, request, last>>

\* ... or none is found ...
InvoiceMiss(c) ==
    /\ Free(c)
    /\ RowsLeft
    /\ \E u \in Utilities, month \in Invoiced, amount \in Amounts :
         /\ Exists(u)
         /\ utilities[u].kind = "invoice"
         /\ OfMonth(u, month) = {}
         /\ request' = [request EXCEPT ![c] =
              [op |-> "invoice", of |-> u, month |-> month, amount |-> amount]]
    /\ UNCHANGED <<utilities, prices, readings, invoices, last>>

\* ... and it is inserted, or, when the constraint refuses it, updated after all.
InvoiceInsert(c) ==
    /\ request[c].op = "invoice"
    /\ Live(request[c].of)
    /\ NewRow
    /\ LET there == OfMonth(request[c].of, request[c].month)
       IN  invoices' = (invoices \ there) \cup
             IF there = {}
             THEN {[id |-> last + 1, of |-> request[c].of, month |-> request[c].month,
                    amount |-> request[c].amount]}
             ELSE {[i EXCEPT !.amount = request[c].amount] : i \in there}
    /\ Done(c)
    /\ UNCHANGED <<utilities, prices, readings>>

\* delete_invoice_amount.
DeleteInvoice(c) ==
    /\ Free(c)
    /\ \E i \in invoices : invoices' = invoices \ {i}
    /\ UNCHANGED <<utilities, prices, readings, request, last>>

\* The meter or fee was deleted meanwhile and the foreign key fails, or the worker
\* is killed: what was saved before stays saved.
Abort(c) ==
    /\ request[c] # Idle
    /\ Done(c)
    /\ UNCHANGED <<utilities, prices, readings, invoices, last>>

-----------------------------------------------------------------------------
Next == \E c \in Clients :
    \/ AddUtility(c) \/ AddMeter(c) \/ PriceRead(c) \/ PriceInsert(c) \/ DeletePrice(c)
    \/ MoveRead(c) \/ MoveMeter(c) \/ DeleteUtility(c)
    \/ EstimateForm(c) \/ Submit(c) \/ UpdateReading(c) \/ MissReading(c)
    \/ InsertReading(c) \/ SubmitAbort(c)
    \/ EditRead(c) \/ EditWrite(c) \/ DeleteReading(c) \/ DeleteRow(c)
    \/ InvoiceUpdate(c) \/ InvoiceMiss(c) \/ InvoiceInsert(c) \/ DeleteInvoice(c)
    \/ Abort(c)

Spec == Init /\ [][Next]_vars

-----------------------------------------------------------------------------
(* Properties *)

\* Whatever is deleted while a price, a reading or an invoice is being saved, no
\* row outlives its meter or fee.
NothingOrphaned ==
    \A row \in prices \cup readings \cup invoices : Exists(row.of)

\* update_or_create keeps one reading per meter and day; a second one takes an
\* overlapping request, which looked before the first was inserted, or an edit
\* that moved a reading to the day.
OneReadingPerDay ==
    \A r, s \in readings :
        r.of = s.of /\ r.flat = s.flat /\ r.day = s.day /\ r # s =>
            r.late \/ s.late \/ r.moved \/ s.moved

\* One amount per month, also when two requests both found none.
OneInvoicePerMonth ==
    \A i, j \in invoices : i.of = j.of /\ i.month = j.month => i = j

\* The meter has no reading filed under another flat, and one on the day.
Filed(u) == Exists(u) /\ \A r \in ReadingsOf(u) : r.flat = utilities[u].flat
Sole(r) == \A s \in ReadingsOf(r.of) : s.day = r.day => s = r

\* A cell of the matrix costs what the engine charges for the days between its
\* two readings, day by day, if no price starts between them: the matrix prices
\* a day from the price of that day on, the engine from the day after, and each
\* finds the readings around a day in a way of its own.
CellMatchesEngine ==
    \A u \in Utilities : Filed(u) => \A day \in Days : \A cell \in Cell(u, day) :
        LET a == cell[1]
            b == cell[2]
        IN  /\ Sole(a) /\ Sole(b)
            /\ \A p \in prices : p.of = u /\ p.from # None => p.from <= a.day \/ b.day < p.from
            => ShownCost(u, a, b) = Charged(u, (a.day + 1)..b.day)

SumOf(f) == FoldFunction(LAMBDA x, y : x + y, 0, f)

\* Read on every date of the matrix, a meter's usages add up to what it moved.
ColumnAddsUp ==
    \A u \in Utilities :
        LET flat == utilities[u].flat
            R    == ReadingsOf(u)
            full == {r.day : r \in R} = {r.day : r \in Matrix(flat)}
        IN  Filed(u) /\ R # {} /\ full /\ (\A r \in R : Sole(r)) =>
              SumOf([r \in R |-> IF Cell(u, r.day) = {} THEN 0
                                 ELSE LET cell == CHOOSE x \in Cell(u, r.day) : TRUE
                                      IN  cell[2].value - cell[1].value])
              = Latest(R).value - Earliest(R).value

\* An estimate is never lower than the latest reading, whatever was read before.
EstimateNotLower ==
    \A u \in Utilities, target \in Days, months \in Windows :
        LET R == ReadingsOf(u)
        IN  R # {} /\ Estimate(R, target, months) # None =>
              Estimate(R, target, months) >= Latest(R).value

\* The tables hold no row of a meter that was deleted, and none twice that an overlap or
\* an edit did not make so.
BookInv == TypeOK /\ NothingOrphaned /\ OneReadingPerDay /\ OneInvoicePerMonth

=============================================================================
