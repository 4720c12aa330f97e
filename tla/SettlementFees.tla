---------------------------- MODULE SettlementFees ----------------------------
(***************************************************************************)
(* The settlement engine: save_settlement walks the period day by day,     *)
(* splits each day's cost among the tenants active on it and saves the     *)
(* rounded lines.  The owner meanwhile enters readings, prices, invoices.  *)
(* Meters and administrative fees are charged independently, so the flat   *)
(* has one: a meter, or a fee of one of the three kinds.                   *)
(*                                                                         *)
(* save_settlement is one transaction, but at READ COMMITTED: each of its  *)
(* queries sees what others committed before it.  A step settles one day.  *)
(*                                                                         *)
(* Money and consumption are counted in Unit-ths of the smallest digit     *)
(* kept, a Unit that every divisor of the code divides, so that daily      *)
(* shares are exact and rounding happens where the code rounds.            *)
(***************************************************************************)
EXTENDS Integers, Sequences, FiniteSets, FiniteSetsExt

CONSTANTS
    Clients,     \* requests of the owner's browser
    Contracts,
    Stays,       \* possible terms: functions [Contracts -> [start, end]]
    Bedrooms,    \* possible capacities of the flat
    MonthDays,   \* length of each month
    LegacyDays,  \* length the engine takes for it: February always has 28 days
    Values,      \* what a meter may show
    Amounts,     \* what a unit, a month of the fee or an invoice may cost
    ReadDays,    \* days a meter may be read
    PriceDays,   \* days a price may be dated
    Unit,
    MaxPrices,   \* bound: prices to start with
    MaxEdits,    \* bound: changes to the tables
    MaxSettling, \* bound: settlements computed at a time
    MaxCalcs     \* bound: settlements saved

Months == DOMAIN MonthDays
DaysOf(m) == LET before == SumFunctionOnSet(MonthDays, 1..(m - 1))
             IN  (before + 1)..(before + MonthDays[m])
Days == UNION {DaysOf(m) : m \in Months}
LastDay == Cardinality(Days)
MonthOf(day) == CHOOSE m \in Months : day \in DaysOf(m)

ASSUME CalendarAssumption ==
    /\ MonthDays \in Seq(Nat \ {0})
    /\ DOMAIN LegacyDays = Months
    /\ \A m \in Months : LegacyDays[m] \in 1..MonthDays[m]
    /\ ReadDays \subseteq 0..LastDay /\ PriceDays \subseteq 0..LastDay
    /\ Values \subseteq Nat /\ Amounts \subseteq Nat /\ Bedrooms \subseteq Nat

ASSUME ContractsAssumption ==
    /\ IsFiniteSet(Contracts)
    /\ Stays \subseteq [Contracts -> [start : Int, end : Int]]
    /\ MaxCalcs \in Nat

ASSUME UnitAssumption ==
    /\ Unit \in Nat \ {0}
    /\ \A days \in 1..LastDay, n \in 1..(Cardinality(Contracts) + 2) : Unit % (days * n) = 0

Kinds == {"meter", "shared", "individual", "invoice"}

\* MeterReading; copy tells rows of the same day apart.
Reading == [day : ReadDays, value : Values, copy : Nat]

\* MeterPrice or AdminFeePrice; one without a date is effective from day 0.
Price == [day : PriceDays, price : Amounts]

\* AdminFeeInvoice: the amount of a month.
Invoice == [month : Months, amount : Amounts]

\* What one tenant owes: consumption of a meter, and the money.
Due == [usage : Int, value : Int]

VARIABLES
    stay,       \* terms of the contracts
    beds,       \* beds of all rooms, 0 if unknown
    kind,       \* what the flat is charged for
    readings, prices, invoices,
    job,        \* what each client is doing
    calcs,      \* FeeCalculation rows
    edits

flat == <<stay, beds, kind>>
tables == <<readings, prices, invoices>>
vars == <<flat, tables, job, calcs, edits>>

-----------------------------------------------------------------------------
(* One day, as the engine computes it from the tables v *)

Newest(rows) == {r \in rows : \A s \in rows : s.day <= r.day}
Oldest(rows) == {r \in rows : \A s \in rows : r.day <= s.day}

\* An open-ended contract ends after the last day.
Active(day) == {k \in Contracts : stay[k].start < day /\ day <= stay[k].end}

Share(amount, parts) == (amount * Unit) \div parts

\* Mutant: a price dated on the reading day already counts.
PriceOnDay(v, day) == Newest({p \in v.prices : p.day <= day})

CounterPrice(v, day) == Newest({p \in v.prices : p.day < day})

ReadUntil(v, day) == Oldest({r \in v.readings : r.day >= day})

Owed(usage, value) == [usage |-> usage, value |-> value]
Nothing == Owed(0, 0)

\* What each of n tenants may owe for the meter: nothing without a price or without
\* readings around the day.  Rows of one day come in no order.
DailyCounter(v, day, n) ==
    {LET usage == Share(end.value - beg.value, (end.day - beg.day) * n)
     IN  Owed(usage, usage * p.price) :
        beg \in Newest({r \in v.readings : r.day < day}), end \in ReadUntil(v, day),
        p \in CounterPrice(v, day)}

\* Mutant: the legacy month length is used for invoices too.
InvoiceDaysLegacy(m) == LegacyDays[m]

InvoiceDays(m) == MonthDays[m]

\* Mutant: without a known capacity nobody shares.
SplitterAlone(n) == IF beds = 0 THEN 1 ELSE Min({n + 2, beds})

\* A shared fee is split among two more than live there, up to the flat's capacity.
Splitter(n) == IF beds = 0 THEN n ELSE Min({n + 2, beds})

\* What each of n tenants may owe for the administrative fee.  The share of the month
\* that is stored with it as usage is left out.
DailyAdmin(v, day, n) ==
    LET m == MonthOf(day)
        price == Newest({p \in v.prices : p.day <= day})
    IN  CASE kind = "invoice" ->
               {Owed(0, Share(i.amount, InvoiceDays(m) * n)) : i \in {j \in v.invoices : j.month = m}}
          [] kind = "individual" -> {Owed(0, Share(p.price, LegacyDays[m])) : p \in price}
          [] kind = "shared" -> {Owed(0, Share(p.price, LegacyDays[m] * Splitter(n))) : p \in price}

Daily(v, day, n) ==
    LET known == IF n = 0 THEN {} ELSE IF kind = "meter" THEN DailyCounter(v, day, n)
                 ELSE DailyAdmin(v, day, n)
    IN  IF known = {} THEN {Nothing} ELSE known

Magnitude(x) == IF x < 0 THEN -x ELSE x

\* ROUND_HALF_UP: a half goes away from zero.
Rounded(x) ==
    LET whole == (2 * Magnitude(x) + Unit) \div (2 * Unit)
    IN  IF x < 0 THEN -whole ELSE whole

-----------------------------------------------------------------------------
(* The state *)

NoDues == [k \in Contracts |-> Nothing]

Idle == [pc |-> "idle"]
IdleClient(c) == job[c] = Idle

\* What the engine reads on a day.
Version == [readings |-> readings, prices |-> prices, invoices |-> invoices]
Versions == [readings : SUBSET Reading, prices : SUBSET Price, invoices : SUBSET Invoice]

Inserting == [pc : {"insert"}, day : ReadDays, value : Values]
Settling == [pc : {"settle"}, from : Days, to : Days, day : Days \cup {LastDay + 1},
             dues : [Contracts -> Due], seen : SUBSET Versions]

\* A FeeCalculation and its lines; copy tells equal ones apart.  seen is not in the code: it tells which tables a
\* settlement was computed from.
IsCalc(k) ==
    /\ k \in [copy : 1..MaxCalcs, from : Days, to : Days, lines : {k.lines}, seen : SUBSET Versions]
    /\ DOMAIN k.lines \subseteq Contracts
    /\ \A t \in DOMAIN k.lines : k.lines[t] \in Due

TypeOK ==
    /\ stay \in Stays /\ beds \in Bedrooms /\ kind \in Kinds
    /\ readings \subseteq Reading /\ prices \subseteq Price
    /\ invoices \subseteq Invoice
    /\ \A i, j \in invoices : i.month = j.month => i = j
    /\ job \in [Clients -> {Idle} \cup Inserting \cup Settling]
    /\ \A k \in calcs : IsCalc(k)
    /\ edits \in Nat

\* A flat and any tables the forms can have left behind for it.
Init ==
    /\ stay \in Stays /\ beds \in Bedrooms /\ kind \in Kinds
    /\ readings \in {{[day |-> d, value |-> f[d], copy |-> 1] : d \in DOMAIN f} :
                         f \in UNION {[D -> Values] : D \in SUBSET ReadDays}}
    /\ prices \in SUBSET Price
    /\ invoices \in {{[month |-> m, amount |-> f[m]] : m \in DOMAIN f} :
                         f \in UNION {[M -> Amounts] : M \in SUBSET Months}}
    /\ kind # "shared" => beds = 0     \* only a shared fee looks at them
    /\ kind # "meter" => readings = {}
    /\ kind # "invoice" => invoices = {}
    /\ kind = "invoice" => prices = {}
    /\ Cardinality(prices) <= MaxPrices
    /\ job = [c \in Clients |-> Idle]
    /\ calcs = {}
    /\ edits = 0

-----------------------------------------------------------------------------
(* The owner's edits *)

OnDay(d) == {r \in readings : r.day = d}
FreeCopy(d) == Min((1..(Cardinality(readings) + 1)) \ {r.copy : r \in OnDay(d)})

Edit(c) ==
    /\ IdleClient(c)
    /\ edits < MaxEdits
    /\ edits' = edits + 1
    /\ UNCHANGED <<flat, calcs>>

\* add_reading: update_or_create finds the row of the day and updates it, or finds none;
\* two rows raise MultipleObjectsReturned.
AddReading(c) ==
    /\ Edit(c)
    /\ kind = "meter"
    /\ \E d \in ReadDays, v \in Values :
         \/ /\ OnDay(d) = {}
            /\ job' = [job EXCEPT ![c] = [pc |-> "insert", day |-> d, value |-> v]]
            /\ UNCHANGED readings
         \/ \E r \in OnDay(d) :
              /\ OnDay(d) = {r}
              /\ readings' = (readings \ {r}) \cup {[r EXCEPT !.value = v]}
              /\ UNCHANGED job
    /\ UNCHANGED <<prices, invoices>>

\* ... it inserts a row, whatever was inserted since it looked: no constraint forbids it.
InsertReading(c) ==
    /\ job[c].pc = "insert"
    /\ readings' = readings \cup {[day |-> job[c].day, value |-> job[c].value,
                                   copy |-> FreeCopy(job[c].day)]}
    /\ job' = [job EXCEPT ![c] = Idle]
    /\ UNCHANGED <<flat, prices, invoices, calcs, edits>>

\* ReadingUpdate moves a row to any day, ReadingDelete removes one.
EditReading(c) ==
    /\ Edit(c)
    /\ \E r \in readings :
         \/ readings' = readings \ {r}
         \/ \E d \in ReadDays, v \in Values :
              readings' = (readings \ {r}) \cup {[day |-> d, value |-> v, copy |->
                              IF d = r.day THEN r.copy ELSE FreeCopy(d)]}
    /\ UNCHANGED <<prices, invoices, job>>

\* delete_readings_on_date
DeleteReadingsOnDate(c) ==
    /\ Edit(c)
    /\ \E d \in ReadDays : readings' = readings \ OnDay(d)
    /\ UNCHANGED <<prices, invoices, job>>

\* add_meter_price, add_fee_price, delete_meter_price and delete_fee_price
EditPrice(c) ==
    /\ Edit(c)
    /\ kind # "invoice"
    /\ \/ \E p \in Price : prices' = prices \cup {p}
       \/ \E p \in prices : prices' = prices \ {p}
    /\ UNCHANGED <<readings, invoices, job>>

\* Mutant: an amount is always a new row.
SecondAmount(i) == invoices \cup {i}

\* An amount replaces the one of its month.
WithAmount(i) == {j \in invoices : j.month # i.month} \cup {i}

\* add_invoice_amount saves a month's amount, delete_invoice_amount removes one.
EditInvoice(c) ==
    /\ Edit(c)
    /\ kind = "invoice"
    /\ \/ \E i \in Invoice : invoices' = WithAmount(i)
       \/ \E i \in invoices : invoices' = invoices \ {i}
    /\ UNCHANGED <<readings, prices, job>>

-----------------------------------------------------------------------------
(* The settlement *)

\* run_settlement: the form refuses a period that ends before it starts.
RunSettlement(c) ==
    /\ IdleClient(c)
    /\ Cardinality({b \in Clients : job[b].pc = "settle"}) < MaxSettling
    /\ Cardinality(calcs) < MaxCalcs
    /\ \E from, to \in Days :
         /\ from <= to
         /\ job' = [job EXCEPT ![c] = [pc |-> "settle", from |-> from, to |-> to, day |-> from,
                                       dues |-> NoDues, seen |-> {}]]
    /\ UNCHANGED <<flat, tables, calcs, edits>>

\* calculate_fees, one round of the loop over days
SettleDay(c) ==
    /\ job[c].pc = "settle"
    /\ job[c].day <= job[c].to
    /\ LET active == Active(job[c].day)
       IN  \E owed \in Daily(Version, job[c].day, Cardinality(active)) :
             job' = [job EXCEPT
                 ![c].day = @ + 1,
                 ![c].seen = @ \cup {Version},
                 ![c].dues = [k \in Contracts |->
                     IF k \in active THEN Owed(@[k].usage + owed.usage, @[k].value + owed.value)
                     ELSE @[k]]]
    /\ UNCHANGED <<flat, tables, calcs, edits>>

\* The rounded lines of a tenant.
Line(due) == Owed(Rounded(due.usage), Rounded(due.value))

\* save_settlement commits a tenant for each contract active on some day.
SaveSettlement(c) ==
    /\ job[c].pc = "settle"
    /\ job[c].day > job[c].to
    /\ Cardinality(calcs) < MaxCalcs
    /\ LET tenants == UNION {Active(d) : d \in job[c].from..job[c].to}
           Saved(i) == [copy |-> i, from |-> job[c].from, to |-> job[c].to, seen |-> job[c].seen,
                        lines |-> [k \in tenants |-> Line(job[c].dues[k])]]
       IN  calcs' = calcs \cup {Saved(Min({i \in 1..MaxCalcs : Saved(i) \notin calcs}))}
    /\ job' = [job EXCEPT ![c] = Idle]
    /\ UNCHANGED <<flat, tables, edits>>

\* delete_settlement
DeleteSettlement(c) ==
    /\ IdleClient(c)
    /\ \E k \in calcs : calcs' = calcs \ {k}
    /\ UNCHANGED <<flat, tables, job, edits>>

-----------------------------------------------------------------------------
Next == \E c \in Clients :
    \/ AddReading(c) \/ InsertReading(c) \/ EditReading(c) \/ DeleteReadingsOnDate(c)
    \/ EditPrice(c) \/ EditInvoice(c)
    \/ RunSettlement(c) \/ SettleDay(c) \/ SaveSettlement(c) \/ DeleteSettlement(c)

Spec == Init /\ [][Next]_vars

-----------------------------------------------------------------------------
(* Properties: what settlements of consecutive periods charge together. *)

First(C) == Min({c.from : c \in C})
Last(C) == Max({c.to : c \in C})

\* The tables that settlements were computed from.
Seen(C) == UNION {c.seen : c \in C}

\* Settlements that were all computed from the same tables, cover First..Last with no day
\* twice, and charge for no day on which nobody was there.
Tilings == {C \in SUBSET calcs :
    /\ Cardinality(Seen(C)) = 1
    /\ \A a, b \in C : a # b => a.to < b.from \/ b.to < a.from
    /\ \A d \in First(C)..Last(C) : Active(d) # {} /\ \E c \in C : d \in c.from..c.to}

LinesOf(C) == UNION {{<<c, k>> : k \in DOMAIN c.lines} : c \in C}
TotalUsage(C) == SumFunction([l \in LinesOf(C) |-> l[1].lines[l[2]].usage])
TotalValue(C) == SumFunction([l \in LinesOf(C) |-> l[1].lines[l[2]].value])

\* At most half a digit off for every line.
Near(sum, exact, C) == 2 * Magnitude(sum - exact) <= Cardinality(LinesOf(C))

\* The reading of a day, if there is one and only one.
IsReadingOf(v, day, r) == {s \in v.readings : s.day = day} = {r}
NoCopies(v) == \A r \in v.readings : IsReadingOf(v, r.day, r)

\* The price p holds on each of these days.
IsPriceOf(v, days, p) == \A d \in days :
    p \in v.prices /\ p.day <= d /\ \A q \in v.prices : q = p \/ q.day < p.day \/ q.day > d

\* Settlements from one reading to another charge what the meter showed between them,
\* whatever is read in between and wherever the periods and stays begin and end.
UsageConserved == kind = "meter" =>
    \A C \in Tilings : \A v \in Seen(C) : \A b, e \in v.readings :
        (/\ NoCopies(v) /\ b.day = First(C) - 1 /\ e.day = Last(C)
         /\ \E p \in v.prices : p.day < First(C))
        => Near(TotalUsage(C), e.value - b.value, C)

\* "A price dated on the reading day counts for the next period" (fees.py, parity notes):
\* between two readings the consumption costs the price of the first reading's day.
PricedFromTheReading == kind = "meter" =>
    \A C \in Tilings : \A v \in Seen(C) : \A b, e \in v.readings, p \in v.prices :
        (/\ NoCopies(v) /\ b.day = First(C) - 1 /\ e.day = Last(C)
         /\ IsPriceOf(v, b.day..(e.day - 1), p))
        => Near(TotalValue(C), (e.value - b.value) * p.price, C)

\* Settlements of a whole month charge the tenants the amount of its invoice.
InvoiceCollected == kind = "invoice" =>
    \A C \in Tilings : \A v \in Seen(C) : \A i \in v.invoices :
        First(C)..Last(C) = DaysOf(i.month) => Near(TotalValue(C), i.amount, C)

\* A shared fee never brings in more than it costs while the tenants fit the flat, but for
\* the days that the engine does not count in a leap February.
SharedWithinPrice == kind = "shared" =>
    \A C \in Tilings : \A v \in Seen(C) : \A m \in Months, p \in v.prices :
        (/\ First(C)..Last(C) = DaysOf(m) /\ IsPriceOf(v, First(C)..Last(C), p)
         /\ beds = 0 \/ \A d \in First(C)..Last(C) : Cardinality(Active(d)) <= beds)
        => 2 * (TotalValue(C) * LegacyDays[m] - p.price * MonthDays[m])
             <= LegacyDays[m] * Cardinality(LinesOf(C))

\* What meters showed is charged, each unit at the price of its reading.
MetersCharged == UsageConserved /\ PricedFromTheReading

=============================================================================
