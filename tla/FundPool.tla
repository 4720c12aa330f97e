------------------------------- MODULE FundPool -------------------------------
(***************************************************************************)
(* A contribution fund of a flat: its terms and rates, what the            *)
(* settlements and the backfill script charge for it, and what funds.py    *)
(* says the pool collected.  The pool is never stored: every page computes *)
(* it from the fee entries of the flat, their billing months and the       *)
(* rates, while the charge was computed from the settled period.           *)
(*                                                                         *)
(* Days are numbered through months of one length.  One flat, one fund and *)
(* one tenant per settlement.  The two forms that edit the fund row read   *)
(* it and later write all of it back; every other request is one action    *)
(* (the interleavings of confirmations are those of SettlementLedger).     *)
(***************************************************************************)
EXTENDS Integers, Functions

CONSTANTS
    Clients,      \* requests that can be in flight together
    MonthLength,  \* days of a month
    LastDay,      \* bound: days there are
    Amounts,      \* amounts of rates
    Names,
    Starts,       \* days the form may start a fund on
    Ends,         \* days it may end on, and None
    RateDays,     \* days a rate may start on
    BookingDays,  \* days a contribution or an expense may be dated
    Periods,      \* settled periods, as <<first day, last day>>
    MaxWrites,    \* bound: rows ever written after the fund
    None          \* SQL NULL, and the row that does not exist

Days == 1..LastDay
MonthOf(day) == (day - 1) \div MonthLength + 1
First(month) == (month - 1) * MonthLength + 1
Midpoint(t) == (t.from + t.to) \div 2
BillingDays == {First(m) : m \in 1..(MonthOf(LastDay) + 1)}

ASSUME FundAssumption ==
    /\ MonthLength \in Nat \ {0} /\ LastDay \in Nat
    /\ Amounts \subseteq Int
    /\ None \notin Nat
    /\ Starts \subseteq Days /\ Ends \subseteq Days \cup {None}
    /\ RateDays \subseteq Days /\ BookingDays \subseteq Days
    /\ Periods \subseteq Days \X Days

\* Fund
Terms == [amount : Amounts, start : Days, end : Days \cup {None}]
Fund == [name : Names, terms : Terms]
ASSUME NoFundAssumption == None \notin Fund

\* FundRate
Rate == [id : Nat, date : Days, amount : Amounts]

\* FundContribution, and FundExpense with the sign it has in the balance.
Booking == [id : Nat, on : Days, amount : Amounts \cup {-a : a \in Amounts}]

\* FeeCalculationTenant with the period of its FeeCalculation.
Tenant == [id : Nat, from : Days, to : Days]

\* A FeeCalculationItem of type Fund.  book and day are not in the code: the
\* terms and rates it was priced from, and the day whose rate it is.
Book == [terms : Terms, rates : SUBSET Rate]
Line == [tenant : Nat, value : Amounts, book : Book, day : Int]

\* A LedgerEntry of kind fee; tenant is settlement_tenant.
Entry == [id : Nat, tenant : Nat \cup {None}, billing : BillingDays]

Idle == [op |-> "idle"]
\* overtaken is not in the code: another form was saved since the row was read.
Request == {Idle} \cup [op : {"terms", "name"}, row : Fund, overtaken : BOOLEAN]

VARIABLES
    fund,      \* the Fund row
    rates,     \* FundRate rows
    bookings,  \* FundContribution and FundExpense rows
    tenants,   \* FeeCalculationTenant rows
    lines,     \* FeeCalculationItem rows of type Fund
    entries,   \* LedgerEntry rows of kind fee
    request,   \* what each in-flight request has read
    last       \* serial of all rows

vars == <<fund, rates, bookings, tenants, lines, entries, request, last>>

TypeOK ==
    /\ fund \in Fund \cup {None}
    /\ rates \subseteq Rate
    /\ bookings \subseteq Booking
    /\ tenants \subseteq Tenant
    /\ lines \subseteq Line
    /\ entries \subseteq Entry
    /\ request \in [Clients -> Request]
    /\ last \in Nat

Init ==
    /\ fund = None
    /\ rates = {} /\ bookings = {} /\ tenants = {} /\ lines = {} /\ entries = {}
    /\ request = [c \in Clients |-> Idle]
    /\ last = 0

-----------------------------------------------------------------------------
(* What the pool holds *)

\* Mutant: the newest rate counts for all months.
RatesEver(R, day) == {r \in R : \A s \in R : s.date <= r.date}

\* The latest of the rates dated on or before the day.
Latest(R, day) ==
    {r \in R : r.date <= day /\ \A s \in R : s.date <= day => s.date <= r.date}

\* fund_rate_for: of two rates of one date either may come first.
RateIn(book, day) ==
    LET latest == Latest(book.rates, day)
    IN  IF latest = {} THEN {book.terms.amount} ELSE {r.amount : r \in latest}

TheBook == [terms |-> fund.terms, rates |-> rates]
RateFor(day) == RateIn(TheBook, day)

\* Mutant: a fund that starts within a month does not collect in it.
WindowFromStart(terms, billing, day) ==
    /\ terms.start <= billing
    /\ billing <= day
    /\ terms.end # None => billing <= terms.end

\* _billing_months: from the month of the start to the day asked for or the end.
InWindow(terms, billing, day) ==
    /\ First(MonthOf(terms.start)) <= billing
    /\ billing <= day
    /\ terms.end # None => billing <= terms.end

\* The contribution an entry puts into the pool, as of a day.
Collected(e, day) ==
    IF InWindow(fund.terms, e.billing, day) THEN RateFor(e.billing) ELSE {0}

Booked(day) == [b \in {x \in bookings : x.on <= day} |-> b.amount]

\* The ways to read the rates of the collecting entries.
Contributions(day) == {f \in [entries -> Amounts \cup {0}] :
                         \A e \in entries : f[e] \in Collected(e, day)}

SumOf(f) == FoldFunction(LAMBDA a, b : a + b, 0, f)

\* fund_balance: the values it may have.
Balance(day) == {SumOf(f) + SumOf(Booked(day)) : f \in Contributions(day)}

-----------------------------------------------------------------------------
(* The fund and its rows *)

Done(c) == request' = [request EXCEPT ![c] = Idle]

\* FundForm and FundDetailsForm: a fund does not end before it starts.
FormTerms == {t \in [amount : Amounts, start : Starts, end : Ends] :
                t.end = None \/ t.start <= t.end}

NewRow ==
    /\ last < MaxWrites
    /\ last' = last + 1

\* fund_add.
AddFund(c) ==
    /\ request[c] = Idle
    /\ fund = None
    /\ \A d \in Clients : request[d] = Idle
    /\ NewRow
    /\ \E name \in Names, terms \in FormTerms : fund' = [name |-> name, terms |-> terms]
    /\ UNCHANGED <<rates, bookings, tenants, lines, entries, request>>

\* fund_edit and fund_rename read the row ...
FormRead(c, form) ==
    /\ request[c] = Idle
    /\ fund # None
    /\ request' = [request EXCEPT ![c] = [op |-> form, row |-> fund, overtaken |-> FALSE]]
    /\ UNCHANGED <<fund, rates, bookings, tenants, lines, entries, last>>

\* ... and write all of it, also when it was deleted meanwhile.
FormSave(c, row) ==
    /\ NewRow
    /\ fund' = row
    /\ request' = [d \in Clients |->
         IF d = c \/ request[d] = Idle THEN Idle ELSE [request[d] EXCEPT !.overtaken = TRUE]]
    /\ UNCHANGED <<rates, bookings, tenants, lines, entries>>

EditTerms(c) ==
    /\ request[c].op = "terms"
    /\ \E terms \in FormTerms : FormSave(c, [request[c].row EXCEPT !.terms = terms])

\* Mutant: renaming saves a form of all fields, with the terms at their defaults.
RenamedAfresh(row, name) ==
    [name |-> name, terms |-> [row.terms EXCEPT !.end = None]]

Renamed(row, name) == [row EXCEPT !.name = name]

Rename(c) ==
    /\ request[c].op = "name"
    /\ \E name \in Names : FormSave(c, Renamed(request[c].row, name))

\* fund_delete: CASCADE to its rates, contributions and expenses; the lines of
\* settlements do not refer to it.
DeleteFund(c) ==
    /\ request[c] = Idle
    /\ fund # None
    /\ fund' = None
    /\ rates' = {}
    /\ bookings' = {}
    /\ request' = [d \in Clients |->
         IF request[d] = Idle THEN Idle ELSE [request[d] EXCEPT !.overtaken = TRUE]]
    /\ UNCHANGED <<tenants, lines, entries, last>>

\* fund_add_rate: nothing keeps two rates from starting on one day.
AddRate(c) ==
    /\ request[c] = Idle
    /\ fund # None
    /\ NewRow
    /\ \E day \in RateDays, amount \in Amounts :
         rates' = rates \cup {[id |-> last + 1, date |-> day, amount |-> amount]}
    /\ UNCHANGED <<fund, bookings, tenants, lines, entries, request>>

DeleteRate(c) ==
    /\ request[c] = Idle
    /\ \E r \in rates : rates' = rates \ {r}
    /\ UNCHANGED <<fund, bookings, tenants, lines, entries, request, last>>

\* fund_add_contribution, fund_add_expense.
AddBooking(c) ==
    /\ request[c] = Idle
    /\ fund # None
    /\ NewRow
    /\ \E day \in BookingDays, amount \in Amounts, sign \in {-1, 1} :
         bookings' = bookings \cup {[id |-> last + 1, on |-> day, amount |-> sign * amount]}
    /\ UNCHANGED <<fund, rates, tenants, lines, entries, request>>

\* fund_delete_contribution, fund_delete_expense.
DeleteBooking(c) ==
    /\ request[c] = Idle
    /\ \E b \in bookings : bookings' = bookings \ {b}
    /\ UNCHANGED <<fund, rates, tenants, lines, entries, request, last>>

-----------------------------------------------------------------------------
(* Charging and confirming *)

\* Mutant: the contribution is charged at the base amount.
ChargedBase(day) == {fund.terms.amount}

\* calculate_fees: the rate of the last day of the period.
Charged(day) == RateFor(day)

\* A fund open on some day of the period.
Open(t) ==
    /\ fund # None
    /\ fund.terms.start <= t.to
    /\ fund.terms.end # None => t.from <= fund.terms.end

LineFor(t, value, day) == [tenant |-> t.id, value |-> value, book |-> TheBook, day |-> day]

\* save_settlement.
Settle(c) ==
    /\ request[c] = Idle
    /\ NewRow
    /\ \E p \in Periods :
         LET t == [id |-> last + 1, from |-> p[1], to |-> p[2]]
         IN /\ tenants' = tenants \cup {t}
            /\ IF Open(t)
               THEN \E value \in Charged(t.to) : lines' = lines \cup {LineFor(t, value, t.to)}
               ELSE UNCHANGED lines
    /\ UNCHANGED <<fund, rates, bookings, entries, request>>

\* delete_settlement: SET_NULL on the ledger's link, CASCADE to the lines.
DeleteSettlement(c) ==
    /\ request[c] = Idle
    /\ \E t \in tenants :
         /\ tenants' = tenants \ {t}
         /\ lines' = {l \in lines : l.tenant # t.id}
         /\ entries' = {IF e.tenant = t.id THEN [e EXCEPT !.tenant = None] ELSE e : e \in entries}
    /\ UNCHANGED <<fund, rates, bookings, request, last>>

\* The month the records page shows a bill with a contribution in, and the one
\* its confirmation is billed to unless the owner picks another.
Usual(t) == First(MonthOf(Midpoint(t)) + 1)

\* _backfill_fundline.py: the tenants settled since the start that have no line;
\* the end of the fund is not looked at.
Lacking == {t \in tenants : /\ fund.terms.start <= Midpoint(t)
                            /\ \A l \in lines : l.tenant # t.id}

\* They get one at the rate of the usual month.
Backfill ==
    /\ fund # None
    /\ Lacking # {}
    /\ \E value \in [Lacking -> Amounts] :
         /\ \A t \in Lacking : value[t] \in RateFor(Usual(t))
         /\ lines' = lines \cup {LineFor(t, value[t], Usual(t)) : t \in Lacking}
    /\ UNCHANGED <<fund, rates, bookings, tenants, entries, request, last>>

NewEntry(tenant, billing) ==
    /\ NewRow
    /\ entries' = entries \cup {[id |-> last + 1, tenant |-> tenant, billing |-> billing]}
    /\ UNCHANGED <<fund, rates, bookings, tenants, lines, request>>

\* confirm_fee: once per tenant, billed to any month.
Confirm(c) ==
    /\ request[c] = Idle
    /\ \E t \in tenants, billing \in BillingDays :
         /\ \A e \in entries : e.tenant # t.id
         /\ NewEntry(t.id, billing)

\* RecordCreate with kind fee: it feeds the fund like a confirmed bill.
RecordCreate(c) ==
    /\ request[c] = Idle
    /\ \E billing \in BillingDays : NewEntry(None, billing)

RecordDelete(c) ==
    /\ request[c] = Idle
    /\ \E e \in entries : entries' = entries \ {e}
    /\ UNCHANGED <<fund, rates, bookings, tenants, lines, request, last>>

-----------------------------------------------------------------------------
Next ==
    \/ \E c \in Clients :
         \/ AddFund(c) \/ FormRead(c, "terms") \/ FormRead(c, "name")
         \/ EditTerms(c) \/ Rename(c) \/ DeleteFund(c)
         \/ AddRate(c) \/ DeleteRate(c) \/ AddBooking(c) \/ DeleteBooking(c)
         \/ Settle(c) \/ DeleteSettlement(c)
         \/ Confirm(c) \/ RecordCreate(c) \/ RecordDelete(c)
    \/ Backfill

Spec == Init /\ [][Next]_vars

-----------------------------------------------------------------------------
(* Properties *)

\* No rate starts between the two days, and no two rates start on one day.
SameRate(a, b) ==
    /\ \A r \in rates : ~(a < r.date /\ r.date <= b) /\ ~(b < r.date /\ r.date <= a)
    /\ \A r, s \in rates : r.date = s.date => r = s

\* What a bill charged for the fund is what its confirmation puts into the pool,
\* as long as the terms and rates are those the bill was computed from, the
\* billing month is one the fund collects in, and no rate starts between the day
\* the charge was priced on and the billing month: the two computations, by
\* settled period and by billing month, then agree.
ChargedIsCollected ==
    fund # None => \A e \in entries, l \in lines :
        /\ e.tenant = l.tenant
        /\ l.book = TheBook
        /\ InWindow(fund.terms, e.billing, e.billing)
        /\ SameRate(l.day, e.billing)
        => Collected(e, e.billing) = {l.value}

\* The first month of a fund collects: a bill for a period of one month that the
\* fund was open in is in the window when it is billed to that month.
FirstMonthCollects ==
    fund # None => \A t \in tenants :
        MonthOf(t.from) = MonthOf(t.to) /\ Open(t) =>
            InWindow(fund.terms, First(MonthOf(t.to)), LastDay)

\* A dated row of the pool - a rate, a contribution, an expense - never changes
\* what the pool held before its date, neither when it is added nor when it goes.
HistoryStands ==
    [][fund # None /\ fund' = fund =>
         LET touched == {r.date : r \in (rates \ rates') \cup (rates' \ rates)} \cup
                        {b.on : b \in (bookings \ bookings') \cup (bookings' \ bookings)}
         IN  touched # {} =>
               \A day \in Days : (\A d \in touched : day < d) => Balance(day)' = Balance(day)]_vars

\* Renaming a fund leaves its terms alone, and editing them its name, unless the
\* other form was saved since the row was read.
FormsKeepApart ==
    [][\A c \in Clients :
         request[c] # Idle /\ request'[c] = Idle /\ ~request[c].overtaken =>
            IF request[c].op = "name" THEN fund'.terms = fund.terms
                                      ELSE fund'.name = fund.name]_vars

=============================================================================
