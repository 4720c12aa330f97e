-------------------------------- MODULE Standing --------------------------------
(***************************************************************************)
(* What the landlord's pages say on a day: the arrears and the dashboard,  *)
(* the records of a month with the rents and fees still expected, the      *)
(* flats and contracts, the forecast and the tax table.  None of it is     *)
(* stored: each page computes it with queries of its own from the          *)
(* contracts, the settled bills, the ledger and the tax payments.          *)
(*                                                                         *)
(* Days are numbered through months of one length and years of YearLength  *)
(* months.  Some pages take the local date and others the date in UTC,     *)
(* which changes later.  One landlord and one flat; each request is one    *)
(* action (SettlementLedger, RentBook and Tenancies interleave them).      *)
(***************************************************************************)
EXTENDS TaxRates, FiniteSets, Functions

CONSTANTS
    Rooms,
    MonthLength,  \* days of a month
    YearLength,   \* months of a year
    LastMonth,    \* bound: months there are
    Starts,       \* first days of contracts, and None
    Ends,         \* last days of contracts, and None
    Prices,       \* prices of contracts, and None
    PayDays,      \* payment days of contracts, and None
    Amounts,      \* amounts received
    Billings,     \* months they are billed to, and settled
    Receipts,     \* months they are received in
    RentalStarts, \* months a flat's rental may start in, and None
    Back,         \* months the arrears look back
    SoonDays,     \* days before its end a contract is flagged
    WarnDays,     \* days before its end a room is
    TaxDay,       \* day of the month the tax is due
    MaxWrites,    \* bound: rows written
    None          \* SQL NULL

Months == 1..LastMonth
Days == 1..(LastMonth * MonthLength)
MonthOf(day) == (day - 1) \div MonthLength + 1
First(month) == (month - 1) * MonthLength + 1
Last(month) == month * MonthLength
YearOf(month) == (month - 1) \div YearLength

\* Assumed of the constants, in Books.
StandingAssumption ==
    /\ MonthLength \in Nat \ {0} /\ YearLength \in Nat \ {0} /\ LastMonth \in Nat \ {0}
    /\ Starts \cup Ends \subseteq Days \cup {None}
    /\ Prices \cup PayDays \subseteq Nat \cup {None}
    /\ Amounts \subseteq Nat \ {0}
    /\ Billings \subseteq Months /\ Receipts \subseteq Months
    /\ RentalStarts \subseteq Months \cup {None}
    /\ Back \in Nat \ {0} /\ SoonDays \in Nat /\ WarnDays \in Nat /\ SoonDays <= WarnDays
    /\ TaxDay \in 1..MonthLength
    /\ RatesAssumption
    /\ None \notin Int

Contract == [id : Nat, room : Rooms, start : Days \cup {None}, end : Days \cup {None},
             price : Nat \cup {None}, payday : Nat \cup {None}, deleted : BOOLEAN]

\* FeeCalculationTenant: the month of the middle of its period, whether all its
\* lines are billed in advance, whether they come to more than nothing.
Bill == [id : Nat, month : Months, advance : BOOLEAN, owed : BOOLEAN]

\* LedgerEntry: tenant is settlement_tenant, received the month of record_date.
Entry == [id : Nat, kind : {"rent", "fee"}, contract : Nat \cup {None},
          tenant : Nat \cup {None}, billing : Months, received : Months \cup {None}, amount : Nat]

VARIABLES
    today,      \* the local date
    utc,        \* the date of timezone.now(), in UTC
    rental,     \* Flat.rental_start, its month
    contracts,  \* Contract rows
    bills,      \* FeeCalculationTenant rows
    entries,    \* LedgerEntry rows
    dues,       \* months with a TaxDue row
    last        \* serial of all rows

vars == <<today, utc, rental, contracts, bills, entries, dues, last>>
rows == <<contracts, bills, entries, dues, last>>

\* No entry names a bill or a contract that is gone.
TypeOK ==
    /\ today \in Days /\ utc \in {today, today - 1}
    /\ rental \in Months \cup {None}
    /\ contracts \subseteq Contract
    /\ bills \subseteq Bill
    /\ entries \subseteq Entry
    /\ dues \subseteq Months
    /\ last \in Nat
    /\ {e.contract : e \in entries} \subseteq {ct.id : ct \in contracts} \cup {None}
    /\ {e.tenant : e \in entries} \subseteq {b.id : b \in bills} \cup {None}

Init ==
    /\ today = 1 /\ utc = 1
    /\ rental \in RentalStarts
    /\ contracts = {} /\ bills = {} /\ entries = {} /\ dues = {}
    /\ last = 0

Live == {ct \in contracts : ~ct.deleted}

Lower(a, b) == IF a < b THEN a ELSE b
Higher(a, b) == IF a > b THEN a ELSE b

\* A quotient to the nearest whole number, a half up.
Rounded(n, d) == (2 * n + d) \div (2 * d)

-----------------------------------------------------------------------------
(* forecast.py *)

\* Mutant: the last day of a contract is not counted.
NightsIn(ct, month) ==
    IF ct.start = None THEN 0
    ELSE Higher(0, (IF ct.end = None THEN Last(month) ELSE Lower(ct.end, Last(month)))
                   - Higher(ct.start, First(month)))

\* contract_ratio, as days of the month.
DaysIn(ct, month) ==
    IF ct.start = None THEN 0
    ELSE Higher(0, (IF ct.end = None THEN Last(month) ELSE Lower(ct.end, Last(month)))
                   - Higher(ct.start, First(month)) + 1)

\* The rent of a month in proportion to those days.
Share(ct, month) == Rounded(ct.price * DaysIn(ct, month), MonthLength)

\* rent_due_status.
DueStatus(month, payday, day) ==
    LET deadline == First(month) + payday
    IN  IF payday \in {None, 0} THEN "none"
        ELSE IF day < deadline - 1 THEN "GRN"
        ELSE IF day < deadline THEN "AMB"
        ELSE IF day <= Last(month) THEN "RED"
        ELSE "EXC"

\* Mutant: a rent of anybody settles the month.
MonthPaid(ct, month) == \E e \in entries : e.kind = "rent" /\ e.billing = month

\* paid: rent entries by contract and billing month.
RentPaid(ct, month) ==
    \E e \in entries : e.kind = "rent" /\ e.contract = ct.id /\ e.billing = month

\* The months rent_arrears looks at.
Window == Higher(1, MonthOf(utc) - Back + 1)..MonthOf(utc)

\* rent_arrears.
InArrears(ct, month) ==
    /\ month \in Window
    /\ ct.price # None
    /\ ct.start # None => ct.start <= Last(month)
    /\ ct.end # None => ct.end >= First(month)
    /\ ~RentPaid(ct, month)
    /\ DueStatus(month, ct.payday, utc) \in {"RED", "EXC"}

\* forecast_income: deleted contracts too.
Forecast(month) ==
    {ct \in contracts : /\ ct.start # None /\ ct.start <= Last(month)
                        /\ ct.end # None => ct.end >= First(month)
                        /\ ct.price # None}

-----------------------------------------------------------------------------
(* The records page of a month *)

PaidOnPage(ct, month) ==
    \E e \in entries : e.billing = month /\ e.kind # "fee" /\ e.contract = ct.id

\* forecast_rows: contracts without an end are not among them.
Expected(month) ==
    {ct \in Live : /\ ct.start # None /\ ct.start <= Last(month)
                   /\ ct.end # None /\ ct.end >= First(month)
                   /\ ~PaidOnPage(ct, month) /\ ct.price # None}

\* Mutant: fees in advance are shown with the others.
ShownLate(b) == b.month + 1

\* disp_month: after December comes January.
ShownIn(b) == IF b.advance THEN b.month ELSE b.month + 1

\* fee_rows: paid is what was billed to the month of the page.
FeeRows(month) ==
    {b \in bills : /\ b.owed
                   /\ ShownIn(b) = month
                   /\ \A e \in entries : e.billing = month /\ e.kind = "fee" => e.tenant # b.id}

\* The month's income by billing month.
RecordedIncome(month) == {e \in entries : e.billing = month /\ e.kind # "fee"}

-----------------------------------------------------------------------------
(* stats.py *)

\* confirmed_tenant_ids.
Confirmed(b) == \E e \in entries : e.kind = "fee" /\ e.tenant = b.id

\* unconfirmed_fees, with the month each links to.
UnconfirmedFees ==
    {[bill |-> b, page |-> IF b.advance THEN b.month ELSE b.month + 1] :
        b \in {x \in bills : x.owed /\ ~Confirmed(x)}}

\* inventory_state; the contracts page splits the same way.
ActiveOn(day) == {ct \in Live : /\ ct.start # None /\ ct.start <= day
                                /\ ct.end # None => day <= ct.end}

\* contracts: ending_soon.
EndingSoon(ct) == ct.end # None /\ ct.end <= utc + SoonDays

\* order_by: the one that ends last, or never.
LastToEnd(R) == {ct \in R : \A d \in R : ct.end # None => d.end # None /\ d.end <= ct.end}

\* occupancy: a contract that ends today is over.
Occupants(room) ==
    LastToEnd({ct \in Live : /\ ct.room = room
                             /\ ct.start # None /\ ct.start <= utc
                             /\ ct.end # None => ct.end > utc})
RoomStatus(room) ==
    IF Occupants(room) = {} THEN "danger"
    ELSE IF \E ct \in Occupants(room) : ct.end = None \/ ct.end - utc > WarnDays
    THEN "success" ELSE "warning"

SumOf(R) == SumFunctionOnSet([e \in R |-> e.amount], R)
ReceivedIn(M) == {e \in entries : e.kind = "rent" /\ e.received \in M}
IncomeOf(M) == SumOf(ReceivedIn(M))

\* The month some months ago.
Ago(month, offset) == month - offset

\* monthly_income_series: one bar for each of the last months.
Chart(months) ==
    [offset \in 0..(months - 1) |-> IncomeOf({Ago(MonthOf(utc), offset)})]

\* dashboard: the completed month and its year to date.
Headline == IncomeOf({MonthOf(utc) - 1})
YearToDate ==
    IncomeOf({m \in Months : YearOf(m) = YearOf(MonthOf(utc) - 1) /\ m < MonthOf(utc)})

-----------------------------------------------------------------------------
(* tax.py *)

\* tax_table: the completed months from the year of the first rental on.
TaxTable == {m \in Months : /\ rental # None /\ YearOf(m) >= YearOf(rental)
                            /\ YearOf(m) <= YearOf(MonthOf(utc))
                            /\ ~(YearOf(m) = YearOf(MonthOf(utc)) /\ m >= MonthOf(utc))}

\* A month's tax is due in the next month, that of December by its end.
Deadline(month) ==
    IF month % YearLength = 0 THEN Last(month + 1) ELSE First(month + 1) + TaxDay - 1

\* monthly_tax: where an income is below half a zloty of tax, nothing is owed.
TaxOwed(month) ==
    LET before == {m \in Months : YearOf(m) = YearOf(month) /\ m < month}
    IN  ~NothingToPay(Tax(IncomeOf(before), IncomeOf({month})))
UnpaidTax == {m \in TaxTable : TaxOwed(m) /\ m \notin dues}
OverdueTax == {m \in UnpaidTax : Deadline(m) < utc}

-----------------------------------------------------------------------------
(* What the owner does *)

NewRow ==
    /\ last < MaxWrites
    /\ last' = last + 1

\* ContractForm.
Filled(id, room, start, end, price, payday) ==
    [id |-> id, room |-> room, start |-> start, end |-> end, price |-> price,
     payday |-> payday, deleted |-> FALSE]

ContractCreate ==
    /\ NewRow
    /\ \E room \in Rooms, start \in Starts, end \in Ends, price \in Prices, payday \in PayDays :
         contracts' = contracts \cup {Filled(last + 1, room, start, end, price, payday)}
    /\ UNCHANGED <<today, utc, rental, bills, entries, dues>>

\* A renewal, a hard stop, or ContractUpdate: of what it changes the pages see most
\* in the last day.
ContractEnds ==
    /\ NewRow
    /\ \E ct \in Live, end \in Ends :
         contracts' = (contracts \ {ct}) \cup {[ct EXCEPT !.end = end]}
    /\ UNCHANGED <<today, utc, rental, bills, entries, dues>>

\* ContractDelete: soft, and the entries keep their contract.
ContractDelete ==
    /\ \E ct \in Live : contracts' = (contracts \ {ct}) \cup {[ct EXCEPT !.deleted = TRUE]}
    /\ UNCHANGED <<today, utc, rental, bills, entries, dues, last>>

\* save_settlement, for one tenant.
Settle ==
    /\ NewRow
    /\ \E month \in Billings, advance, owed \in BOOLEAN :
         bills' = bills \cup {[id |-> last + 1, month |-> month, advance |-> advance, owed |-> owed]}
    /\ UNCHANGED <<today, utc, rental, contracts, entries, dues>>

\* SET_NULL.
Unlinked(b) == {IF e.tenant = b.id THEN [e EXCEPT !.tenant = None] ELSE e : e \in entries}

DeleteSettlement ==
    /\ \E b \in bills : bills' = bills \ {b} /\ entries' = Unlinked(b)
    /\ UNCHANGED <<today, utc, rental, contracts, dues, last>>

Recorded(id, kind, contract, tenant, billing, received, amount) ==
    [id |-> id, kind |-> kind, contract |-> contract, tenant |-> tenant,
     billing |-> billing, received |-> received, amount |-> amount]

NewEntry(kind, contract, tenant, dates) ==
    /\ NewRow
    /\ \E billing \in Billings, received \in dates, amount \in Amounts :
         entries' = entries \cup
           {Recorded(last + 1, kind, contract, tenant, billing, received, amount)}
    /\ UNCHANGED <<today, utc, rental, contracts, bills, dues>>

\* confirm_rent: the page of an unpaid month is opened, any month is entered.
ConfirmRent == \E ct \in Live : /\ \E month \in Months : ~RentPaid(ct, month)
                                /\ NewEntry("rent", ct.id, None, Receipts)

\* confirm_fee.
ConfirmFee == \E b \in bills : ~Confirmed(b) /\ NewEntry("fee", None, b.id, Receipts)

\* LedgerEntryForm: contracts that have not ended; the date may be left out.
Selectable == {ct.id : ct \in {x \in Live : x.end = None \/ x.end >= utc}} \cup {None}

RecordCreate == \E kind \in {"rent", "fee"}, contract \in Selectable :
                  NewEntry(kind, contract, None, Receipts \cup {None})

\* RecordUpdate: the entry keeps its bill.
RecordUpdate ==
    /\ NewRow
    /\ \E e \in entries, kind \in {"rent", "fee"}, billing \in Billings,
         received \in Receipts \cup {None}, amount \in Amounts :
       \E contract \in Selectable \cup {e.contract} :
         entries' = (entries \ {e}) \cup
           {Recorded(e.id, kind, contract, e.tenant, billing, received, amount)}
    /\ UNCHANGED <<today, utc, rental, contracts, bills, dues>>

RecordDelete ==
    /\ \E e \in entries : entries' = entries \ {e}
    /\ UNCHANGED <<today, utc, rental, contracts, bills, dues, last>>

\* confirm_tax_payment, delete_tax_payment.
PayTax ==
    /\ \E m \in Months \ dues : TaxOwed(m) /\ dues' = dues \cup {m}
    /\ UNCHANGED <<today, utc, rental, contracts, bills, entries, last>>
UndoTax ==
    /\ \E m \in dues : dues' = dues \ {m}
    /\ UNCHANGED <<today, utc, rental, contracts, bills, entries, last>>

\* Midnight comes first here and then in UTC.
LocalMidnight ==
    /\ utc = today
    /\ today + 1 \in Days
    /\ today' = today + 1
    /\ UNCHANGED <<utc, rental, rows>>
UtcMidnight ==
    /\ utc < today
    /\ utc' = today
    /\ UNCHANGED <<today, rental, rows>>

Next ==
    \/ ContractCreate \/ ContractEnds \/ ContractDelete
    \/ Settle \/ DeleteSettlement
    \/ ConfirmRent \/ ConfirmFee \/ RecordCreate \/ RecordUpdate \/ RecordDelete
    \/ PayTax \/ UndoTax
    \/ LocalMidnight \/ UtcMidnight

Spec == Init /\ [][Next]_vars

-----------------------------------------------------------------------------
(* Properties *)

Rank == [none |-> 0, GRN |-> 1, AMB |-> 2, RED |-> 3, EXC |-> 4]

\* A rent in arrears can be confirmed on the page the arrears link to, if its
\* contract has a start and an end: it is a row of that month's records, with the
\* status of the arrears or, between the two midnights, a later one.
ArrearsAreRows ==
    \A ct \in Live, month \in Months :
        InArrears(ct, month) /\ ct.start # None /\ ct.end # None =>
            /\ ct \in Expected(month)
            /\ LET shown == Rank[DueStatus(month, ct.payday, today)]
                   owed  == Rank[DueStatus(month, ct.payday, utc)]
               IN  owed <= shown /\ (utc = today => owed = shown)

\* A bill that nobody confirmed is a row of the page its arrears link to, and of no
\* other; one that is confirmed is a row at most of a page it was not billed to.
BillsHaveOnePage ==
    /\ \A fee \in UnconfirmedFees : \A month \in 1..(LastMonth + 1) :
         fee.bill \in FeeRows(month) <=> month = fee.page
    /\ \A month \in Months : \A b \in FeeRows(month) :
         b \in {fee.bill : fee \in UnconfirmedFees} \/
         \E e \in entries : e.tenant = b.id /\ e.billing # month

\* The forecast of a month is what its records page still expects and what was
\* paid, contract by contract, for contracts with a start and a later end that were
\* not deleted.
ForecastSplits ==
    \A month \in Months : \A ct \in Live :
        ct.start # None /\ ct.end # None /\ ct.start <= ct.end =>
            (ct \in Forecast(month) <=>
                \/ ct \in Expected(month)
                \/ RentPaid(ct, month) /\ ct.price # None /\ DaysIn(ct, month) > 0)

\* A tenancy renewed from one day to the next, at one price, is charged one rent in
\* the month of the renewal: the two shares differ from it by a grosz at most.
RenewalPaysOnce ==
    \A month \in Months : \A a, b \in contracts :
        /\ a.price # None /\ a.price = b.price
        /\ a.start # None /\ a.start <= First(month)
        /\ a.end # None /\ b.start = a.end + 1
        /\ b.end # None => b.end >= Last(month)
        /\ a.end >= First(month) /\ b.start <= Last(month)
        => Share(a, month) + Share(b, month) - a.price \in {-1, 0, 1}

\* The list of flats and the list of contracts agree on who lives in a room, but for
\* contracts in their last day: it is free when all its contracts end today, and
\* said to run out soon only when none of them runs longer.
RoomsAgree ==
    \A room \in Rooms :
        LET there == {ct \in ActiveOn(utc) : ct.room = room}
        IN  /\ RoomStatus(room) = "danger" <=> \A ct \in there : ct.end = utc
            /\ RoomStatus(room) = "warning" =>
                 \A ct \in there : ct.end # None /\ ct.end <= utc + WarnDays
            /\ RoomStatus(room) = "success" => \E ct \in there : ~EndingSoon(ct)

\* The year to date of the dashboard, a range of days, adds up the bars of the chart,
\* months counted backwards, that the tax table lists for that year: in January too,
\* and if the flat was rented by then.
IncomeAgrees ==
    LET ended == MonthOf(utc) - 1
        bars == {o \in 1..ended : YearOf(MonthOf(utc) - o) = YearOf(ended)}
    IN  /\ YearToDate = SumFunctionOnSet(Chart(LastMonth), bars)
        /\ rental # None /\ YearOf(rental) <= YearOf(ended)
           => {m \in TaxTable : YearOf(m) = YearOf(ended)} = {MonthOf(utc) - o : o \in bars}

\* Every completed month from the year of the first rental on with an income that comes
\* to half a zloty at the low rate is owed until it is paid, and overdue once the next
\* month is over; none is before it is completed, or with less than half a zloty at the
\* high rate.
TaxIsListed ==
    /\ \A m \in Months :
         /\ rental # None /\ YearOf(m) >= YearOf(rental)
         /\ m < MonthOf(utc) /\ m \notin dues
         /\ 2 * (LowRate * IncomeOf({m})) >= 1000
         => m \in UnpaidTax /\ (m + 1 < MonthOf(utc) => m \in OverdueTax)
    /\ \A m \in UnpaidTax : m < MonthOf(utc) /\ 2 * (HighRate * IncomeOf({m})) >= 1000

\* A rent in arrears stays there, and does not become less urgent, until it is paid,
\* its contract is changed or deleted, or the months looked at have moved on.
DebtStands ==
    [][\A ct \in Live, month \in Months :
         InArrears(ct, month) =>
            \/ ct \notin contracts'
            \/ month < MonthOf(utc') - Back + 1
            \/ \E e \in entries' \ entries : e.contract = ct.id /\ e.billing = month
            \/ /\ InArrears(ct, month)'
               /\ Rank[DueStatus(month, ct.payday, utc)] <=
                  Rank[DueStatus(month, ct.payday, utc')]]_vars

\* arrears, its comment on rent: "overdue rent, each linking to its Ewidencja month".
ArrearsAreListed ==
    \A ct \in Live, month \in Months : InArrears(ct, month) => ct \in Expected(month)

\* dashboard, its comment on the income of the completed month: "same source as the
\* Ewidencja page and the chart bars, so they agree".
HeadlineIsRecorded ==
    MonthOf(utc) > 1 => Headline = SumOf(RecordedIncome(MonthOf(utc) - 1))

\* No entry names a contract or a bill that is gone, and the pages that list them agree:
\* an entry of the arrears whose contract has a start and an end is a row of the page it
\* links to, a bill is on one page, and the lists of flats and of contracts have the same
\* rooms taken.
PagesAgree == TypeOK /\ ArrearsAreRows /\ BillsHaveOnePage /\ RoomsAgree

\* The pages that add up agree: the forecast with the records on contracts with a start
\* and an end, the two contracts of a renewal with one rent, the dashboard's year with
\* the chart and the tax table, the unpaid taxes with the incomes.
SumsAgree == ForecastSplits /\ RenewalPaysOnce /\ IncomeAgrees /\ TaxIsListed

=============================================================================
