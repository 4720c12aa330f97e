------------------------------- MODULE RentBook -------------------------------
(***************************************************************************)
(* The rent side of the ledger and the tax on it: confirm_rent, the CRUD   *)
(* views of LedgerEntry, monthly_tax and the payments recorded for it.     *)
(*                                                                         *)
(* Every statement autocommits, so a request that reads and later writes   *)
(* is several actions.  An entry counts for the tax of the month in which  *)
(* it was received, and settles the rent of its billing month.  Months are *)
(* numbered through the years.  One owner; contracts are never removed.    *)
(***************************************************************************)
EXTENDS TaxRates, FiniteSets

CONSTANTS
    Clients,     \* requests that can be in flight together
    Contracts,
    LastMonth,   \* bound: months there are
    YearLength,  \* months of a year
    Kinds,       \* kinds of entries in the form
    Received,    \* months the form may date a payment
    Billings,    \* months the form may settle
    Amounts,     \* amounts of entries
    MaxEntries,  \* bound: entries ever created
    MaxWrites,   \* bound: changes of the ledger
    MaxDues,     \* bound: tax payments ever recorded
    None         \* SQL NULL

Months == 1..LastMonth
YearOf(m) == (m - 1) \div YearLength
MonthsOf(y) == {m \in Months : YearOf(m) = y}

\* Assumed of the constants, in Books.
CalendarAssumption ==
    /\ LastMonth \in Nat /\ YearLength \in Nat \ {0}
    /\ Received \subseteq Months /\ Billings \subseteq Months

AmountsAssumption ==
    /\ Kinds \subseteq {"rent", "fee"}
    /\ None \notin Contracts
    /\ Amounts \subseteq Int
    /\ RatesAssumption

\* LedgerEntry
Entry == [id : Nat, contract : Contracts \cup {None}, kind : {"rent", "fee"},
          received : Months, billing : Months, amount : Amounts]

\* What a month brought in.
Incomes == [Months -> Int]

\* TaxDue.  seen is not in the code: the incomes the payment was computed from.
Due == [id : Nat, month : Months, tax : Nat \ {0}, seen : SUBSET Incomes]

Idle == [op |-> "idle"]
Request ==
    {Idle}
    \cup [op : {"confirm"}, contract : Contracts, page : Months, existing : BOOLEAN]
    \cup [op : {"update"}, entry : Entry]
    \cup [op : {"tax"}, month : Months, before : Int, seen : SUBSET Incomes]
    \cup [op : {"find", "insert"}, month : Months, tax : Nat \ {0}, seen : SUBSET Incomes]

VARIABLES
    entries,    \* LedgerEntry rows
    dues,       \* TaxDue rows
    request,    \* what each in-flight request has read
    lastEntry,  \* serial of LedgerEntry
    lastDue,    \* serial of TaxDue
    writes

vars == <<entries, dues, request, lastEntry, lastDue, writes>>

TypeOK ==
    /\ entries \subseteq Entry
    /\ dues \subseteq Due
    /\ request \in [Clients -> Request]
    /\ \A e, f \in entries : e.id = f.id => e = f
    /\ \A d, f \in dues : d.id = f.id => d = f
    /\ lastEntry \in Nat /\ lastDue \in Nat /\ writes \in Nat

Init ==
    /\ entries = {}
    /\ dues = {}
    /\ request = [c \in Clients |-> Idle]
    /\ lastEntry = 0
    /\ lastDue = 0
    /\ writes = 0

-----------------------------------------------------------------------------
(* Tax *)

Total(E) == SumFunctionOnSet([e \in E |-> e.amount], E)

\* _sum_taxable
Taxable(M) == Total({e \in entries : e.kind = "rent" /\ e.received \in M})

Income == [m \in Months |-> Taxable({m})]

\* Mutant: the threshold starts afresh every month.
IncomeBeforeNone(m) == 0

\* Of the year, up to the month.
IncomeBefore(m) == Taxable({n \in MonthsOf(YearOf(m)) : n < m})

-----------------------------------------------------------------------------
(* Rent *)

Done(c) == request' = [request EXCEPT ![c] = Idle]

\* A change of the ledger.
Write(E) ==
    /\ writes < MaxWrites
    /\ writes' = writes + 1
    /\ entries' = E

NewEntry(e) ==
    /\ lastEntry < MaxEntries
    /\ lastEntry' = lastEntry + 1
    /\ Write(entries \cup {e})

\* A rent entry of the contract settles the month.
Paid(k, m) == \E e \in entries : e.contract = k /\ e.billing = m /\ e.kind = "rent"

\* confirm_rent: the page of a month looks for an entry ...
ConfirmRead(c) ==
    /\ request[c] = Idle
    /\ \E k \in Contracts, m \in Billings :
         request' = [request EXCEPT ![c] =
            [op |-> "confirm", contract |-> k, page |-> m, existing |-> Paid(k, m)]]
    /\ UNCHANGED <<entries, dues, lastEntry, lastDue, writes>>

\* ... finding one it says so ...
ConfirmRefused(c) ==
    /\ request[c].op = "confirm"
    /\ request[c].existing
    /\ Done(c)
    /\ UNCHANGED <<entries, dues, lastEntry, lastDue, writes>>

\* ... or else it writes one for the month that the form names.
ConfirmWrite(c) ==
    /\ request[c].op = "confirm"
    /\ ~request[c].existing
    /\ \E received \in Received, billing \in Billings, amount \in Amounts :
         NewEntry([id |-> lastEntry + 1, contract |-> request[c].contract, kind |-> "rent",
                   received |-> received, billing |-> billing, amount |-> amount])
    /\ Done(c)
    /\ UNCHANGED <<dues, lastDue>>

\* What LedgerEntryForm lets the owner enter.
Form(id) == [id : {id}, contract : Contracts \cup {None}, kind : Kinds,
             received : Received, billing : Billings, amount : Amounts]

RecordCreate(c) ==
    /\ request[c] = Idle
    /\ \E e \in Form(lastEntry + 1) : NewEntry(e)
    /\ UNCHANGED <<dues, request, lastDue>>

\* RecordUpdate reads a row ...
UpdateRead(c) ==
    /\ request[c] = Idle
    /\ \E e \in entries : request' = [request EXCEPT ![c] = [op |-> "update", entry |-> e]]
    /\ UNCHANGED <<entries, dues, lastEntry, lastDue, writes>>

\* ... and writes all of it, also when it was deleted meanwhile.
UpdateWrite(c) ==
    /\ request[c].op = "update"
    /\ LET id == request[c].entry.id
       IN  \E e \in Form(id) : Write({f \in entries : f.id # id} \cup {e})
    /\ Done(c)
    /\ UNCHANGED <<dues, lastEntry, lastDue>>

RecordDelete(c) ==
    /\ request[c] = Idle
    /\ \E e \in entries : Write(entries \ {e})
    /\ UNCHANGED <<dues, request, lastEntry, lastDue>>

-----------------------------------------------------------------------------
(* Paying the tax *)

DuesOf(m) == {d \in dues : d.month = m}

\* confirm_tax_payment: monthly_tax sums the year up to the month ...
TaxBefore(c) ==
    /\ request[c] = Idle
    /\ \E m \in Months :
         request' = [request EXCEPT ![c] =
            [op |-> "tax", month |-> m, before |-> IncomeBefore(m), seen |-> {Income}]]
    /\ UNCHANGED <<entries, dues, lastEntry, lastDue, writes>>

\* ... then the month; where nothing is due, nothing is recorded ...
TaxMonth(c) ==
    /\ request[c].op = "tax"
    /\ LET tax == Tax(request[c].before, Income[request[c].month])
       IN  request' = [request EXCEPT ![c] =
             IF NothingToPay(tax) THEN Idle
             ELSE [op |-> "find", month |-> @.month, tax |-> tax, seen |-> @.seen \cup {Income}]]
    /\ UNCHANGED <<entries, dues, lastEntry, lastDue, writes>>

\* A payment recorded before gets the new amount.
Repaid(d, new) == [d EXCEPT !.tax = new.tax, !.seen = new.seen]

\* ... then update_or_create looks for the month's payment: one is updated, none is
\* inserted, two raise MultipleObjectsReturned.
TaxFind(c) ==
    /\ request[c].op = "find"
    /\ LET found == DuesOf(request[c].month)
       IN  /\ dues' = IF Cardinality(found) = 1
                      THEN (dues \ found) \cup {Repaid(d, request[c]) : d \in found}
                      ELSE dues
           /\ request' = [request EXCEPT ![c] = IF found = {} THEN [@ EXCEPT !.op = "insert"] ELSE Idle]
    /\ UNCHANGED <<entries, lastEntry, lastDue, writes>>

\* No constraint forbids a second row.
TaxInsert(c) ==
    /\ request[c].op = "insert"
    /\ lastDue < MaxDues
    /\ lastDue' = lastDue + 1
    /\ dues' = dues \cup {[id |-> lastDue + 1, month |-> request[c].month,
                           tax |-> request[c].tax, seen |-> request[c].seen]}
    /\ Done(c)
    /\ UNCHANGED <<entries, lastEntry, writes>>

DeleteTax(c) ==
    /\ request[c] = Idle
    /\ \E d \in dues : dues' = dues \ {d}
    /\ UNCHANGED <<entries, request, lastEntry, lastDue, writes>>

\* A worker is killed between two statements of a request.
Crash(c) ==
    /\ request[c] # Idle
    /\ Done(c)
    /\ UNCHANGED <<entries, dues, lastEntry, lastDue, writes>>

-----------------------------------------------------------------------------
Next == \E c \in Clients :
    \/ ConfirmRead(c) \/ ConfirmRefused(c) \/ ConfirmWrite(c)
    \/ RecordCreate(c) \/ UpdateRead(c) \/ UpdateWrite(c) \/ RecordDelete(c)
    \/ TaxBefore(c) \/ TaxMonth(c) \/ TaxFind(c) \/ TaxInsert(c) \/ DeleteTax(c)
    \/ Crash(c)

Spec == Init /\ [][Next]_vars

-----------------------------------------------------------------------------
(* Properties *)

\* tax.py: the low rate "on annual income up to" the threshold, the high rate "on the
\* surplus above it", in thousandths.
YearTax(income) == Min({income, Threshold}) * LowRate + Max({0, income - Threshold}) * HighRate

\* Payments for different months of year y, each computed from incomes v, that leave out
\* no month with an income.
PaidYear(y, v) == {D \in SUBSET {d \in dues : d.month \in MonthsOf(y) /\ d.seen = {v}} :
    /\ \A d, f \in D : d.month = f.month => d = f
    /\ \A m \in MonthsOf(y) : v[m] # 0 => \E d \in D : d.month = m}

\* The months' payments add up to the tax on the year, at most half a zloty off for each,
\* in whatever order they are recorded, repeated or undone, if no month's income is
\* negative.
YearTaxCollected ==
    \A y \in {YearOf(m) : m \in Months} : \A v \in UNION {d.seen : d \in dues} :
        (\A m \in MonthsOf(y) : v[m] >= 0) =>
            \A D \in PaidYear(y, v) :
                2 * Magnitude(1000 * SumFunctionOnSet([d \in D |-> d.tax], D)
                              - YearTax(SumFunctionOnSet(v, MonthsOf(y))))
                    <= 1000 * Cardinality(D)

\* confirm_tax_payment and the ledger forms keep their rows well typed, and the tax of a
\* year is collected.
RentInv == TypeOK /\ YearTaxCollected

=============================================================================
