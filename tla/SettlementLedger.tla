--------------------------- MODULE SettlementLedger ---------------------------
(***************************************************************************)
(* Saved settlements, their confirmation as paid, and the fee side of the  *)
(* ledger: save_settlement, delete_settlement, confirm_fee, the CRUD views *)
(* of LedgerEntry and the script that backfills Fund lines.                *)
(*                                                                         *)
(* Each web request autocommits statement by statement (READ COMMITTED,    *)
(* ATOMIC_REQUESTS off), so a request that reads and later writes is two   *)
(* actions, and other requests interleave between them.  A block under     *)
(* transaction.atomic() is one action.  Foreign keys are enforced when a   *)
(* transaction commits: a write whose referenced row is gone is an         *)
(* IntegrityError that rolls the whole block back (the *Abort actions).    *)
(* One flat and one fund; the rows of other owners are invisible to every  *)
(* query and left out.                                                     *)
(***************************************************************************)
EXTENDS Integers, FiniteSets

CONSTANTS
    Clients,     \* requests that can be in flight together
    Contracts,   \* tenancies of the flat
    Months,      \* months a settlement's midpoint can fall in
    LineSets,    \* the sets of fee lines calculate_fees may return per tenant
    Kinds,       \* ledger kinds the user picks in LedgerEntryForm
    Scripts,     \* runs of _backfill_fundline.py
    FundStart,   \* month of Fund.start_date
    MaxCalcs,    \* bound: settlements ever saved
    MaxEntries,  \* bound: ledger rows ever created
    None         \* SQL NULL

Line == [fee_type : {"Counter", "Admin", "Fund"}, advance : BOOLEAN, positive : BOOLEAN]
FundLine == [fee_type |-> "Fund", advance |-> FALSE, positive |-> TRUE]

ASSUME ConstantsAssumption ==
    /\ Months \subseteq Nat
    /\ LineSets \subseteq SUBSET Line
    /\ Kinds \subseteq {"fee", "rent"}
    /\ FundStart \in Nat
    /\ MaxCalcs \in Nat
    /\ MaxEntries \in Nat

BillingMonths == Months \cup {m + 1 : m \in Months}

\* FeeCalculationTenant: one row per settled contract, keyed by the settlement
\* and the contract; period is the midpoint month of its FeeCalculation.
Tenant == [calc : Nat, contract : Contracts, period : Months]
ASSUME NoneAssumption == None \notin Tenant

\* FeeCalculationItem; by tells the rows of a settlement from those of a script.
Settled == "settled"
Item == [tenant : Tenant, line : Line, by : Scripts \cup {Settled}]
ASSUME ScriptsAssumption == Settled \notin Scripts

\* LedgerEntry: primary key, kind, settlement_tenant, billing_period.
Entry == [id : Nat, kind : {"fee", "rent"}, tenant : Tenant \cup {None},
          billing : BillingMonths]

\* FeeItemPayment: one row per charged item; entry names the confirmation that
\* wrote it (it stands for the row's own primary key, no column holds it).
Payment == [item : Item, entry : Nat]

\* at is the last ledger key when a confirmation looked: only the history below
\* uses it.
Idle == [op |-> "idle"]
Request == {Idle}
           \cup [op : {"refuse"}]
           \cup [op : {"confirm"}, tenant : Tenant, at : Nat]
           \cup [op : {"update"}, entry : Entry]

VARIABLES
    tenants,     \* FeeCalculationTenant rows
    items,       \* FeeCalculationItem rows
    ledger,      \* LedgerEntry rows
    payments,    \* FeeItemPayment rows
    request,     \* what each in-flight request has read
    script,      \* what each backfill run has planned
    lastCalc,    \* serial of FeeCalculation
    lastEntry,   \* serial of LedgerEntry
    confirmed,   \* history: one receipt per confirmation of a settlement that stands
    voided       \* history: those whose entry was deleted or booked as rent at some time

vars == <<tenants, items, ledger, payments, request, script, lastCalc, lastEntry,
          confirmed, voided>>
history == <<confirmed, voided>>

\* A confirmation: the settlement tenant, its entry and the last key it had seen.
Receipt == [bill : Tenant, id : Nat, after : Nat]

ItemsOf(t) == {i \in items : i.tenant = t}
SettlesFee(e) == e.kind = "fee" /\ e.tenant # None
FeeEntriesOf(t) == {e \in ledger : e.kind = "fee" /\ e.tenant = t}

\* The confirmations whose fee entry stands.
Standing == {r \in confirmed : \E e \in FeeEntriesOf(r.bill) : e.id = r.id}

\* Mutant: the duplicate check looks at the due month only.
ConfirmedForMonth(t) == \E e \in FeeEntriesOf(t) : e.billing = t.period + 1

\* The existing entry confirm_fee looks for.
AlreadyConfirmed(t) == FeeEntriesOf(t) # {}

\* Mutant: no foreign key constraint on the link.
Unconstrained(t) == TRUE

\* The foreign key from ledger to settlement tenant, at commit.
References(t) == t \in tenants \cup {None}

NewEntry(kind, t, billing) ==
    [id |-> lastEntry + 1, kind |-> kind, tenant |-> t, billing |-> billing]

\* Mutant: only the advance fees are stored as paid.
AdvancePayments(t) == [item : {i \in ItemsOf(t) : i.line.advance}, entry : {lastEntry + 1}]

\* One payment for each item the tenant has now.
ItemPayments(t) == [item : ItemsOf(t), entry : {lastEntry + 1}]

ScriptState == [pc : {"start", "done"}] \cup [pc : {"planned"}, tenants : SUBSET Tenant]

TypeOK ==
    /\ tenants \subseteq Tenant
    /\ items \subseteq Item
    /\ ledger \subseteq Entry
    /\ payments \subseteq Payment
    /\ request \in [Clients -> Request]
    /\ script \in [Scripts -> ScriptState]
    /\ lastCalc \in Nat
    /\ lastEntry \in Nat
    /\ confirmed \subseteq Receipt
    /\ voided \subseteq Receipt

Init ==
    /\ tenants = {}
    /\ items = {}
    /\ ledger = {}
    /\ payments = {}
    /\ request = [c \in Clients |-> Idle]
    /\ script = [s \in Scripts |-> [pc |-> "start"]]
    /\ lastCalc = 0
    /\ lastEntry = 0
    /\ confirmed = {}
    /\ voided = {}

-----------------------------------------------------------------------------
(* Settlements *)

\* save_settlement: header, tenants and items in one transaction.  The tenants
\* come from the fee lines, so a flat without any line settles nobody.
SaveSettlement(c) ==
    /\ request[c] = Idle
    /\ lastCalc < MaxCalcs
    /\ \E period \in Months, active \in SUBSET Contracts, lines \in LineSets :
         LET settled == IF lines = {} THEN {} ELSE active
             new == [calc : {lastCalc + 1}, contract : settled, period : {period}]
         IN /\ tenants' = tenants \cup new
            /\ items' = items \cup [tenant : new, line : lines, by : {Settled}]
    /\ lastCalc' = lastCalc + 1
    /\ UNCHANGED <<ledger, payments, request, script, lastEntry, history>>

\* Mutant: an entry that loses its link becomes rent.
UnlinkToRent(e, gone) == IF e.tenant \in gone THEN [e EXCEPT !.tenant = None, !.kind = "rent"] ELSE e

\* on_delete=SET_NULL.
Unlink(e, gone) == IF e.tenant \in gone THEN [e EXCEPT !.tenant = None] ELSE e

\* delete_settlement: CASCADE to tenants, items and item payments, SET_NULL on
\* the ledger's link.
DeleteSettlement(c) ==
    /\ request[c] = Idle
    /\ \E n \in 1..lastCalc :
         LET gone == {t \in tenants : t.calc = n}
         IN /\ tenants' = tenants \ gone
            /\ items' = {i \in items : i.tenant \notin gone}
            /\ payments' = {p \in payments : p.item.tenant \notin gone}
            /\ ledger' = {Unlink(e, gone) : e \in ledger}
            /\ confirmed' = {r \in confirmed : r.bill \notin gone}
            /\ voided' = {r \in voided : r.bill \notin gone}
    /\ UNCHANGED <<request, script, lastCalc, lastEntry>>

-----------------------------------------------------------------------------
(* Confirming a settlement tenant as paid *)

\* confirm_fee, the reads of a POST: the tenant and whether an entry exists.
ConfirmRead(c) ==
    /\ request[c] = Idle
    /\ \E t \in tenants :
         request' = [request EXCEPT ![c] =
            IF AlreadyConfirmed(t) THEN [op |-> "refuse"]
            ELSE [op |-> "confirm", tenant |-> t, at |-> lastEntry]]
    /\ UNCHANGED <<tenants, items, ledger, payments, script, lastCalc, lastEntry, history>>

\* "already confirmed": nothing is written.
ConfirmRefused(c) ==
    /\ request[c].op = "refuse"
    /\ request' = [request EXCEPT ![c] = Idle]
    /\ UNCHANGED <<tenants, items, ledger, payments, script, lastCalc, lastEntry, history>>

\* The atomic block: the ledger entry and one payment per item, the items read
\* again inside the block.
ConfirmCommit(c) ==
    /\ request[c].op = "confirm"
    /\ References(request[c].tenant)
    /\ lastEntry < MaxEntries
    /\ \E billing \in BillingMonths :
         ledger' = ledger \cup {NewEntry("fee", request[c].tenant, billing)}
    /\ payments' = payments \cup ItemPayments(request[c].tenant)
    /\ lastEntry' = lastEntry + 1
    /\ confirmed' = confirmed \cup
         {[bill |-> request[c].tenant, id |-> lastEntry + 1, after |-> request[c].at]}
    /\ request' = [request EXCEPT ![c] = Idle]
    /\ UNCHANGED <<tenants, items, script, lastCalc, voided>>

\* The settlement was deleted meanwhile: the foreign key fails at commit.
ConfirmAbort(c) ==
    /\ request[c].op = "confirm"
    /\ ~References(request[c].tenant)
    /\ request' = [request EXCEPT ![c] = Idle]
    /\ UNCHANGED <<tenants, items, ledger, payments, script, lastCalc, lastEntry, history>>

-----------------------------------------------------------------------------
(* Ledger CRUD *)

\* RecordCreate: LedgerEntryForm has no settlement_tenant field.
RecordCreate(c) ==
    /\ request[c] = Idle
    /\ lastEntry < MaxEntries
    /\ \E kind \in Kinds, billing \in BillingMonths :
         ledger' = ledger \cup {NewEntry(kind, None, billing)}
    /\ lastEntry' = lastEntry + 1
    /\ UNCHANGED <<tenants, items, payments, request, script, lastCalc, history>>

\* RecordUpdate reads the whole row ...
UpdateRead(c) ==
    /\ request[c] = Idle
    /\ \E e \in ledger :
         request' = [request EXCEPT ![c] = [op |-> "update", entry |-> e]]
    /\ UNCHANGED <<tenants, items, ledger, payments, script, lastCalc, lastEntry, history>>

\* ... and form.save() writes every column back: UPDATE, or INSERT when the
\* row is gone.  The link is not a form field, so the value read is written.
UpdateWrite(c) ==
    /\ request[c].op = "update"
    /\ LET old == request[c].entry
       IN /\ References(old.tenant)
          /\ \E kind \in Kinds, billing \in BillingMonths :
               /\ ledger' = {e \in ledger : e.id # old.id} \cup
                         {[id |-> old.id, kind |-> kind, tenant |-> old.tenant, billing |-> billing]}
               /\ voided' = voided \cup {r \in Standing : r.id = old.id /\ kind # "fee"}
    /\ request' = [request EXCEPT ![c] = Idle]
    /\ UNCHANGED <<tenants, items, payments, script, lastCalc, lastEntry, confirmed>>

\* The linked settlement was deleted meanwhile: the foreign key fails.
UpdateAbort(c) ==
    /\ request[c].op = "update"
    /\ ~References(request[c].entry.tenant)
    /\ request' = [request EXCEPT ![c] = Idle]
    /\ UNCHANGED <<tenants, items, ledger, payments, script, lastCalc, lastEntry, history>>

\* RecordDelete: only the ledger row; the item payments do not refer to it.
RecordDelete(c) ==
    /\ request[c] = Idle
    /\ \E e \in ledger :
         /\ ledger' = ledger \ {e}
         /\ voided' = voided \cup {r \in Standing : r.id = e.id}
    /\ UNCHANGED <<tenants, items, payments, request, script, lastCalc, lastEntry, confirmed>>

\* A worker is killed: whatever it had not committed is rolled back.
Crash(c) ==
    /\ request[c] # Idle
    /\ request' = [request EXCEPT ![c] = Idle]
    /\ UNCHANGED <<tenants, items, ledger, payments, script, lastCalc, lastEntry, history>>

-----------------------------------------------------------------------------
(* _backfill_fundline.py with FUNDLINE_APPLY=1 *)

\* Mutant: only the lines of earlier backfills count.
HasBackfilledLine(t) == \E i \in ItemsOf(t) : i.line.fee_type = "Fund" /\ i.by # Settled

HasFundLine(t) == \E i \in ItemsOf(t) : i.line.fee_type = "Fund"

ScriptPlan(s) ==
    /\ script[s].pc = "start"
    /\ script' = [script EXCEPT ![s] =
         [pc |-> "planned",
          tenants |-> {t \in tenants : t.period >= FundStart /\ ~HasFundLine(t)}]]
    /\ UNCHANGED <<tenants, items, ledger, payments, request, lastCalc, lastEntry, history>>

\* One bulk_create; if any planned tenant is gone the whole batch rolls back.
ScriptApply(s) ==
    /\ script[s].pc = "planned"
    /\ items' = IF script[s].tenants \subseteq tenants
                THEN items \cup [tenant : script[s].tenants, line : {FundLine}, by : {s}]
                ELSE items
    /\ script' = [script EXCEPT ![s] = [pc |-> "done"]]
    /\ UNCHANGED <<tenants, ledger, payments, request, lastCalc, lastEntry, history>>

-----------------------------------------------------------------------------
Next ==
    \/ \E c \in Clients :
         \/ SaveSettlement(c) \/ DeleteSettlement(c)
         \/ ConfirmRead(c) \/ ConfirmRefused(c) \/ ConfirmCommit(c) \/ ConfirmAbort(c)
         \/ RecordCreate(c) \/ UpdateRead(c) \/ UpdateWrite(c) \/ UpdateAbort(c)
         \/ RecordDelete(c) \/ Crash(c)
    \/ \E s \in Scripts : ScriptPlan(s) \/ ScriptApply(s)

Spec == Init /\ [][Next]_vars

-----------------------------------------------------------------------------
(* Properties *)

\* No row outlives what it belongs to, whatever a deletion meets in flight: fee
\* lines and item payments go with their settlement, and a ledger entry is
\* either linked to a live settlement tenant or unlinked.
LinksIntact ==
    /\ \A i \in items : i.tenant \in tenants
    /\ \A p \in payments : p.item \in items
    /\ \A e \in ledger : e.tenant \in tenants \cup {None}

PaidBy(t, id) == \A i \in items : i.tenant = t /\ i.by = Settled
                                   => [item |-> i, entry |-> id] \in payments

\* Confirmation is all or nothing: an entry linked to a settlement tenant comes
\* with an item payment for every line the settlement charged (the atomic block
\* of confirm_fee), and no later edit, deletion or crash separates them.
PaidInFull == \A e \in ledger : e.tenant # None => PaidBy(e.tenant, e.id)

\* confirm_fee's docstring (views.py:1119): a settlement tenant is never
\* double-confirmed.
ConfirmedOnce == \A e, f \in ledger :
    SettlesFee(e) /\ SettlesFee(f) /\ e.tenant = f.tenant => e = f

\* What the code does keep of it, for any requests in flight and both kinds: when a
\* settlement tenant has two fee entries, the later confirmation could not see the
\* earlier entry.  Either it looked before that entry was written, or the entry had
\* been deleted or booked as rent since, and an edit brought it back.
DoubleUnseen == \A e, f \in ledger :
    SettlesFee(e) /\ SettlesFee(f) /\ e.tenant = f.tenant /\ e.id < f.id =>
        \/ \E r \in confirmed : r.id = f.id /\ r.after < e.id
        \/ \E r \in voided : r.id = e.id

\* The backfill gives a Fund line to the tenants that lack one, and to no other.
OneFundLine == \A i, j \in items :
    i.tenant = j.tenant /\ i.line.fee_type = "Fund" /\ j.line.fee_type = "Fund" => i = j

\* The versions of ledger rows around: those stored and those read by an edit.
Copies == ledger \cup {request[c].entry : c \in {d \in Clients : request[d].op = "update"}}

\* Two versions of a row disagree on the link only after the settlement was
\* deleted: one then holds NULL and the other a settlement tenant that is gone.
CopiesAgree == \A x, y \in Copies : x.id = y.id =>
    \/ x.tenant = y.tenant
    \/ x.tenant = None /\ y.tenant \notin tenants
    \/ y.tenant = None /\ x.tenant \notin tenants

\* Primary keys are unique and come from the serials; a copy is as paid as its row.
KeysUnique == \A e, f \in ledger : e.id = f.id => e = f
KeysFresh ==
    /\ \A t \in tenants : t.calc <= lastCalc
    /\ \A x \in Copies : x.id <= lastEntry /\ (x.tenant # None => x.tenant.calc <= lastCalc)
CopiesPaid == \A x \in Copies : x.tenant \in tenants => PaidBy(x.tenant, x.id)

\* The inductive invariant behind LinksIntact, PaidInFull and LinkWrittenOnce.
LedgerInv == TypeOK /\ LinksIntact /\ KeysUnique /\ KeysFresh /\ CopiesAgree /\ CopiesPaid

Money == {<<e.id, e.kind, e.billing>> : e \in ledger}

\* Saving or deleting a settlement never creates, drops or changes recorded
\* money, it can only unlink it.
SettlementsKeepMoney == [][tenants' # tenants => Money' = Money]_vars

\* The link of an entry is written once: it may be cleared, it never moves to
\* another settlement tenant and a cleared link never comes back, not even from
\* an edit that read the row before the settlement was deleted.
LinkWrittenOnce ==
    [][\A e \in ledger, f \in ledger' : e.id = f.id => f.tenant \in {e.tenant, None}]_vars

\* Every version of a row linked to a live settlement tenant comes from one
\* confirmation, and the row stands as its fee entry unless that was voided.
CopiesConfirmed == \A x \in Copies : x.tenant \in tenants =>
    \E r \in Standing \cup voided : r.id = x.id /\ r.bill = x.tenant
ReceiptsUnique ==
    /\ voided \subseteq confirmed
    /\ \A r, q \in confirmed : r.id = q.id => r = q
    /\ \A r \in confirmed : r.id <= lastEntry /\ r.bill \in tenants
HistoryInv == CopiesConfirmed /\ ReceiptsUnique

\* The ledger keeps the promise of FeeReceipts: the bills are the settlement
\* tenants, the receipts the confirmations whose fee entry stands.
Receipts == INSTANCE FeeReceipts WITH
    Bill <- Tenant,
    bills <- tenants,
    receipts <- Standing,
    looks <- {[bill |-> request[c].tenant, at |-> request[c].at] :
                c \in {d \in Clients : request[d].op = "confirm"}},
    voided <- voided,
    lastReceipt <- lastEntry
KeepsReceipts == Receipts!Spec

=============================================================================
