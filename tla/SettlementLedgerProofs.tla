------------------------ MODULE SettlementLedgerProofs ------------------------
(* Theorems about SettlementLedger for any number of requests, rows and scripts. *)
EXTENDS SettlementLedger, TLAPS

USE ConstantsAssumption, NoneAssumption, ScriptsAssumption
    DEF NewEntry, References, ItemPayments, AlreadyConfirmed

\* The empty tables satisfy the invariant.
LEMMA InitInv == Init => LedgerInv
BY DEF Init, LedgerInv, TypeOK, LinksIntact, KeysUnique, KeysFresh, CopiesAgree,
       CopiesPaid, Copies, Idle, Request, ScriptState

\* Every action writes values of the right type.
LEMMA TypeStep == TypeOK /\ [Next]_vars => TypeOK'
<1> SUFFICES ASSUME TypeOK, [Next]_vars PROVE TypeOK'
    OBVIOUS
<1> USE DEF TypeOK, history
<1>1. ASSUME NEW c \in Clients, SaveSettlement(c) PROVE TypeOK'
    BY <1>1 DEF SaveSettlement, Tenant, Item, Line
<1>2. ASSUME NEW c \in Clients, DeleteSettlement(c) PROVE TypeOK'
    BY <1>2 DEF DeleteSettlement, Unlink, Entry
<1>3. ASSUME NEW c \in Clients, ConfirmRead(c) PROVE TypeOK'
    BY <1>3 DEF ConfirmRead, Request
<1>4. ASSUME NEW c \in Clients, ConfirmRefused(c) \/ ConfirmAbort(c) \/ UpdateAbort(c) \/ Crash(c)
      PROVE TypeOK'
    BY <1>4 DEF ConfirmRefused, ConfirmAbort, UpdateAbort, Crash, Request
<1>5. ASSUME NEW c \in Clients, ConfirmCommit(c) PROVE TypeOK'
    <2>1. request[c].tenant \in Tenant /\ request[c].at \in Nat
        BY <1>5 DEF ConfirmCommit, Request, Idle
    <2>2. confirmed' \subseteq Receipt
        BY <1>5, <2>1 DEF ConfirmCommit, Receipt
    <2>3. ledger' \subseteq Entry
        BY <1>5, <2>1 DEF ConfirmCommit, Entry
    <2>4. payments' \subseteq Payment
        BY <1>5, <2>1 DEF ConfirmCommit, Payment, ItemsOf
    <2>5. request' \in [Clients -> Request]
        BY <1>5 DEF ConfirmCommit, Request
    <2>6. QED
        BY <1>5, <2>2, <2>3, <2>4, <2>5 DEF ConfirmCommit
<1>6. ASSUME NEW c \in Clients, RecordCreate(c) PROVE TypeOK'
    BY <1>6 DEF RecordCreate, Entry
<1>7. ASSUME NEW c \in Clients, UpdateRead(c) PROVE TypeOK'
    BY <1>7 DEF UpdateRead, Request
<1>8. ASSUME NEW c \in Clients, UpdateWrite(c) PROVE TypeOK'
    <2>1. request[c].entry \in Entry
        BY <1>8 DEF UpdateWrite, Request, Idle
    <2>2. ledger' \subseteq Entry
        BY <1>8, <2>1 DEF UpdateWrite, Entry
    <2>3. QED
        BY <1>8, <2>2 DEF UpdateWrite, Request, Standing
<1>9. ASSUME NEW c \in Clients, RecordDelete(c) PROVE TypeOK'
    BY <1>9 DEF RecordDelete, Standing
<1>10. ASSUME NEW s \in Scripts, ScriptPlan(s) PROVE TypeOK'
    BY <1>10 DEF ScriptPlan, ScriptState
<1>11. ASSUME NEW s \in Scripts, ScriptApply(s) PROVE TypeOK'
    <2>1. script[s] \in [pc : {"planned"}, tenants : SUBSET Tenant]
        BY <1>11 DEF ScriptApply, ScriptState
    <2>2. script' \in [Scripts -> ScriptState]
        BY <1>11 DEF ScriptApply, ScriptState
    <2>3. items' \subseteq Item
        <3>1. script[s].tenants \subseteq Tenant
            BY <2>1
        <3>2. FundLine \in Line
            BY DEF FundLine, Line
        <3>3. [tenant : script[s].tenants, line : {FundLine}, by : {s}] \subseteq Item
            BY <3>1, <3>2 DEF Item
        <3>4. QED
            BY <1>11, <3>3 DEF ScriptApply
    <2>4. QED
        BY <1>11, <2>2, <2>3 DEF ScriptApply
<1>12. CASE UNCHANGED vars
    BY <1>12 DEF vars
<1>13. QED
    BY <1>1, <1>2, <1>3, <1>4, <1>5, <1>6, <1>7, <1>8, <1>9, <1>10, <1>11, <1>12 DEF Next

\* Every column and every row keeps its type (TypeOK).
THEOREM TypeCorrect == Spec => []TypeOK
<1>1. Init => TypeOK
    BY InitInv DEF LedgerInv
<1>2. QED
    BY <1>1, TypeStep, PTL DEF Spec

\* Every version of a row is an entry.
LEMMA CopiesTyped == TypeOK => Copies \subseteq Entry
BY DEF TypeOK, Copies, Request, Idle

\* Every action keeps the inductive invariant.
LEMMA InvStep == LedgerInv /\ [Next]_vars => LedgerInv'
<1> SUFFICES ASSUME LedgerInv, [Next]_vars PROVE LedgerInv'
    OBVIOUS
<1>t. TypeOK /\ TypeOK'
    BY TypeStep DEF LedgerInv
<1> DEFINE Rest == LinksIntact /\ KeysUnique /\ KeysFresh /\ CopiesAgree /\ CopiesPaid
<1> SUFFICES Rest'
    BY <1>t DEF LedgerInv
<1>1. ASSUME NEW c \in Clients, SaveSettlement(c) PROVE Rest'
    <2>1. PICK new \in SUBSET [calc : {lastCalc + 1}, contract : Contracts, period : Months],
               lines \in SUBSET Line :
                 /\ tenants' = tenants \cup new
                 /\ items' = items \cup [tenant : new, line : lines, by : {Settled}]
        BY <1>1 DEF SaveSettlement
    <2>2. \A i \in items' \ items : i.tenant \in new
        BY <2>1
    <2>3. /\ lastCalc' = lastCalc + 1 /\ lastCalc \in Nat
          /\ UNCHANGED <<ledger, payments, lastEntry>>
          /\ Copies' = Copies
        BY <1>1, <1>t DEF SaveSettlement, Copies, TypeOK
    <2>4. \A x \in Copies : x.id <= lastEntry /\ (x.tenant # None => x.tenant.calc <= lastCalc)
        BY DEF LedgerInv, KeysFresh
    <2>5. \A x \in Copies : x.tenant \notin new
        BY <2>3, <2>4, <1>t, Z3 DEF TypeOK, Tenant
    <2>6. LinksIntact' /\ KeysUnique' /\ CopiesAgree'
        BY <2>1, <2>2, <2>3, <2>5 DEF LedgerInv, LinksIntact, KeysUnique, CopiesAgree
    <2>7. KeysFresh'
        <3>1. \A t \in tenants' : t.calc <= lastCalc'
            BY <2>1, <2>3, <1>t DEF LedgerInv, KeysFresh, TypeOK, Tenant
        <3>2. \A x \in Copies : x.tenant # None => x.tenant.calc \in Nat
            BY <1>t, CopiesTyped DEF Entry, Tenant
        <3>3. \A x \in Copies : x.tenant # None => x.tenant.calc <= lastCalc'
            BY <2>3, <2>4, <3>2
        <3>4. QED
            BY <2>3, <2>4, <3>1, <3>3 DEF KeysFresh
    <2>8. CopiesPaid'
        BY <2>1, <2>2, <2>3, <2>5 DEF LedgerInv, CopiesPaid, PaidBy
    <2>9. QED
        BY <2>6, <2>7, <2>8
<1>2. ASSUME NEW c \in Clients, DeleteSettlement(c) PROVE Rest'
    <2>1. PICK gone \in SUBSET tenants :
                 /\ tenants' = tenants \ gone
                 /\ items' = {i \in items : i.tenant \notin gone}
                 /\ payments' = {p \in payments : p.item.tenant \notin gone}
                 /\ ledger' = {Unlink(e, gone) : e \in ledger}
        <3>1. PICK n \in 1..lastCalc :
                 /\ tenants' = tenants \ {t \in tenants : t.calc = n}
                 /\ items' = {i \in items : i.tenant \notin {t \in tenants : t.calc = n}}
                 /\ payments' = {p \in payments : p.item.tenant \notin {t \in tenants : t.calc = n}}
                 /\ ledger' = {Unlink(e, {t \in tenants : t.calc = n}) : e \in ledger}
            BY <1>2 DEF DeleteSettlement
        <3>2. {t \in tenants : t.calc = n} \in SUBSET tenants
            OBVIOUS
        <3>3. QED
            BY <3>1, <3>2
    <2>2. UNCHANGED <<request, lastCalc, lastEntry>>
        BY <1>2 DEF DeleteSettlement
    <2>3. \A e \in ledger : /\ Unlink(e, gone).id = e.id
                            /\ Unlink(e, gone).tenant = IF e.tenant \in gone THEN None ELSE e.tenant
        BY <1>t DEF Unlink, TypeOK, Entry
    \* Every version of a row comes from one that was there, its link kept or cleared.
    <2>4. \A x \in Copies' : \E y \in Copies :
             /\ x.id = y.id
             /\ \/ x.tenant = y.tenant
                \/ x.tenant = None /\ y.tenant \in gone
        BY <2>1, <2>2, <2>3 DEF Copies
    <2>5. None \notin tenants
        BY <1>t DEF TypeOK
    <2>6. LinksIntact'
        BY <2>1, <2>3, <1>t DEF LedgerInv, LinksIntact
    <2>7. KeysUnique'
        BY <2>1, <2>3 DEF LedgerInv, KeysUnique
    <2>8. KeysFresh'
        BY <2>1, <2>2, <2>4 DEF LedgerInv, KeysFresh
    <2>9. CopiesAgree'
        BY <2>1, <2>4, <2>5 DEF LedgerInv, CopiesAgree
    <2>10. CopiesPaid'
        BY <2>1, <2>4, <2>5 DEF LedgerInv, CopiesPaid, PaidBy
    <2>11. QED
        BY <2>6, <2>7, <2>8, <2>9, <2>10
<1>3. ASSUME NEW c \in Clients,
             ConfirmRead(c) \/ ConfirmRefused(c) \/ ConfirmAbort(c) \/ UpdateAbort(c)
             \/ Crash(c) \/ UpdateRead(c)
      PROVE Rest'
    <2>1. UNCHANGED <<tenants, items, ledger, payments, lastCalc, lastEntry>>
        BY <1>3 DEF ConfirmRead, ConfirmRefused, ConfirmAbort, UpdateAbort, Crash, UpdateRead
    <2>2. Copies' \subseteq Copies
        BY <1>3, <1>t DEF ConfirmRead, ConfirmRefused, ConfirmAbort, UpdateAbort, Crash,
                          UpdateRead, Copies, Idle, TypeOK
    <2>3. QED
        BY <2>1, <2>2 DEF LedgerInv, LinksIntact, KeysUnique, KeysFresh, CopiesAgree,
                          CopiesPaid, PaidBy
<1>4. ASSUME NEW c \in Clients, ConfirmCommit(c) PROVE Rest'
    <2> DEFINE t == request[c].tenant
               id == lastEntry + 1
    <2>1. PICK billing \in BillingMonths :
             ledger' = ledger \cup {[id |-> id, kind |-> "fee", tenant |-> t, billing |-> billing]}
        BY <1>4 DEF ConfirmCommit
    <2>2. /\ t \in tenants
          /\ payments' = payments \cup [item : ItemsOf(t), entry : {id}]
          /\ lastEntry' = id
          /\ UNCHANGED <<tenants, items, lastCalc>>
        BY <1>4, <1>t DEF ConfirmCommit, TypeOK, Request, Idle
    <2>3. \A x \in Copies' : x \in Copies \/ (x \in ledger' /\ x.id = id /\ x.tenant = t)
        BY <1>4, <1>t, <2>1 DEF ConfirmCommit, Copies, Idle, TypeOK
    <2>4. \A x \in Copies : x.id \in Nat /\ x.id <= lastEntry
        BY <1>t, CopiesTyped DEF LedgerInv, KeysFresh, Entry
    <2>5. lastEntry \in Nat
        BY <1>t DEF TypeOK
    <2>6. LinksIntact'
        BY <2>1, <2>2 DEF LedgerInv, LinksIntact, ItemsOf
    <2>7. KeysUnique'
        BY <2>1, <2>4, <2>5 DEF LedgerInv, KeysUnique, Copies
    <2>8. KeysFresh'
        BY <2>2, <2>3, <2>4, <2>5 DEF LedgerInv, KeysFresh
    <2>9. CopiesAgree'
        BY <2>2, <2>3, <2>4, <2>5 DEF LedgerInv, CopiesAgree
    <2>10. \A i \in items' : i.tenant = t => [item |-> i, entry |-> id] \in payments'
        BY <2>2 DEF ItemsOf
    <2>11. CopiesPaid'
        BY <2>2, <2>3, <2>10 DEF LedgerInv, CopiesPaid, PaidBy
    <2>12. QED
        BY <2>6, <2>7, <2>8, <2>9, <2>11
<1>5. ASSUME NEW c \in Clients, RecordCreate(c) PROVE Rest'
    <2> DEFINE id == lastEntry + 1
    <2>1. PICK kind \in Kinds, billing \in BillingMonths :
             ledger' = ledger \cup {[id |-> id, kind |-> kind, tenant |-> None, billing |-> billing]}
        BY <1>5 DEF RecordCreate
    <2>2. /\ lastEntry' = id
          /\ UNCHANGED <<tenants, items, payments, request, lastCalc>>
        BY <1>5 DEF RecordCreate
    <2>3. \A x \in Copies' : x \in Copies \/ (x \in ledger' /\ x.id = id /\ x.tenant = None)
        BY <2>1, <2>2 DEF Copies
    <2>4. \A x \in Copies : x.id \in Nat /\ x.id <= lastEntry
        BY <1>t, CopiesTyped DEF LedgerInv, KeysFresh, Entry
    <2>5. lastEntry \in Nat /\ None \notin tenants
        BY <1>t DEF TypeOK
    <2>6. LinksIntact'
        BY <2>1, <2>2 DEF LedgerInv, LinksIntact
    <2>7. KeysUnique'
        BY <2>1, <2>4, <2>5 DEF LedgerInv, KeysUnique, Copies
    <2>8. KeysFresh'
        BY <2>2, <2>3, <2>4, <2>5 DEF LedgerInv, KeysFresh
    <2>9. CopiesAgree'
        BY <2>2, <2>3, <2>4, <2>5 DEF LedgerInv, CopiesAgree
    <2>10. CopiesPaid'
        BY <2>2, <2>3, <2>5 DEF LedgerInv, CopiesPaid, PaidBy
    <2>11. QED
        BY <2>6, <2>7, <2>8, <2>9, <2>10
<1>6. ASSUME NEW c \in Clients, UpdateWrite(c) PROVE Rest'
    <2> DEFINE old == request[c].entry
    <2>1. PICK kind \in Kinds, billing \in BillingMonths :
             ledger' = {e \in ledger : e.id # old.id} \cup
                       {[id |-> old.id, kind |-> kind, tenant |-> old.tenant, billing |-> billing]}
        BY <1>6 DEF UpdateWrite
    <2>2. /\ old.tenant \in tenants \cup {None}
          /\ old \in Copies
          /\ UNCHANGED <<tenants, items, payments, lastCalc, lastEntry>>
        BY <1>6 DEF UpdateWrite, Copies
    <2>3. \A x \in Copies' : \E y \in Copies : x.id = y.id /\ x.tenant = y.tenant
        BY <1>6, <1>t, <2>1, <2>2 DEF UpdateWrite, Copies, Idle, TypeOK
    <2>4. LinksIntact'
        BY <2>1, <2>2 DEF LedgerInv, LinksIntact
    <2>5. KeysUnique'
        BY <2>1 DEF LedgerInv, KeysUnique
    <2>6. KeysFresh' /\ CopiesAgree' /\ CopiesPaid'
        BY <2>2, <2>3 DEF LedgerInv, KeysFresh, CopiesAgree, CopiesPaid, PaidBy
    <2>7. QED
        BY <2>4, <2>5, <2>6
<1>7. ASSUME NEW c \in Clients, RecordDelete(c) PROVE Rest'
    <2>1. /\ ledger' \subseteq ledger
          /\ UNCHANGED <<tenants, items, payments, request, lastCalc, lastEntry>>
        BY <1>7 DEF RecordDelete
    <2>2. Copies' \subseteq Copies
        BY <2>1 DEF Copies
    <2>3. QED
        BY <2>1, <2>2 DEF LedgerInv, LinksIntact, KeysUnique, KeysFresh, CopiesAgree,
                          CopiesPaid, PaidBy
<1>8. ASSUME NEW s \in Scripts, ScriptPlan(s) PROVE Rest'
    BY <1>8 DEF ScriptPlan, LedgerInv, LinksIntact, KeysUnique, KeysFresh, CopiesAgree,
                CopiesPaid, PaidBy, Copies
<1>9. ASSUME NEW s \in Scripts, ScriptApply(s) PROVE Rest'
    <2>1. /\ items \subseteq items'
          /\ \A i \in items' \ items : i.tenant \in tenants /\ i.by \in Scripts
        BY <1>9 DEF ScriptApply
    <2>2. UNCHANGED <<tenants, ledger, payments, request, lastCalc, lastEntry, Copies>>
        BY <1>9 DEF ScriptApply, Copies
    <2>3. QED
        BY <2>1, <2>2 DEF LedgerInv, LinksIntact, KeysUnique, KeysFresh, CopiesAgree,
                          CopiesPaid, PaidBy
<1>10. CASE UNCHANGED vars
    BY <1>10 DEF vars, LedgerInv, LinksIntact, KeysUnique, KeysFresh, CopiesAgree,
                 CopiesPaid, PaidBy, Copies
<1>11. QED
    BY <1>1, <1>2, <1>3, <1>4, <1>5, <1>6, <1>7, <1>8, <1>9, <1>10 DEF Next

\* The inductive invariant (LedgerInv): unique keys, live links, and every version
\* of a row, stored or read by an edit, agreeing on what it settles and as paid.
THEOREM LedgerInvHolds == Spec => []LedgerInv
BY InitInv, InvStep, PTL DEF Spec

\* No fee line, item payment or link outlives the settlement it belongs to,
\* however requests, deletions and crashes interleave.
THEOREM LinksStayIntact == Spec => []LinksIntact
BY LedgerInvHolds, PTL DEF LedgerInv

\* Every entry linked to a settlement tenant has an item payment for each line
\* the settlement charged: no interleaving shows half a confirmation.
THEOREM ConfirmationIsAtomic == Spec => []PaidInFull
<1>1. LedgerInv => PaidInFull
    BY DEF LedgerInv, LinksIntact, CopiesPaid, Copies, PaidInFull
<1>2. QED
    BY <1>1, LedgerInvHolds, PTL

\* A link is written once and only ever cleared.
THEOREM LinkIsWrittenOnce == Spec => LinkWrittenOnce
<1> DEFINE Kept == \A e \in ledger, f \in ledger' : e.id = f.id => f.tenant \in {e.tenant, None}
<1>1. LedgerInv /\ [Next]_vars => [Kept]_vars
    <2> SUFFICES ASSUME LedgerInv, Next, NEW e \in ledger, NEW f \in ledger', e.id = f.id
                 PROVE f.tenant \in {e.tenant, None}
        BY DEF vars
    <2>t. /\ ledger \subseteq Entry /\ lastEntry \in Nat /\ None \notin tenants
          /\ \A x, y \in ledger : x.id = y.id => x = y
          /\ \A x \in ledger : x.id <= lastEntry /\ x.id \in Nat
        BY DEF LedgerInv, TypeOK, KeysUnique, KeysFresh, Copies, Entry
    <2>1. ASSUME ledger' = ledger PROVE f.tenant = e.tenant
        BY <2>1, <2>t
    <2>2. ASSUME NEW c \in Clients, DeleteSettlement(c) PROVE f.tenant \in {e.tenant, None}
        <3>0. PICK n \in 1..lastCalc :
                ledger' = {Unlink(x, {t \in tenants : t.calc = n}) : x \in ledger}
            BY <2>2 DEF DeleteSettlement
        <3>1. PICK g \in ledger : f = Unlink(g, {t \in tenants : t.calc = n})
            BY <3>0
        <3>2. f.id = g.id /\ f.tenant \in {g.tenant, None}
            BY <3>1, <2>t DEF Unlink, Entry
        <3>3. QED
            BY <3>2, <2>t
    <2>3. ASSUME NEW c \in Clients, ConfirmCommit(c) \/ RecordCreate(c)
          PROVE f.tenant = e.tenant
        <3>1. f \in ledger \/ f.id = lastEntry + 1
            BY <2>3 DEF ConfirmCommit, RecordCreate
        <3>2. f \in ledger
            BY <3>1, <2>t
        <3>3. QED
            BY <3>2, <2>t
    <2>4. ASSUME NEW c \in Clients, UpdateWrite(c) PROVE f.tenant \in {e.tenant, None}
        <3> DEFINE old == request[c].entry
        <3>1. /\ old \in Copies /\ e \in Copies
              /\ old.tenant \in tenants \cup {None}
              /\ f \in ledger \/ (f.id = old.id /\ f.tenant = old.tenant)
            BY <2>4 DEF UpdateWrite, Copies
        <3>2. CASE f \in ledger
            BY <3>2, <2>t
        <3>3. CASE f.id = old.id /\ f.tenant = old.tenant
            BY <3>1, <3>3, <2>t DEF LedgerInv, CopiesAgree, LinksIntact
        <3>4. QED
            BY <3>1, <3>2, <3>3
    <2>5. ASSUME NEW c \in Clients, RecordDelete(c) PROVE f.tenant = e.tenant
        BY <2>5, <2>t DEF RecordDelete
    <2>6. QED
        BY <2>1, <2>2, <2>3, <2>4, <2>5
           DEF Next, SaveSettlement, ConfirmRead, ConfirmRefused, ConfirmAbort, UpdateRead,
               UpdateAbort, Crash, ScriptPlan, ScriptApply
<1>2. QED
    BY <1>1, LedgerInvHolds, PTL DEF Spec, LinkWrittenOnce

-----------------------------------------------------------------------------
(* Second confirmations *)

\* No confirmation, no history.
LEMMA HistoryAtFirst == Init => HistoryInv
BY DEF Init, HistoryInv, CopiesConfirmed, ReceiptsUnique, Copies, Standing, Idle

\* What the steps below use of the rows, their versions and their receipts.
LEMMA RowFacts == ASSUME LedgerInv, HistoryInv
                  PROVE  /\ ledger \subseteq Entry /\ Copies \subseteq Entry /\ ledger \subseteq Copies
                         /\ tenants \subseteq Tenant /\ None \notin tenants
                         /\ lastEntry \in Nat
                         /\ confirmed \subseteq Receipt /\ voided \subseteq confirmed
                         /\ \A r \in confirmed : r.id \in Nat /\ r.id <= lastEntry /\ r.bill \in tenants
                         /\ \A r, q \in confirmed : r.id = q.id => r = q
                         /\ \A x \in Copies : x.id \in Nat /\ x.id <= lastEntry
                         /\ \A e, f \in ledger : e.id = f.id => e = f
                         /\ \A e \in ledger : e.tenant \in tenants \cup {None}
BY CopiesTyped DEF LedgerInv, HistoryInv, TypeOK, ReceiptsUnique, LinksIntact, KeysUnique,
                   KeysFresh, Copies, Entry, Receipt

\* A receipt stands while its entry, kept with key, kind and link, is in the ledger.
LEMMA StandingIs == Standing = {r \in confirmed :
                      \E e \in ledger : e.kind = "fee" /\ e.tenant = r.bill /\ e.id = r.id}
BY DEF Standing, FeeEntriesOf

\* Every action keeps the history in line with the versions of the rows.
LEMMA HistoryStep == LedgerInv /\ HistoryInv /\ [Next]_vars => HistoryInv'
<1> SUFFICES ASSUME LedgerInv, HistoryInv, [Next]_vars PROVE HistoryInv'
    OBVIOUS
<1>t. /\ ledger \subseteq Entry /\ Copies \subseteq Entry /\ ledger \subseteq Copies
      /\ tenants \subseteq Tenant /\ None \notin tenants
      /\ lastEntry \in Nat
      /\ confirmed \subseteq Receipt /\ voided \subseteq confirmed
      /\ \A r \in confirmed : r.id \in Nat /\ r.id <= lastEntry /\ r.bill \in tenants
      /\ \A r, q \in confirmed : r.id = q.id => r = q
      /\ \A x \in Copies : x.id \in Nat /\ x.id <= lastEntry
      /\ \A e, f \in ledger : e.id = f.id => e = f
      /\ \A e \in ledger : e.tenant \in tenants \cup {None}
    BY RowFacts
<1>c. \A x \in Copies : x.tenant \in tenants =>
        \E r \in Standing \cup voided : r.id = x.id /\ r.bill = x.tenant
    BY DEF HistoryInv, CopiesConfirmed
<1>s. Standing \subseteq confirmed
    BY DEF Standing
<1>1. ASSUME NEW c \in Clients, SaveSettlement(c) PROVE HistoryInv'
    <2>1. tenants \subseteq tenants' /\ UNCHANGED <<ledger, request, lastEntry, confirmed, voided>>
        BY <1>1 DEF SaveSettlement, history
    <2>2. Copies' = Copies /\ Standing' = Standing
        BY <2>1 DEF Copies, Standing, FeeEntriesOf
    <2>3. \A x \in Copies : x.tenant # None => x.tenant \in Tenant /\ x.tenant.calc <= lastCalc
        BY <1>t DEF LedgerInv, KeysFresh, Entry
    <2>4. \A u \in tenants' : u \in tenants \/ u.calc = lastCalc + 1
        BY <1>1 DEF SaveSettlement
    <2>5. None \notin tenants' /\ lastCalc \in Nat
        BY <1>1, TypeStep DEF LedgerInv, TypeOK
    <2>6. \A x \in Copies : x.tenant \in tenants' => x.tenant \in tenants
        BY <2>3, <2>4, <2>5 DEF Tenant
    <2>7. QED
        BY <2>1, <2>2, <2>6, <1>c, <1>t DEF HistoryInv, CopiesConfirmed, ReceiptsUnique
<1>2. ASSUME NEW c \in Clients, DeleteSettlement(c) PROVE HistoryInv'
    <2>1. PICK gone \in SUBSET tenants :
                 /\ tenants' = tenants \ gone
                 /\ ledger' = {Unlink(e, gone) : e \in ledger}
                 /\ confirmed' = {r \in confirmed : r.bill \notin gone}
                 /\ voided' = {r \in voided : r.bill \notin gone}
        BY <1>2 DEF DeleteSettlement
    <2>2. UNCHANGED <<request, lastEntry>>
        BY <1>2 DEF DeleteSettlement
    <2>3. \A e \in ledger :
             /\ Unlink(e, gone).id = e.id /\ Unlink(e, gone).kind = e.kind
             /\ Unlink(e, gone).tenant = IF e.tenant \in gone THEN None ELSE e.tenant
        BY <1>t DEF Unlink, Entry
    <2>4. \A x \in Copies' : \E y \in Copies :
             x.id = y.id /\ (x.tenant = y.tenant \/ x.tenant = None)
        BY <2>1, <2>2, <2>3 DEF Copies
    <2>5. \A r \in Standing : r.bill \notin gone => r \in Standing'
        <3>1. ASSUME NEW r \in Standing, r.bill \notin gone PROVE r \in Standing'
            <4>1. PICK e \in ledger : e.kind = "fee" /\ e.tenant = r.bill /\ e.id = r.id
                BY StandingIs
            <4>2. Unlink(e, gone) \in ledger'
                BY <2>1
            <4>3. r \in confirmed'
                BY <3>1, <2>1, <1>s
            <4>4. /\ Unlink(e, gone).id = r.id /\ Unlink(e, gone).kind = "fee"
                  /\ Unlink(e, gone).tenant = r.bill
                BY <2>3, <3>1, <4>1
            <4>5. QED
                BY <4>2, <4>3, <4>4 DEF Standing, FeeEntriesOf
        <3>2. QED
            BY <3>1
    <2>6. CopiesConfirmed'
        <3>1. ASSUME NEW x \in Copies', x.tenant \in tenants'
              PROVE  \E r \in Standing' \cup voided' : r.id = x.id /\ r.bill = x.tenant
            <4>1. PICK y \in Copies : x.id = y.id /\ x.tenant = y.tenant
                BY <2>1, <2>4, <3>1, <1>t
            <4>2. PICK r \in Standing \cup voided : r.id = y.id /\ r.bill = y.tenant
                BY <1>c, <4>1, <3>1, <2>1
            <4>3. r.bill \notin gone
                BY <4>1, <4>2, <3>1, <2>1
            <4>4. QED
                BY <4>1, <4>2, <4>3, <2>1, <2>5
        <3>2. QED
            BY <3>1 DEF CopiesConfirmed
    <2>7. ReceiptsUnique'
        BY <2>1, <2>2, <1>t DEF ReceiptsUnique
    <2>8. QED
        BY <2>6, <2>7 DEF HistoryInv
<1>3. ASSUME UNCHANGED <<tenants, ledger, lastEntry, confirmed, voided>>, Copies' \subseteq Copies
      PROVE  HistoryInv'
    <2>1. Standing' = Standing
        BY <1>3 DEF Standing, FeeEntriesOf
    <2>2. QED
        BY <1>3, <2>1 DEF HistoryInv, CopiesConfirmed, ReceiptsUnique
<1>4. ASSUME NEW c \in Clients, ConfirmCommit(c) PROVE HistoryInv'
    <2> DEFINE t == request[c].tenant
               id == lastEntry + 1
               new == [bill |-> t, id |-> id, after |-> request[c].at]
    <2>1. PICK billing \in BillingMonths :
             ledger' = ledger \cup {[id |-> id, kind |-> "fee", tenant |-> t, billing |-> billing]}
        BY <1>4 DEF ConfirmCommit
    <2>2. /\ t \in tenants
          /\ confirmed' = confirmed \cup {new}
          /\ lastEntry' = id
          /\ UNCHANGED <<tenants, voided>>
        BY <1>4, RowFacts DEF ConfirmCommit, LedgerInv, TypeOK, Request, Idle
    <2>3. \A x \in Copies' : x \in Copies \/ (x.id = id /\ x.tenant = t)
        BY <1>4, <2>1 DEF ConfirmCommit, Copies, Idle, LedgerInv, TypeOK
    <2>4. Standing \subseteq Standing'
        BY <2>1, <2>2, StandingIs DEF Standing, FeeEntriesOf
    <2>5. new \in Standing' /\ new.id = id /\ new.bill = t
        <3> DEFINE f == [id |-> id, kind |-> "fee", tenant |-> t, billing |-> billing]
        <3>0. f \in ledger' /\ f.kind = "fee" /\ f.tenant = t /\ f.id = id
            BY <2>1
        <3>1. \E e \in ledger' : e.kind = "fee" /\ e.tenant = t /\ e.id = id
            BY <3>0
        <3>2. QED
            BY <2>2, <3>1 DEF Standing, FeeEntriesOf
    <2> HIDE DEF new
    <2>6. CopiesConfirmed'
        BY <2>2, <2>3, <2>4, <2>5, <1>c DEF CopiesConfirmed
    <2>7. ReceiptsUnique'
        BY <2>2, <2>5, <1>t DEF ReceiptsUnique
    <2>8. QED
        BY <2>6, <2>7 DEF HistoryInv
<1>5. ASSUME NEW c \in Clients, RecordCreate(c) PROVE HistoryInv'
    <2>1. PICK kind \in Kinds, billing \in BillingMonths :
             ledger' = ledger \cup {[id |-> lastEntry + 1, kind |-> kind, tenant |-> None,
                                    billing |-> billing]}
        BY <1>5 DEF RecordCreate
    <2>2. lastEntry' = lastEntry + 1 /\ UNCHANGED <<tenants, request, confirmed, voided>>
        BY <1>5 DEF RecordCreate, history
    <2>3. \A x \in Copies' : x \in Copies \/ x.tenant = None
        BY <2>1, <2>2 DEF Copies
    <2>4. Standing \subseteq Standing'
        BY <2>1, <2>2 DEF Standing, FeeEntriesOf
    <2>5. CopiesConfirmed'
        BY <2>2, <2>3, <2>4, <1>c, <1>t DEF CopiesConfirmed
    <2>6. ReceiptsUnique'
        BY <2>2, <1>t DEF ReceiptsUnique
    <2>7. QED
        BY <2>5, <2>6 DEF HistoryInv
<1>6. ASSUME NEW c \in Clients, UpdateWrite(c) PROVE HistoryInv'
    <2> DEFINE old == request[c].entry
    <2>1. PICK kind \in Kinds, billing \in BillingMonths :
             /\ ledger' = {e \in ledger : e.id # old.id} \cup
                          {[id |-> old.id, kind |-> kind, tenant |-> old.tenant, billing |-> billing]}
             /\ voided' = voided \cup {r \in Standing : r.id = old.id /\ kind # "fee"}
        BY <1>6 DEF UpdateWrite
    <2>2. /\ old \in Copies
          /\ UNCHANGED <<tenants, confirmed, lastEntry>>
        BY <1>6 DEF UpdateWrite, Copies
    <2>3. \A x \in Copies' : \E y \in Copies : x.id = y.id /\ x.tenant = y.tenant
        BY <1>6, <2>1, <2>2 DEF UpdateWrite, Copies, Idle, LedgerInv, TypeOK
    <2>4. \A r \in Standing : r \in Standing' \cup voided'
        <3>1. ASSUME NEW r \in Standing PROVE r \in Standing' \cup voided'
            <4>1. PICK e \in ledger : e.kind = "fee" /\ e.tenant = r.bill /\ e.id = r.id
                BY StandingIs
            <4>2. CASE r.id # old.id
                BY <4>1, <4>2, <2>1, <2>2, <1>s DEF Standing, FeeEntriesOf
            <4>3. CASE r.id = old.id /\ kind # "fee"
                BY <4>3, <2>1
            <4>4. CASE r.id = old.id /\ kind = "fee"
                <5>1. old.tenant = e.tenant
                    <6>1. e \in Copies /\ e.tenant \in tenants
                        BY <4>1, <1>t, <1>s
                    <6>2. old.tenant \in tenants \cup {None}
                        BY <1>6 DEF UpdateWrite
                    <6>3. QED
                        BY <4>1, <4>4, <6>1, <6>2, <2>2, <1>t DEF LedgerInv, CopiesAgree
                <5> DEFINE f == [id |-> old.id, kind |-> kind, tenant |-> old.tenant, billing |-> billing]
                <5>2. f \in ledger' /\ f.kind = "fee" /\ f.tenant = r.bill /\ f.id = r.id
                    BY <2>1, <4>1, <4>4, <5>1
                <5>3. r \in confirmed'
                    BY <1>s, <2>2
                <5>4. QED
                    BY <5>2, <5>3 DEF Standing, FeeEntriesOf
            <4>5. QED
                BY <4>2, <4>3, <4>4
        <3>2. QED
            BY <3>1
    <2>5. CopiesConfirmed'
        BY <2>1, <2>2, <2>3, <2>4, <1>c DEF CopiesConfirmed
    <2>6. ReceiptsUnique'
        BY <2>1, <2>2, <1>t, <1>s DEF ReceiptsUnique
    <2>7. QED
        BY <2>5, <2>6 DEF HistoryInv
<1>7. ASSUME NEW c \in Clients, RecordDelete(c) PROVE HistoryInv'
    <2>1. PICK e \in ledger : /\ ledger' = ledger \ {e}
                              /\ voided' = voided \cup {r \in Standing : r.id = e.id}
        BY <1>7 DEF RecordDelete
    <2>2. UNCHANGED <<tenants, request, lastEntry, confirmed>>
        BY <1>7 DEF RecordDelete
    <2>3. Copies' \subseteq Copies
        BY <2>1, <2>2 DEF Copies
    <2>4. Standing \subseteq Standing' \cup voided'
        BY <2>1, <2>2 DEF Standing, FeeEntriesOf
    <2>5. CopiesConfirmed'
        BY <2>1, <2>2, <2>3, <2>4, <1>c DEF CopiesConfirmed
    <2>6. ReceiptsUnique'
        BY <2>1, <2>2, <1>t, <1>s DEF ReceiptsUnique
    <2>7. QED
        BY <2>5, <2>6 DEF HistoryInv
<1>8. ASSUME NEW c \in Clients,
             ConfirmRead(c) \/ ConfirmRefused(c) \/ ConfirmAbort(c) \/ UpdateAbort(c)
             \/ Crash(c) \/ UpdateRead(c)
      PROVE HistoryInv'
    <2>1. UNCHANGED <<tenants, ledger, lastEntry, confirmed, voided>>
        BY <1>8 DEF ConfirmRead, ConfirmRefused, ConfirmAbort, UpdateAbort, Crash, UpdateRead, history
    <2>2. Copies' \subseteq Copies
        BY <1>8 DEF ConfirmRead, ConfirmRefused, ConfirmAbort, UpdateAbort, Crash,
                          UpdateRead, Copies, Idle, LedgerInv, TypeOK
    <2>3. QED
        BY <2>1, <2>2, <1>3
<1>9. ASSUME NEW s \in Scripts, ScriptPlan(s) \/ ScriptApply(s) PROVE HistoryInv'
    <2>1. UNCHANGED <<tenants, ledger, request, lastEntry, confirmed, voided>>
        BY <1>9 DEF ScriptPlan, ScriptApply, history
    <2>2. Copies' \subseteq Copies
        BY <2>1 DEF Copies
    <2>3. QED
        BY <2>1, <2>2, <1>3
<1>10. CASE UNCHANGED vars
    <2>1. Copies' \subseteq Copies
        BY <1>10 DEF vars, Copies
    <2>2. QED
        BY <2>1, <1>3, <1>10 DEF vars
<1>11. QED
    BY <1>1, <1>2, <1>4, <1>5, <1>6, <1>7, <1>8, <1>9, <1>10 DEF Next

\* The looks of FeeReceipts, as the refinement maps them.
MappedLooks == {[bill |-> request[c].tenant, at |-> request[c].at] :
                  c \in {d \in Clients : request[d].op = "confirm"}}

\* A request that is not a confirmation adds no look, and takes one away only if
\* it ends a confirmation.
LEMMA LooksFollow ==
    ASSUME TypeOK, NEW c \in Clients, NEW v \in Request, request' = [request EXCEPT ![c] = v],
           v.op # "confirm"
    PROVE  /\ MappedLooks' \subseteq MappedLooks
           /\ request[c].op # "confirm" => MappedLooks' = MappedLooks
<1>1. \A d \in Clients : request'[d] = IF d = c THEN v ELSE request[d]
    BY DEF TypeOK
<1>2. MappedLooks' \subseteq MappedLooks
    BY <1>1 DEF MappedLooks
<1>3. ASSUME request[c].op # "confirm" PROVE MappedLooks \subseteq MappedLooks'
    BY <1>1, <1>3 DEF MappedLooks
<1>4. QED
    BY <1>2, <1>3

\* Every action maps to an action of FeeReceipts or to a stutter.
LEMMA ReceiptStep ==
    ASSUME LedgerInv, HistoryInv, Next PROVE [Receipts!Next]_Receipts!vars
<1>t. /\ TypeOK /\ TypeOK'
      /\ ledger \subseteq Entry /\ Copies \subseteq Entry /\ ledger \subseteq Copies
      /\ tenants \subseteq Tenant /\ None \notin tenants
      /\ lastEntry \in Nat
      /\ voided \subseteq confirmed
      /\ \A r \in confirmed : r.id \in Nat /\ r.id <= lastEntry /\ r.bill \in tenants
      /\ \A r, q \in confirmed : r.id = q.id => r = q
      /\ \A x \in Copies : x.id \in Nat /\ x.id <= lastEntry
      /\ \A e, f \in ledger : e.id = f.id => e = f
      /\ \A e \in ledger : e.tenant \in tenants \cup {None}
    BY RowFacts, TypeStep DEF LedgerInv
<1>s. Standing \subseteq confirmed
    BY DEF Standing
<1> DEFINE Issue == /\ tenants \subseteq tenants' /\ tenants' \subseteq Tenant
                    /\ UNCHANGED <<Standing, MappedLooks, voided, lastEntry>>
           Unrelated == lastEntry' = lastEntry + 1
                        /\ UNCHANGED <<tenants, Standing, MappedLooks, voided>>
           Look == /\ \E b \in tenants :
                        /\ \A r \in Standing : r.bill # b
                        /\ MappedLooks' = MappedLooks \cup {[bill |-> b, at |-> lastEntry]}
                   /\ UNCHANGED <<tenants, Standing, voided, lastEntry>>
           Forget == MappedLooks' \subseteq MappedLooks
                     /\ UNCHANGED <<tenants, Standing, voided, lastEntry>>
           Pay == /\ \E l \in MappedLooks :
                       /\ l.bill \in tenants
                       /\ Standing' = Standing \cup
                            {[bill |-> l.bill, id |-> lastEntry + 1, after |-> l.at]}
                  /\ lastEntry' = lastEntry + 1
                  /\ MappedLooks' \subseteq MappedLooks
                  /\ UNCHANGED <<tenants, voided>>
           Void == /\ \E r \in Standing : Standing' = Standing \ {r} /\ voided' = voided \cup {r}
                   /\ UNCHANGED <<tenants, MappedLooks, lastEntry>>
           Reinstate == /\ \E r \in voided : r.bill \in tenants /\ Standing' = Standing \cup {r}
                        /\ UNCHANGED <<tenants, MappedLooks, voided, lastEntry>>
           Withdraw == /\ tenants' \subseteq tenants
                       /\ Standing' = {r \in Standing : r.bill \in tenants'}
                       /\ voided' = {r \in voided : r.bill \in tenants'}
                       /\ UNCHANGED <<MappedLooks, lastEntry>>
           Goal == \/ Issue \/ Unrelated \/ Look \/ Forget \/ Pay \/ Void \/ Reinstate \/ Withdraw
<1>g. SUFFICES Goal
    BY DEF Receipts!Next, Receipts!Issue, Receipts!Unrelated, Receipts!Look, Receipts!Forget,
           Receipts!Pay, Receipts!Void, Receipts!Reinstate, Receipts!Withdraw, Receipts!vars,
           MappedLooks
<1>1. ASSUME NEW c \in Clients, SaveSettlement(c) PROVE Issue
    BY <1>1, <1>t DEF SaveSettlement, history, Standing, FeeEntriesOf, MappedLooks, TypeOK
<1>2. ASSUME NEW c \in Clients, DeleteSettlement(c) PROVE Withdraw
    <2>1. PICK gone \in SUBSET tenants :
                 /\ tenants' = tenants \ gone
                 /\ ledger' = {Unlink(e, gone) : e \in ledger}
                 /\ confirmed' = {r \in confirmed : r.bill \notin gone}
                 /\ voided' = {r \in voided : r.bill \notin gone}
        BY <1>2 DEF DeleteSettlement
    <2>2. UNCHANGED <<request, lastEntry>>
        BY <1>2 DEF DeleteSettlement
    <2>3. \A e \in ledger :
             /\ Unlink(e, gone).id = e.id /\ Unlink(e, gone).kind = e.kind
             /\ Unlink(e, gone).tenant = IF e.tenant \in gone THEN None ELSE e.tenant
        BY <1>t DEF Unlink, Entry
    <2>4. ASSUME NEW r \in confirmed, r.bill \notin gone
          PROVE  (\E e \in ledger' : e.kind = "fee" /\ e.tenant = r.bill /\ e.id = r.id)
                 <=> (\E e \in ledger : e.kind = "fee" /\ e.tenant = r.bill /\ e.id = r.id)
        BY <2>1, <2>3, <2>4, <1>t
    <2>5. Standing' = {r \in Standing : r.bill \in tenants'}
        BY <2>1, <2>4, <1>t DEF Standing, FeeEntriesOf
    <2>6. voided' = {r \in voided : r.bill \in tenants'}
        BY <2>1, <1>t
    <2>7. MappedLooks' = MappedLooks
        BY <2>2 DEF MappedLooks
    <2>8. QED
        BY <2>1, <2>2, <2>5, <2>6, <2>7
<1>3. ASSUME NEW c \in Clients, ConfirmRead(c) PROVE Look \/ Forget
    <2>1. UNCHANGED <<tenants, Standing, voided, lastEntry>>
        BY <1>3 DEF ConfirmRead, history, Standing, FeeEntriesOf
    <2>2. PICK t \in tenants : request' = [request EXCEPT ![c] =
              IF FeeEntriesOf(t) # {} THEN [op |-> "refuse"]
              ELSE [op |-> "confirm", tenant |-> t, at |-> lastEntry]]
        BY <1>3 DEF ConfirmRead
    <2>3. CASE FeeEntriesOf(t) # {}
        <3>1. request' = [request EXCEPT ![c] = [op |-> "refuse"]] /\ [op |-> "refuse"] \in Request
            BY <2>2, <2>3 DEF Request
        <3>2. QED
            BY <2>1, <3>1, LooksFollow, <1>t
    <2>4. CASE FeeEntriesOf(t) = {}
        <3>1. \A d \in Clients : request'[d] = IF d = c THEN [op |-> "confirm", tenant |-> t, at |-> lastEntry]
                                               ELSE request[d]
            BY <2>2, <2>4, <1>t DEF TypeOK
        <3>2. request[c].op # "confirm"
            BY <1>3 DEF ConfirmRead, Idle
        <3>3. MappedLooks' = MappedLooks \cup {[bill |-> t, at |-> lastEntry]}
            BY <3>1, <3>2 DEF MappedLooks
        <3>4. \A r \in Standing : r.bill # t
            BY <2>4 DEF Standing
        <3>5. QED
            BY <2>1, <3>3, <3>4
    <2>5. QED
        BY <2>3, <2>4
<1>4. ASSUME NEW c \in Clients,
             ConfirmRefused(c) \/ ConfirmAbort(c) \/ UpdateAbort(c) \/ Crash(c) \/ UpdateRead(c)
      PROVE Forget
    <2>1. UNCHANGED <<tenants, Standing, voided, lastEntry>>
        BY <1>4 DEF ConfirmRefused, ConfirmAbort, UpdateAbort, Crash, UpdateRead, history,
                    Standing, FeeEntriesOf
    <2>2. \E v \in Request : v.op # "confirm" /\ request' = [request EXCEPT ![c] = v]
        BY <1>4, <1>t DEF ConfirmRefused, ConfirmAbort, UpdateAbort, Crash, UpdateRead, Request, Idle, TypeOK
    <2>3. QED
        BY <2>1, <2>2, LooksFollow, <1>t
<1>5. ASSUME NEW c \in Clients, ConfirmCommit(c) PROVE Pay
    <2> DEFINE t == request[c].tenant
               id == lastEntry + 1
               l == [bill |-> t, at |-> request[c].at]
               new == [bill |-> t, id |-> id, after |-> request[c].at]
    <2>1. PICK billing \in BillingMonths :
             ledger' = ledger \cup {[id |-> id, kind |-> "fee", tenant |-> t, billing |-> billing]}
        BY <1>5 DEF ConfirmCommit
    <2>2. /\ t \in tenants
          /\ confirmed' = confirmed \cup {new}
          /\ lastEntry' = id
          /\ UNCHANGED <<tenants, voided>>
        BY <1>5, <1>t DEF ConfirmCommit, TypeOK, Request, Idle
    <2>3. MappedLooks' \subseteq MappedLooks
        <3>1. Idle \in Request /\ Idle.op # "confirm" /\ request' = [request EXCEPT ![c] = Idle]
            BY <1>5 DEF ConfirmCommit, Request, Idle
        <3>2. QED
            BY <3>1, LooksFollow, <1>t
    <2>4. l \in MappedLooks
        BY <1>5 DEF ConfirmCommit, MappedLooks
    <2>5. Standing' = Standing \cup {new}
        <3>1. \A r \in confirmed :
                (\E e \in ledger' : e.kind = "fee" /\ e.tenant = r.bill /\ e.id = r.id)
                <=> (\E e \in ledger : e.kind = "fee" /\ e.tenant = r.bill /\ e.id = r.id)
            BY <2>1, <1>t
        <3> DEFINE f == [id |-> id, kind |-> "fee", tenant |-> t, billing |-> billing]
        <3>0. f \in ledger' /\ f.kind = "fee" /\ f.tenant = new.bill /\ f.id = new.id
            BY <2>1
        <3>2. \E e \in ledger' : e.kind = "fee" /\ e.tenant = new.bill /\ e.id = new.id
            BY <3>0
        <3> HIDE DEF new
        <3>3. QED
            BY <2>2, <3>1, <3>2 DEF Standing, FeeEntriesOf
    <2>6. new = [bill |-> l.bill, id |-> lastEntry + 1, after |-> l.at] /\ l.bill = t
        OBVIOUS
    <2> HIDE DEF new, l
    <2>7. QED
        BY <2>2, <2>3, <2>4, <2>5, <2>6
<1>6. ASSUME NEW c \in Clients, RecordCreate(c) PROVE Unrelated
    <2>1. PICK kind \in Kinds, billing \in BillingMonths :
             ledger' = ledger \cup {[id |-> lastEntry + 1, kind |-> kind, tenant |-> None,
                                    billing |-> billing]}
        BY <1>6 DEF RecordCreate
    <2>2. lastEntry' = lastEntry + 1 /\ UNCHANGED <<tenants, request, confirmed, voided>>
        BY <1>6 DEF RecordCreate, history
    <2>3. Standing' = Standing
        BY <2>1, <2>2, <1>t DEF Standing, FeeEntriesOf
    <2>4. MappedLooks' = MappedLooks
        BY <2>2 DEF MappedLooks
    <2>5. QED
        BY <2>2, <2>3, <2>4
<1>7. ASSUME NEW c \in Clients, UpdateWrite(c) PROVE Goal
    <2> DEFINE old == request[c].entry
    <2>1. PICK kind \in Kinds, billing \in BillingMonths :
             /\ ledger' = {e \in ledger : e.id # old.id} \cup
                          {[id |-> old.id, kind |-> kind, tenant |-> old.tenant, billing |-> billing]}
             /\ voided' = voided \cup {r \in Standing : r.id = old.id /\ kind # "fee"}
        BY <1>7 DEF UpdateWrite
    <2>2. /\ old \in Copies
          /\ old.tenant \in tenants \cup {None}
          /\ UNCHANGED <<tenants, confirmed, lastEntry>>
        BY <1>7 DEF UpdateWrite, Copies
    <2>3. MappedLooks' = MappedLooks
        <3>1. /\ Idle \in Request /\ Idle.op # "confirm" /\ request' = [request EXCEPT ![c] = Idle]
              /\ request[c].op # "confirm"
            BY <1>7 DEF UpdateWrite, Request, Idle
        <3>2. QED
            BY <3>1, LooksFollow, <1>t
    \* Receipts of other rows stand as before; the receipt of this row stands afterwards
    \* when the form booked a fee linked to the bill.
    <2>4. \A r \in confirmed : r.id # old.id => (r \in Standing' <=> r \in Standing)
        BY <2>1, <2>2, <1>t DEF Standing, FeeEntriesOf
    <2>5. \A r \in confirmed : r.id = old.id =>
            (r \in Standing' <=> kind = "fee" /\ old.tenant = r.bill)
        <3> DEFINE f == [id |-> old.id, kind |-> kind, tenant |-> old.tenant, billing |-> billing]
        <3>1. f \in ledger' /\ \A e \in ledger' : e.id = old.id => e = f
            BY <2>1
        <3>2. f.id = old.id /\ f.kind = kind /\ f.tenant = old.tenant
            OBVIOUS
        <3> HIDE DEF f
        <3>3. QED
            BY <2>2, <3>1, <3>2 DEF Standing, FeeEntriesOf
    <2>6. Standing' \subseteq confirmed
        BY <2>2 DEF Standing
    <2>7. ASSUME NEW r \in Standing, r.id = old.id PROVE old.tenant = r.bill
        <3>1. PICK e \in ledger : e.kind = "fee" /\ e.tenant = r.bill /\ e.id = r.id
            BY StandingIs
        <3>2. e \in Copies /\ e.tenant \in tenants
            BY <3>1, <1>t, <1>s
        <3>3. QED
            BY <2>2, <2>7, <3>1, <3>2, <1>t DEF LedgerInv, CopiesAgree
    <2>8. CASE \E r \in Standing : r.id = old.id
        <3>1. PICK r \in Standing : r.id = old.id
            BY <2>8
        <3>2. \A q \in confirmed : q.id = old.id => q = r
            BY <3>1, <1>s, <1>t
        <3>3. CASE kind = "fee"
            <4>1. Standing' = Standing
                BY <2>4, <2>5, <2>6, <2>7, <3>1, <3>2, <3>3, <1>s
            <4>2. voided' = voided
                BY <2>1, <3>3
            <4>3. Forget
                BY <2>2, <2>3, <4>1, <4>2
            <4>4. QED
                BY <4>3
        <3>4. CASE kind # "fee"
            <4>1. Standing' = Standing \ {r}
                BY <2>4, <2>5, <2>6, <3>1, <3>2, <3>4, <1>s
            <4>2. voided' = voided \cup {r}
                BY <2>1, <3>1, <3>2, <3>4, <1>s
            <4>3. Void
                BY <2>2, <2>3, <3>1, <4>1, <4>2
            <4>4. QED
                BY <4>3
        <3>5. QED
            BY <3>3, <3>4
    <2>9. CASE ~ \E r \in Standing : r.id = old.id
        <3>1. voided' = voided
            BY <2>1, <2>9
        <3>2. CASE \E r \in Standing' : r.id = old.id
            <4>1. PICK r \in Standing' : r.id = old.id
                BY <3>2
            <4>2. r \in confirmed /\ old.tenant = r.bill /\ r.bill \in tenants
                BY <2>5, <2>6, <4>1, <1>t
            <4>3. \A q \in confirmed : q.id = old.id => q = r
                BY <4>1, <4>2, <1>t
            <4>4. r \in voided
                <5>1. \E q \in Standing \cup voided : q.id = old.id /\ q.bill = old.tenant
                    BY <2>2, <4>2 DEF HistoryInv, CopiesConfirmed
                <5>2. QED
                    BY <5>1, <2>9, <4>3, <1>t
            <4>5. Standing' = Standing \cup {r}
                BY <2>4, <2>6, <2>9, <4>1, <4>3, <1>s
            <4>6. Reinstate
                BY <2>2, <2>3, <3>1, <4>2, <4>4, <4>5
            <4>7. QED
                BY <4>6
        <3>3. CASE ~ \E r \in Standing' : r.id = old.id
            <4>1. Standing' = Standing
                BY <2>4, <2>6, <2>9, <3>3, <1>s
            <4>2. Forget
                BY <2>2, <2>3, <3>1, <4>1
            <4>3. QED
                BY <4>2
        <3>4. QED
            BY <3>2, <3>3
    <2>10. QED
        BY <2>8, <2>9
<1>8. ASSUME NEW c \in Clients, RecordDelete(c) PROVE Void \/ Forget
    <2>1. PICK e \in ledger : /\ ledger' = ledger \ {e}
                              /\ voided' = voided \cup {r \in Standing : r.id = e.id}
        BY <1>8 DEF RecordDelete
    <2>2. UNCHANGED <<tenants, request, lastEntry, confirmed>> /\ MappedLooks' = MappedLooks
        BY <1>8 DEF RecordDelete, MappedLooks
    <2>3. Standing' = {r \in Standing : r.id # e.id}
        BY <2>1, <2>2, <1>t DEF Standing, FeeEntriesOf
    <2>4. CASE \E r \in Standing : r.id = e.id
        <3>1. PICK r \in Standing : r.id = e.id
            BY <2>4
        <3>2. \A q \in Standing : q.id = e.id => q = r
            BY <3>1, <1>s, <1>t
        <3>3. Standing' = Standing \ {r} /\ voided' = voided \cup {r}
            BY <2>1, <2>3, <3>1, <3>2
        <3>4. QED
            BY <2>2, <3>1, <3>3
    <2>5. CASE ~ \E r \in Standing : r.id = e.id
        <3>1. Standing' = Standing /\ voided' = voided
            BY <2>1, <2>3, <2>5
        <3>2. QED
            BY <2>2, <3>1
    <2>6. QED
        BY <2>4, <2>5
<1>9. ASSUME NEW s \in Scripts, ScriptPlan(s) \/ ScriptApply(s) PROVE Forget
    BY <1>9 DEF ScriptPlan, ScriptApply, history, Standing, FeeEntriesOf, MappedLooks
<1>10. QED
    BY <1>1, <1>2, <1>3, <1>4, <1>5, <1>6, <1>7, <1>8, <1>9 DEF Next

\* The rows and their history together keep the invariant of both.
LEMMA HistoryInvHolds == Spec => [](LedgerInv /\ HistoryInv)
BY InitInv, InvStep, HistoryAtFirst, HistoryStep, PTL DEF Spec

\* For any requests in flight and both kinds, the ledger implements FeeReceipts:
\* every step of the code issues bills, looks at a bill without a standing receipt
\* or forgets it, pays it, voids a receipt, reinstates one, withdraws bills with
\* their receipts, or changes nothing a bill can see.
THEOREM ImplementsReceipts == Spec => KeepsReceipts
<1>1. Init => Receipts!Init
    BY DEF Init, Receipts!Init, Standing, Idle
<1>2. LedgerInv /\ HistoryInv /\ [Next]_vars => [Receipts!Next]_Receipts!vars
    <2>1. ASSUME UNCHANGED vars PROVE UNCHANGED Receipts!vars
        BY <2>1 DEF vars, Receipts!vars, Standing, FeeEntriesOf
    <2>2. QED
        BY <2>1, ReceiptStep
<1>3. QED
    BY <1>1, <1>2, HistoryInvHolds, PTL DEF Spec, KeepsReceipts, Receipts!Spec

\* What FeeReceipts says of any bill: who looked at it sees every receipt that was
\* issued before and never voided.
LooksAreTrue ==
    /\ lastEntry \in Nat
    /\ \A l \in MappedLooks : l.at \in Nat /\ l.at <= lastEntry
    /\ \A r \in Standing \cup voided : r.id \in Nat /\ r.id <= lastEntry
    /\ \A l \in MappedLooks, r \in Standing : r.bill = l.bill /\ r.id <= l.at => r \in voided
TwiceUnseen == \A r \in Standing, s \in Standing \cup voided :
    r.bill = s.bill /\ r.id < s.id => s.after < r.id \/ r \in voided

\* A promise of FeeReceipts: two receipts of a bill only when the second payer could
\* not see the first receipt.
LEMMA PaidTwiceStep ==
    ASSUME LooksAreTrue, TwiceUnseen, [Receipts!Next]_Receipts!vars
    PROVE  (LooksAreTrue /\ TwiceUnseen)'
<1> USE DEF LooksAreTrue, TwiceUnseen
<1>1. CASE Receipts!Issue \/ Receipts!Unrelated \/ Receipts!Forget \/ Receipts!Withdraw
    BY <1>1 DEF Receipts!Issue, Receipts!Unrelated, Receipts!Forget, Receipts!Withdraw, MappedLooks
<1>2. CASE Receipts!Look
    BY <1>2 DEF Receipts!Look, MappedLooks
<1>3. CASE Receipts!Pay
    BY <1>3 DEF Receipts!Pay, MappedLooks
<1>4. CASE Receipts!Void
    BY <1>4 DEF Receipts!Void, MappedLooks
<1>5. CASE Receipts!Reinstate
    BY <1>5 DEF Receipts!Reinstate, MappedLooks
<1>6. CASE UNCHANGED Receipts!vars
    BY <1>6 DEF Receipts!vars, MappedLooks
<1>7. QED
    BY <1>1, <1>2, <1>3, <1>4, <1>5, <1>6 DEF Receipts!Next

\* However many requests are in flight and whatever they edit, a settlement tenant
\* has two fee entries only when the later confirmation looked before the earlier
\* entry was written, or the earlier entry had been deleted or booked as rent.
THEOREM DoublesAreUnseen == Spec => []DoubleUnseen
<1>1. Init => LooksAreTrue /\ TwiceUnseen
    BY DEF Init, LooksAreTrue, TwiceUnseen, MappedLooks, Standing, Idle
<1>2. LedgerInv /\ HistoryInv /\ LooksAreTrue /\ TwiceUnseen /\ [Next]_vars
        => (LooksAreTrue /\ TwiceUnseen)'
    <2>1. ASSUME UNCHANGED vars PROVE UNCHANGED Receipts!vars
        BY <2>1 DEF vars, Receipts!vars, Standing, FeeEntriesOf
    <2>2. QED
        BY <2>1, ReceiptStep, PaidTwiceStep
<1>3. LedgerInv /\ HistoryInv /\ TwiceUnseen => DoubleUnseen
    <2> SUFFICES ASSUME LedgerInv, HistoryInv, TwiceUnseen, NEW e \in ledger, NEW f \in ledger,
                        SettlesFee(e), SettlesFee(f), e.tenant = f.tenant, e.id < f.id
                 PROVE  \/ \E r \in confirmed : r.id = f.id /\ r.after < e.id
                        \/ \E r \in voided : r.id = e.id
        BY DEF DoubleUnseen
    <2>1. /\ e \in Copies /\ f \in Copies /\ e.tenant \in tenants
          /\ voided \subseteq confirmed
        BY RowFacts DEF SettlesFee
    <2>2. PICK r \in Standing \cup voided : r.id = e.id /\ r.bill = e.tenant
        BY <2>1 DEF HistoryInv, CopiesConfirmed
    <2>3. PICK s \in Standing \cup voided : s.id = f.id /\ s.bill = f.tenant
        BY <2>1 DEF HistoryInv, CopiesConfirmed
    <2>4. r \in confirmed /\ s \in confirmed
        BY <2>1 DEF Standing
    <2>5. r \in Standing /\ s \in Standing
        BY <2>2, <2>3, <2>4 DEF Standing, FeeEntriesOf, SettlesFee
    <2>6. QED
        BY <2>2, <2>3, <2>4, <2>5 DEF TwiceUnseen
<1>4. QED
    BY <1>1, <1>2, <1>3, HistoryInvHolds, PTL DEF Spec

-----------------------------------------------------------------------------
(* Money *)

\* Saving or deleting a settlement leaves the recorded money alone.
THEOREM MoneyIsKept == Spec => SettlementsKeepMoney
<1>1. ASSUME [Next]_vars, tenants' # tenants, TypeOK
      PROVE  Money' = Money
    <2>1. ASSUME NEW c \in Clients, SaveSettlement(c)
          PROVE  Money' = Money
        BY <2>1 DEF SaveSettlement, Money
    <2>2. ASSUME NEW c \in Clients, DeleteSettlement(c)
          PROVE  Money' = Money
        <3>1. PICK n \in 1..lastCalc :
                ledger' = {Unlink(e, {t \in tenants : t.calc = n}) : e \in ledger}
            BY <2>2 DEF DeleteSettlement
        <3>2. \A e \in ledger : LET u == Unlink(e, {t \in tenants : t.calc = n})
                                IN  u.id = e.id /\ u.kind = e.kind /\ u.billing = e.billing
            BY <1>1 DEF Unlink, TypeOK, Entry
        <3>3. Money' = {<<f.id, f.kind, f.billing>> : f \in ledger'}
            BY DEF Money
        <3>4. ASSUME NEW f \in ledger'
              PROVE  <<f.id, f.kind, f.billing>> \in Money
            <4>1. PICK e \in ledger : f = Unlink(e, {t \in tenants : t.calc = n})
                BY <3>1
            <4>2. <<f.id, f.kind, f.billing>> = <<e.id, e.kind, e.billing>>
                BY <3>2, <4>1
            <4>3. QED
                BY <4>2 DEF Money
        <3>5. ASSUME NEW e \in ledger
              PROVE  <<e.id, e.kind, e.billing>> \in Money'
            <4>1. PICK f \in ledger' : f = Unlink(e, {t \in tenants : t.calc = n})
                BY <3>1
            <4>2. <<f.id, f.kind, f.billing>> = <<e.id, e.kind, e.billing>>
                BY <3>2, <4>1
            <4>3. QED
                BY <3>3, <4>2
        <3>6. QED
            BY <3>3, <3>4, <3>5 DEF Money
    <2>3. QED
        BY <1>1, <2>1, <2>2
           DEF Next, vars, ConfirmRead, ConfirmRefused, ConfirmCommit, ConfirmAbort, RecordCreate,
               UpdateRead, UpdateWrite, UpdateAbort, RecordDelete, Crash, ScriptPlan, ScriptApply
<1>2. TypeOK /\ [Next]_vars => [tenants' # tenants => Money' = Money]_vars
    BY <1>1
<1>3. QED
    BY <1>2, TypeCorrect, PTL DEF Spec, SettlementsKeepMoney

-----------------------------------------------------------------------------
(* The backfill *)

\* The script is run once, and calculate_fees returns one fund line for a fund.
OneBackfill ==
    /\ \A s, r \in Scripts : s = r
    /\ \A lines \in LineSets : \A a, b \in lines :
         a.fee_type = "Fund" /\ b.fee_type = "Fund" => a = b

\* What the script planned for are settlements it saw, and still without a fund line.
PlanCurrent == \A s \in Scripts : script[s].pc = "planned" =>
    \A t \in script[s].tenants : t.calc <= lastCalc /\ ~HasFundLine(t)

FundInv == LedgerInv /\ PlanCurrent /\ OneFundLine

\* Settlements saved or deleted between plan and application leave the plan current, and
\* applying it adds the one line that was missing.
LEMMA FundStep == ASSUME OneBackfill, FundInv, Next PROVE (PlanCurrent /\ OneFundLine)'
<1>t. /\ items \subseteq Item /\ tenants \subseteq Tenant /\ lastCalc \in Nat
      /\ script \in [Scripts -> ScriptState]
      /\ \A i \in items : i.tenant \in tenants
      /\ \A t \in tenants : t.calc <= lastCalc
    BY DEF FundInv, LedgerInv, TypeOK, LinksIntact, KeysFresh
<1>p. \A s \in Scripts : script[s].pc = "planned" =>
        \A t \in script[s].tenants :
          /\ t \in Tenant /\ t.calc <= lastCalc
          /\ \A i \in items : i.tenant = t => i.line.fee_type # "Fund"
    BY <1>t DEF FundInv, PlanCurrent, HasFundLine, ItemsOf, ScriptState
<1>1. ASSUME NEW c \in Clients, SaveSettlement(c)
      PROVE  (PlanCurrent /\ OneFundLine)'
    <2>1. PICK period \in Months, active \in SUBSET Contracts, lines \in LineSets :
            LET settled == IF lines = {} THEN {} ELSE active
                new == [calc : {lastCalc + 1}, contract : settled, period : {period}]
            IN items' = items \cup [tenant : new, line : lines, by : {Settled}]
        BY <1>1 DEF SaveSettlement
    <2>2. \A i \in items' : \/ i \in items
                            \/ /\ i.tenant.calc = lastCalc + 1 /\ i.line \in lines
                               /\ i = [tenant |-> i.tenant, line |-> i.line, by |-> Settled]
        BY <2>1
    <2>3. \A i \in items : i.tenant.calc <= lastCalc /\ i.tenant.calc \in Nat
        BY <1>t DEF Tenant
    <2>4. OneFundLine'
        <3>1. ASSUME NEW i \in items', NEW j \in items', i.tenant = j.tenant,
                     i.line.fee_type = "Fund", j.line.fee_type = "Fund"
              PROVE  i = j
            <4>1. CASE i \in items /\ j \in items
                BY <3>1, <4>1 DEF FundInv, OneFundLine
            <4>2. CASE i \notin items /\ j \notin items
                <5>1. i.line = j.line
                    BY <2>2, <3>1, <4>2 DEF OneBackfill
                <5>2. QED
                    BY <2>2, <3>1, <4>2, <5>1
            <4>3. QED
                BY <1>t, <2>2, <2>3, <3>1, <4>1, <4>2
        <3>2. QED
            BY <3>1 DEF OneFundLine
    <2>5. PlanCurrent'
        <3>1. script' = script /\ lastCalc' = lastCalc + 1
            BY <1>1 DEF SaveSettlement
        <3>2. \A s \in Scripts : script[s].pc = "planned" =>
                \A t \in script[s].tenants : \A i \in items' : i.tenant = t => i.line.fee_type # "Fund"
            BY <1>t, <1>p, <2>2
        <3>3. \A s \in Scripts : script[s].pc = "planned" =>
                \A t \in script[s].tenants : t.calc <= lastCalc + 1
            BY <1>t, <1>p DEF Tenant
        <3>4. QED
            BY <3>1, <3>2, <3>3 DEF PlanCurrent, HasFundLine, ItemsOf
    <2>6. QED
        BY <2>4, <2>5
<1>2. ASSUME NEW s \in Scripts, ScriptPlan(s)
      PROVE  (PlanCurrent /\ OneFundLine)'
    <2>1. script'[s].tenants \subseteq {t \in tenants : ~HasFundLine(t)} /\ \A r \in Scripts : r = s
        BY <1>t, <1>2 DEF ScriptPlan, OneBackfill
    <2>2. items' = items /\ lastCalc' = lastCalc
        BY <1>2 DEF ScriptPlan
    <2>3. QED
        BY <1>t, <2>1, <2>2 DEF PlanCurrent, HasFundLine, ItemsOf, FundInv, OneFundLine
<1>3. ASSUME NEW s \in Scripts, ScriptApply(s)
      PROVE  (PlanCurrent /\ OneFundLine)'
    <2>1. PlanCurrent'
        <3>1. \A r \in Scripts : script'[r].pc = "done"
            BY <1>t, <1>3 DEF ScriptApply, OneBackfill
        <3>2. QED
            BY <3>1 DEF PlanCurrent
    <2>2. ASSUME NEW i \in items', NEW j \in items', i.tenant = j.tenant,
                 i.line.fee_type = "Fund", j.line.fee_type = "Fund"
          PROVE  i = j
        <3>1. \A x \in items' : \/ x \in items
                                \/ /\ x.tenant \in script[s].tenants
                                   /\ x = [tenant |-> x.tenant, line |-> FundLine, by |-> s]
            BY <1>3 DEF ScriptApply
        <3>2. script[s].pc = "planned"
            BY <1>3 DEF ScriptApply
        <3>3. CASE i \in items /\ j \in items
            BY <2>2, <3>3 DEF FundInv, OneFundLine
        <3>4. CASE i \notin items /\ j \notin items
            BY <2>2, <3>1, <3>4
        <3>5. QED
            BY <1>p, <2>2, <3>1, <3>2, <3>3, <3>4
    <2>3. QED
        BY <2>1, <2>2 DEF OneFundLine
<1>4. ASSUME items' \subseteq items, script' = script, lastCalc' = lastCalc
      PROVE  (PlanCurrent /\ OneFundLine)'
    BY <1>4 DEF FundInv, PlanCurrent, OneFundLine, HasFundLine, ItemsOf
<1>5. QED
    BY <1>1, <1>2, <1>3, <1>4
       DEF Next, DeleteSettlement, ConfirmRead, ConfirmRefused, ConfirmCommit, ConfirmAbort,
           RecordCreate, UpdateRead, UpdateWrite, UpdateAbort, RecordDelete, Crash

\* Run once, the backfill gives a fund line to the settlement tenants that lack one and to
\* no other, whatever is saved or deleted between its plan and its inserts.
THEOREM BackfillAddsOneLine == ASSUME OneBackfill PROVE Spec => []OneFundLine
<1>1. Init => FundInv
    BY InitInv DEF FundInv, Init, PlanCurrent, OneFundLine
<1>2. FundInv /\ [Next]_vars => FundInv'
    <2>1. CASE Next
        BY <2>1, FundStep, InvStep DEF FundInv
    <2>2. CASE UNCHANGED vars
        BY <2>2, InvStep DEF vars, FundInv, PlanCurrent, OneFundLine, HasFundLine, ItemsOf
    <2>3. QED
        BY <2>1, <2>2
<1>3. FundInv => OneFundLine
    BY DEF FundInv
<1>4. QED
    BY <1>1, <1>2, <1>3, PTL DEF Spec
=============================================================================
