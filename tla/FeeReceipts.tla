------------------------------ MODULE FeeReceipts ------------------------------
(***************************************************************************)
(* What the confirmation of settlements promises, without requests, rows   *)
(* or edits: a bill is paid by somebody who looked and saw no receipt of   *)
(* it.  Receipts are numbered and a number is never used twice.  A receipt *)
(* can be voided and reinstated, so a bill has two receipts only when the  *)
(* second payer could not see the first one.                               *)
(***************************************************************************)
EXTENDS Naturals

CONSTANT Bill

VARIABLES bills, receipts, looks, voided, lastReceipt

vars == <<bills, receipts, looks, voided, lastReceipt>>

Init == bills = {} /\ receipts = {} /\ looks = {} /\ voided = {} /\ lastReceipt = 0

\* A settlement issues a bill for each of its tenants.
Issue ==
    /\ bills \subseteq bills' /\ bills' \subseteq Bill
    /\ UNCHANGED <<receipts, looks, voided, lastReceipt>>

\* Some numbers go to money that settles no bill.
Unrelated ==
    /\ lastReceipt' = lastReceipt + 1
    /\ UNCHANGED <<bills, receipts, looks, voided>>

\* A payer sees that no receipt of the bill stands.
Look ==
    /\ \E b \in bills :
         /\ \A r \in receipts : r.bill # b
         /\ looks' = looks \cup {[bill |-> b, at |-> lastReceipt]}
    /\ UNCHANGED <<bills, receipts, voided, lastReceipt>>

Forget == looks' \subseteq looks /\ UNCHANGED <<bills, receipts, voided, lastReceipt>>

Pay ==
    /\ \E l \in looks :
         /\ l.bill \in bills
         /\ receipts' = receipts \cup
              {[bill |-> l.bill, id |-> lastReceipt + 1, after |-> l.at]}
    /\ lastReceipt' = lastReceipt + 1
    /\ looks' \subseteq looks
    /\ UNCHANGED <<bills, voided>>

Void ==
    /\ \E r \in receipts : receipts' = receipts \ {r} /\ voided' = voided \cup {r}
    /\ UNCHANGED <<bills, looks, lastReceipt>>

\* Only a receipt that was voided comes back, and only for a bill that stands.
Reinstate ==
    /\ \E r \in voided : r.bill \in bills /\ receipts' = receipts \cup {r}
    /\ UNCHANGED <<bills, looks, voided, lastReceipt>>

\* Deleting a settlement withdraws its bills together with their receipts.
Withdraw ==
    /\ bills' \subseteq bills
    /\ receipts' = {r \in receipts : r.bill \in bills'}
    /\ voided' = {r \in voided : r.bill \in bills'}
    /\ UNCHANGED <<looks, lastReceipt>>

Next ==
    \/ Issue \/ Unrelated \/ Look \/ Forget \/ Pay \/ Void \/ Reinstate \/ Withdraw

Spec == Init /\ [][Next]_vars

\* Two receipts of a bill: the second payer looked before the first one was
\* issued, or the first one had been voided.
PaidTwice == \A r, s \in receipts :
    r.bill = s.bill /\ r.id < s.id => s.after < r.id \/ r \in voided
=============================================================================
