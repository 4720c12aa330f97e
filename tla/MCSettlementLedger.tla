-------------------------- MODULE MCSettlementLedger --------------------------
(* Instances of SettlementLedger for TLC. *)
EXTENDS SettlementLedger, TLC

CONSTANTS c1, c2, k1, s1

Counter == [fee_type |-> "Counter", advance |-> FALSE, positive |-> TRUE]
Advance == [fee_type |-> "Admin", advance |-> TRUE, positive |-> TRUE]

\* No line at all, an advance fee, a meter and the fund.
MCLineSets == {{}, {Advance}, {Counter, FundLine}}

TwoClients == {c1, c2}
OneContract == {k1}
NoScript == {}
OneScript == {s1}
OneMonth == {1}
FeeOnly == {"fee"}
BothKinds == {"fee", "rent"}
Symmetry == Permutations(Clients) \cup Permutations(Contracts)
=============================================================================
