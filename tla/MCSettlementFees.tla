--------------------------- MODULE MCSettlementFees ---------------------------
(* Instances of SettlementFees for TLC. *)
EXTENDS SettlementFees, TLC

CONSTANTS c1, c2, k1, k2

TwoClients == {c1, c2}
TwoContracts == {k1, k2}
ClientSymmetry == Permutations(TwoClients)

\* Two tenants on day 1, one on day 2, none on day 3.
Leaving == [k \in TwoContracts |-> [start |-> 0, end |-> IF k = k1 THEN 2 ELSE 1]]
OneStay == {Leaving}

\* The first month is a leap February.
TwoMonths == <<2, 1>>
ShortFebruary == <<1, 1>>

NoBedsOneOrThree == {0, 1, 3}
OneOrSix == {1, 6}
TwoAmounts == {2, 5}
ThreeDays == {0, 1, 2}
TwoDays == {0, 1}
=============================================================================
