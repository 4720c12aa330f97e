--------------------------- MODULE MCSettlementMail ---------------------------
(* The instance of SettlementMail for TLC: two workers and a settlement of two  *)
(* tenants.                                                                     *)
EXTENDS SettlementMail, TLC

CONSTANTS w1, w2, c1, k1, p1, p2

TwoWorkers == {w1, w2}
OneClient == {c1}
OneCalc == {k1}
TwoPeople == {p1, p2}
Redirected == {TRUE}
=============================================================================
