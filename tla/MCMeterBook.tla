----------------------------- MODULE MCMeterBook -----------------------------
(* The instance of MeterBook for TLC: two requests, flats and utilities.      *)
EXTENDS MeterBook, TLC

CONSTANTS c1, c2, f1, f2, u1, u2

TwoClients == {c1, c2}
TwoFlats == {f1, f2}
TwoUtilities == {u1, u2}
AllKinds == {"meter", "admin", "invoice"}
OneOrFour == {1, 4}
Two == {2}
SecondDayOrOpen == {2, None}
FirstMonth == {1}
ADay == {1}
Symmetry == Permutations(Clients) \cup Permutations(Flats) \cup Permutations(Utilities)
=============================================================================
