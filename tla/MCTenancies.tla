----------------------------- MODULE MCTenancies -----------------------------
(* The instance of Tenancies for TLC: two requests, two accounts and two        *)
(* contracts, of which the second stays open-ended: it is there for the links.  *)
EXTENDS Tenancies, TLC

CONSTANTS c1, c2, k1, k2, u1, u2, i1, d1, d2

TwoClients == {c1, c2}
TwoContracts == {k1, k2}
TwoUsers == {u1, u2}
OneInvite == {i1}
TwoDates == {d1, d2}
FirstHasTerms == k1 :> TwoDates @@ k2 :> {}
Symmetry == Permutations(Clients) \cup Permutations(Users) \cup Permutations(Dates)
=============================================================================
