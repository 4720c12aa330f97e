-------------------------------- MODULE MCBooks --------------------------------
(* The instances of Books for TLC.                                              *)
EXTENDS Books, TLC

CONSTANTS c1, c2, n1, n2, k1, r1

Writes == {"funds", "rent"}
Pages == {"pages"}

TwoClients == {c1, c2}
TwoNames == {n1, n2}
OneContract == {k1}
OneRoom == {r1}
ClientSymmetry == Permutations(Clients)
Symmetry == Permutations(Clients) \cup Permutations(Names)

\* Funds: two months of two days.
TenOrFifteen == {10, 15}
OneOrTwo == {1, 2}
TwoOrOpen == {2, None}
ThreeOrFour == {3, 4}
MCPeriods == {<<1, 2>>, <<2, 3>>}

\* Rent: a year of two months and the first month of the next; twice ninety cross a
\* threshold of 100 together.
BothKinds == {"rent", "fee"}
OnlyOne == {1}
OneToThree == {1, 2, 3}
Ninety == {90}

\* Pages: three months of three days, the third in the next year.
OneOrFive == {1, 5}
FourOrOpen == {4, None}
Hundred == {100}
OnlyTwo == {2}
TwoOrThree == {2, 3}
\* Of five nothing is due, of twice five a zloty; of five beyond a threshold of ten, too.
OnlyFive == {5}
=============================================================================
