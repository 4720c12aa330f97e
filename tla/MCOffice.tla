-------------------------------- MODULE MCOffice --------------------------------
(* The instance of Office for TLC: two clients, an address, a kind of template, a wish, *)
(* and a few old databases.                                                             *)
EXTENDS Office, TLC

CONSTANTS c1, c2, n1, k1, w1

TwoClients == {c1, c2}
OneName == {n1}
OneKind == {k1}
OneWish == {w1}
TooLong == {3}
TwoUsernames == {1, 2}
Symmetry == Permutations(Clients)

\* Old databases: a user, a flat and a few related rows; the same without one of these;
\* and with one that names a flat that is missing; two users with one address; no user.
Row(table, id, names) ==
    [table |-> table, id |-> id, username |-> IF table = "users" THEN 1 ELSE 0, names |-> names]
Base == {Row("users", 1, << >>), Row("flats", 1, << >>)}
Families ==
    { {Row("rooms", 1, [flats |-> 1]), Row("contracts", 1, [flats |-> 1, rooms |-> 1]),
       Row("records", 1, [flats |-> 1, rooms |-> 1, contracts |-> 1])},
      {Row("counterdef", 1, [flats |-> 1]), Row("counterstate", 1, [flats |-> 1, counterdef |-> 1]),
       Row("taxdue", 1, << >>)},
      {Row("adminfee", 1, [flats |-> 1]), Row("adminprice", 1, [flats |-> 1, adminfee |-> 1]),
       Row("counterprice", 1, [flats |-> 1, counterdef |-> 1])},
      {Row("duecalc", 1, [flats |-> 1]), Row("duetens", 2, [flats |-> 1, duecalc |-> 1]),
       Row("duefees", 1, [flats |-> 1, duetens |-> 2])} }
Damaged(family) ==
    {family} \cup {family \ {r} : r \in family}
    \cup {(family \ {r}) \cup {[r EXCEPT !.names["flats"] = 2]} :
             r \in {q \in family : "flats" \in DOMAIN q.names}}
SmallDumps ==
    {Base \cup family : family \in UNION {Damaged(f) : f \in Families}}
    \cup {{Row("users", 1, << >>), Row("users", 2, << >>)}, {Row("flats", 1, << >>)}, {}}

\* The import alone.
ImportSpec == OfficeInit /\ part = "import" /\ [][OfficeNext]_office
=============================================================================
