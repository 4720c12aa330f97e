------------------------------ MODULE LegacyImport ------------------------------
(***************************************************************************)
(* load_legacy: the tables of the old database, which knew no foreign      *)
(* keys, loaded one after the other into this one in one transaction,      *)
(* while the site takes registrations and, without --flush, new flats.     *)
(*                                                                         *)
(* A row is its table, its primary key, a user's name to log in with and   *)
(* the rows its columns name; what the converters make of its other        *)
(* columns, and whom it belongs to, is left out.  A statement of the site  *)
(* that waits for the transaction is one that runs after it.               *)
(***************************************************************************)
EXTENDS Naturals, Sequences, FiniteSets, SequencesExt

CONSTANTS
    Dumps,      \* contents of the old database
    Usernames,  \* what the site's own users are called, which the old ones may be too
    MaxAdds,    \* bound: rows the site adds
    MaxImports  \* bound: times the command is run

\* In the order in which _load reads them.
Tables == <<"users", "flats", "rooms", "contracts", "counterdef", "counterstate", "counterprice",
            "adminfee", "adminprice", "duecalc", "duetens", "duefees", "records", "tax_mode", "taxdue">>

\* The foreign keys, without that to the owner, and whether they may be empty.
Parents(table) ==
    CASE table \in {"rooms", "counterdef", "adminfee", "duecalc"} -> {"flats"}
      [] table = "contracts" -> {"flats", "rooms"}
      [] table \in {"counterstate", "counterprice"} -> {"flats", "counterdef"}
      [] table = "adminprice" -> {"flats", "adminfee"}
      [] table = "duetens" -> {"flats", "duecalc"}
      [] table = "duefees" -> {"flats", "duetens"}
      [] table = "records" -> {"flats", "rooms", "contracts"}
      [] OTHER -> {}
Nullable(table) == IF table = "records" THEN {"rooms", "contracts"} ELSE {}
Required(table) == Parents(table) \ Nullable(table)

\* names has a primary key for each of Parents(table), 0 for none; only users have a username.
IsRow(r) == r \in [table : Range(Tables), id : Nat, username : Nat,
                   names : [Parents(r.table) -> Nat]]

Idle == [op |-> "idle"]

VARIABLES
    dump,    \* the old database
    rows,    \* the new one, as committed
    supers,  \* users that are superusers
    seq,     \* the sequence of each table: the last primary key given out
    job,     \* the transaction: rows it deleted and loaded, and the next table
    undone,  \* an import has been undone after it reset the sequences
    adds,    \* rows the site added
    imports  \* times the command was run

vars == <<dump, rows, supers, seq, job, undone, adds, imports>>

TypeOK ==
    /\ dump \in Dumps
    /\ \A r \in rows : IsRow(r)
    /\ supers \subseteq {r.id : r \in {q \in rows : q.table = "users"}}
    /\ seq \in [Range(Tables) -> Nat]
    /\ \/ job = Idle
       \/ /\ job \in [op : {"load", "commit"}, flush : BOOLEAN, step : 1..(Len(Tables) + 1),
                     flushed : SUBSET rows, loaded : {job.loaded}]
          /\ \A r \in job.loaded : IsRow(r)
    /\ undone \in BOOLEAN
    /\ adds \in 0..MaxAdds /\ imports \in 0..MaxImports

\* A new database, perhaps with the superuser that createsuperuser made.
Bare(table, id, username) ==
    [table |-> table, id |-> id, username |-> username, names |-> [p \in Parents(table) |-> 0]]

Init ==
    /\ dump \in Dumps
    /\ supers \in {{}, {1}}
    /\ \E username \in Usernames : rows = {Bare("users", id, username) : id \in supers}
    /\ seq = [t \in Range(Tables) |-> IF t = "users" THEN Cardinality(supers) ELSE 0]
    /\ job = Idle
    /\ undone = FALSE
    /\ adds = 0 /\ imports = 0

Has(set, table, id) == \E r \in set : r.table = table /\ r.id = id

\* The rows cannot both be stored: a primary key, and a user's name, are unique.
Clash(r, q) ==
    /\ r.table = q.table
    /\ r.id = q.id \/ (r.table = "users" /\ r.username = q.username)

-----------------------------------------------------------------------------
(* The site *)

\* A registration, whose form refuses an address that is taken, or flat_add.  What clashes
\* with the transaction waits for it, and so does a landlord whom it deletes.
SiteAdds(table) ==
    /\ adds < MaxAdds
    /\ ~(table = "flats" /\ job # Idle /\ job.flush /\ supers = {})
    /\ \E username \in IF table = "users" THEN Usernames ELSE {0} :
         LET new == Bare(table, seq[table] + 1, username)
         IN  /\ table = "users" => \A r \in rows : r.table # "users" \/ r.username # username
             /\ job # Idle => \A r \in job.loaded \cup job.flushed : ~Clash(new, r)
             /\ rows' = IF Has(rows, table, new.id) THEN rows ELSE rows \cup {new}
    /\ seq' = [seq EXCEPT ![table] = seq[table] + 1]
    /\ adds' = adds + 1
    /\ UNCHANGED <<dump, supers, job, undone, imports>>

\* In the admin.
Promote ==
    /\ job = Idle
    /\ \E r \in rows :
         /\ r.table = "users" /\ r.id \notin supers
         /\ supers' = supers \cup {r.id}
    /\ UNCHANGED <<dump, rows, seq, job, undone, adds, imports>>

-----------------------------------------------------------------------------
(* The command *)

\* _flush: every row but superusers.
Flushed == {r \in rows : ~(r.table = "users" /\ r.id \in supers)}

Start ==
    /\ job = Idle
    /\ imports < MaxImports
    /\ \E flush \in BOOLEAN :
         job' = [op |-> "load", flush |-> flush, step |-> 1,
                 flushed |-> IF flush THEN Flushed ELSE {}, loaded |-> {}]
    /\ imports' = imports + 1
    /\ UNCHANGED <<dump, rows, supers, seq, undone, adds>>

\* What the transaction sees.
Seen == (rows \ job.flushed) \cup job.loaded

\* Mutant: a row names its flat, and nothing else is looked up.
LookedUpFlat(table) ==
    IF table = "duefees" THEN {"duetens"} ELSE IF table = "duetens" THEN {"duecalc"}
    ELSE Required(table) \cap {"flats"}

\* The rows that must have been loaded, or a row that names them is skipped.
LookedUp(table) ==
    IF table = "duefees" THEN {"duetens"} ELSE IF table = "duetens" THEN {"duecalc"} ELSE Required(table)

Found(r, set) == \A p \in LookedUp(r.table) : Has(set, p, r.names[p])

\* A record names a room and a contract only if they were loaded.
Taken(r) == [r EXCEPT !.names = [p \in DOMAIN r.names |->
    IF p \in Nullable(r.table) /\ ~Has(job.loaded, p, r.names[p]) THEN 0 ELSE r.names[p]]]

Picked(table) == {Taken(r) : r \in {q \in dump : q.table = table /\ Found(q, job.loaded)}}

\* owner() falls back on the first user of the dump; without one the column is NULL.
Inserts(picked) ==
    /\ \A r \in picked : \A q \in Seen \cup (picked \ {r}) : ~Clash(r, q)
    /\ picked # {} => \E u \in job.loaded \cup picked : u.table = "users"

\* One table: bulk_create.
LoadTable ==
    /\ job.op = "load" /\ job.step <= Len(Tables)
    /\ LET picked == Picked(Tables[job.step])
       IN  /\ Inserts(picked)
           /\ job' = [job EXCEPT !.loaded = @ \cup picked, !.step = @ + 1]
    /\ UNCHANGED <<dump, rows, supers, seq, undone, adds, imports>>

\* Mutant: the sequences are left as they are.
NotReset(table) == seq[table]

\* sequence_reset_sql: the greatest primary key the transaction sees, or as new.
Reset(table) ==
    LET ids == {r.id : r \in {q \in Seen : q.table = table}}
    IN  IF ids = {} THEN 0 ELSE CHOOSE id \in ids : \A other \in ids : other <= id

\* _reset_sequences.
ResetSequences ==
    /\ job.op = "load" /\ job.step = Len(Tables) + 1
    /\ seq' = [t \in Range(Tables) |-> Reset(t)]
    /\ job' = [job EXCEPT !.op = "commit"]
    /\ UNCHANGED <<dump, rows, supers, undone, adds, imports>>

\* The foreign keys, which are checked at the end.
Sound == \A r \in job.loaded : \A p \in DOMAIN r.names :
    (r.names[p] = 0 /\ p \in Nullable(r.table)) \/ Has(Seen, p, r.names[p])

Commit ==
    /\ job.op = "commit"
    /\ Sound
    /\ rows' = Seen
    /\ job' = Idle
    /\ UNCHANGED <<dump, supers, seq, undone, adds, imports>>

\* setval is not undone with the rest.
Undo ==
    /\ job' = Idle
    /\ undone' = (undone \/ job.op = "commit")
    /\ UNCHANGED <<dump, rows, supers, seq, adds, imports>>

\* A primary key or a username that is taken, an owner or a parent that is missing.
Fail ==
    /\ \/ job.op = "load" /\ job.step <= Len(Tables) /\ ~Inserts(Picked(Tables[job.step]))
       \/ job.op = "commit" /\ ~Sound
    /\ Undo

\* The process is killed.
Kill ==
    /\ job # Idle
    /\ Undo

Next ==
    \/ \E table \in {"users", "flats"} : SiteAdds(table)
    \/ Promote
    \/ Start \/ LoadTable \/ ResetSequences \/ Commit \/ Fail \/ Kill

Spec == Init /\ [][Next]_vars

-----------------------------------------------------------------------------
(* Properties *)

Closed(set) == \A r \in set : \A p \in Required(r.table) : Has(set, p, r.names[p])

\* The rows that have their parents, who have theirs.
Rooted == UNION {set \in SUBSET dump : Closed(set)}

\* An import that comes to its end after --flush has skipped the rows whose parent is
\* missing, as the head of load_legacy.py says, and no other: a row only refers to what
\* was read before it.  A flat the site added meanwhile may pass for the missing one.
SkipsOrphans == Commit /\ job.flush /\ (\A r \in rows \ job.flushed : r.table # "flats") =>
    {<<r.table, r.id>> : r \in job.loaded} = {<<r.table, r.id>> : r \in Rooted}

\* An import after --flush, which README.md:78 says can be run again, is refused for one of
\* three reasons and never for an orphan of another table: a part of a settlement names a flat
\* that is missing; a row the flush spared, one the site added since or another of the dump has
\* the number or the username of one to be loaded; nobody is to own the rows.
RefusalsListed == Fail /\ job.flush =>
    \/ \E r \in dump : r.table \in {"duetens", "duefees"} /\ ~Has(dump, "flats", r.names["flats"])
    \/ \E r \in dump : \E q \in (rows \ job.flushed) \cup (dump \ {r}) : Clash(r, q)
    \/ \A r \in dump : r.table # "users"

\* The claim of load_legacy.py:17, "skips orphaned child rows whose parent is missing": when
\* the foreign keys are checked, none of the rows that were loaded lacks its parent.
OrphansSkipped == job.op = "commit" => Sound

\* After an import, as before, what the site adds next gets a number that is free, unless
\* an import was undone between resetting the sequences and its end.
NextIdFree == job = Idle /\ ~undone => \A r \in rows : r.id <= seq[r.table]

=============================================================================
