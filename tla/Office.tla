--------------------------------- MODULE Office ---------------------------------
(***************************************************************************)
(* Accounts, Correspondence, Wishlist and LegacyImport side by side.  They *)
(* share no row that a property of theirs tells apart: each behaviour is   *)
(* one of them, and the others stay as they start.                         *)
(***************************************************************************)
EXTENDS Accounts

CONSTANTS
    Kinds,         \* kinds of mail with a built-in text
    LetterWrites,  \* bound: serial of templates and letters
    MaxMails,      \* bound: broadcasts sent
    Wishes,        \* primary keys of wishes
    MaxSets,       \* bound: times staff set a status
    Dumps,         \* contents of the old database
    Usernames,     \* what users added while it is loaded are called
    MaxAdds,       \* bound: rows the site adds
    MaxImports,    \* bound: times the command is run
    None           \* SQL NULL

VARIABLES
    part,                                                    \* which of them
    templates, broadcasts, sent, logs, writer, crashes, stamp,
    wishes, reply, sets,
    dump, rows, supers, seq, job, undone, adds, imports

C == INSTANCE Correspondence WITH MaxWrites <- LetterWrites,
        queue <- broadcasts, request <- writer, last <- stamp
W == INSTANCE Wishlist WITH request <- reply
L == INSTANCE LegacyImport

ASSUME OfficeAssumption ==
    /\ MaxAdds \in Nat /\ MaxImports \in Nat /\ Usernames \subseteq Nat
    /\ \A d \in Dumps : IsFiniteSet(d) /\ \A r \in d : L!IsRow(r)

mail == <<templates, broadcasts, sent, logs, writer, crashes, stamp>>
wish == <<wishes, reply, sets>>
import == <<dump, rows, supers, seq, job, undone, adds, imports>>

OfficeInit ==
    /\ part \in {"accounts", "correspondence", "wishlist", "import"}
    /\ Init /\ C!Init /\ W!Init /\ L!Init
    /\ part # "accounts" => users = {}
    /\ part # "import" => dump = {} /\ supers = {}

OfficeNext ==
    \/ part = "accounts" /\ Next /\ UNCHANGED <<part, mail, wish, import>>
    \/ part = "correspondence" /\ C!Next /\ UNCHANGED <<part, vars, wish, import>>
    \/ part = "wishlist" /\ W!Next /\ UNCHANGED <<part, vars, mail, import>>
    \/ part = "import" /\ L!Next /\ UNCHANGED <<part, vars, mail, wish>>

office == <<part, vars, mail, wish, import>>

OfficeSpec == OfficeInit /\ [][OfficeNext]_office
-----------------------------------------------------------------------------
(* The properties of the four modules *)

\* The variables have the types their module says.
OfficeTypeOK ==
    CASE part = "accounts" -> TypeOK
      [] part = "correspondence" -> C!TypeOK
      [] part = "wishlist" -> W!TypeOK
      [] part = "import" -> L!TypeOK

\* What the site stores is well typed, broadcasts have their audit row, and an import
\* leaves every sequence at a number that is free.
OfficeInv == OfficeTypeOK /\ C!BroadcastsLogged /\ L!NextIdFree

\* wishlist_reply: a reply reopens a wish that was resolved when it came.
FollowUpReopens == W!FollowUpReopens

\* Edited templates are used, a restored one keeps all but its text, a visit seeds a second
\* one and a deleted one is back only by what was read before.
TemplatesStand == [][C!TemplatesStand]_mail

\* load_legacy --flush that comes to its end has skipped the rows whose parent is missing, and
\* no other, and one that does not is refused for one of the reasons that RefusalsListed lists.
ImportRuns == [][L!SkipsOrphans /\ L!RefusalsListed]_import

\* load_legacy loads no row whose parent is missing, as it says of itself.
OrphansSkipped == L!OrphansSkipped
=============================================================================
