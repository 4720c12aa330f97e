------------------------------- MODULE Wishlist -------------------------------
(***************************************************************************)
(* A problem report or wish of a user: staff set its status in the admin   *)
(* and answer, the user follows up.  Every statement autocommits.  The     *)
(* messages themselves are only ever added and listed, and left out.       *)
(***************************************************************************)
EXTENDS Naturals

CONSTANTS
    Clients,    \* requests that can be in flight together
    Wishes,     \* primary keys of wishes
    MaxSets,    \* bound: times staff set a status
    None        \* the row that does not exist

Statuses == {"open", "in_progress", "done", "rejected", "closed"}

\* WishlistItem.  set and heard are not in the code: when staff last set the status,
\* and when the last reply that came to its end read the wish.
Wish == [status : Statuses, set : Nat, heard : Nat \cup {None}]

Idle == [op |-> "idle"]
Request == {Idle} \cup [op : {"reply", "reopen"}, wish : Wishes, status : Statuses, at : Nat]

VARIABLES
    wishes,   \* WishlistItem rows by primary key
    request,  \* what each in-flight request has read
    sets      \* times staff have set a status

vars == <<wishes, request, sets>>

TypeOK ==
    /\ wishes \in [Wishes -> Wish \cup {None}]
    /\ request \in [Clients -> Request]
    /\ sets \in Nat

Init ==
    /\ wishes = [w \in Wishes |-> None]
    /\ request = [c \in Clients |-> Idle]
    /\ sets = 0

Go(c, r) == request' = [request EXCEPT ![c] = r]

\* WishlistForm.
WishAdd(c) ==
    /\ request[c] = Idle
    /\ \E w \in Wishes :
         /\ wishes[w] = None
         /\ wishes' = [wishes EXCEPT ![w] = [status |-> "open", set |-> 0, heard |-> None]]
    /\ UNCHANGED <<request, sets>>

\* WishlistItemAdmin: the form of one wish, or the list.
StaffSet(c) ==
    /\ request[c] = Idle
    /\ sets < MaxSets
    /\ sets' = sets + 1
    /\ \E w \in Wishes, status \in Statuses :
         /\ wishes[w] # None
         /\ wishes' = [wishes EXCEPT ![w].status = status, ![w].set = sets + 1]
    /\ UNCHANGED request

StaffDelete(c) ==
    /\ request[c] = Idle
    /\ \E w \in Wishes : wishes[w] # None /\ wishes' = [wishes EXCEPT ![w] = None]
    /\ UNCHANGED <<request, sets>>

\* wishlist_reply reads the wish ...
ReplyRead(c) ==
    /\ request[c] = Idle
    /\ \E w \in Wishes :
         /\ wishes[w] # None
         /\ Go(c, [op |-> "reply", wish |-> w, status |-> wishes[w].status, at |-> sets])
    /\ UNCHANGED <<wishes, sets>>

\* ... adds a message; with the wish gone its foreign key fails ...
ReplyWrite(c) ==
    /\ request[c].op = "reply"
    /\ Go(c, IF wishes[request[c].wish] = None THEN Idle ELSE [request[c] EXCEPT !.op = "reopen"])
    /\ UNCHANGED <<wishes, sets>>

\* Mutant: a closed wish stays closed.
ResolvedDone(status) == status = "done"

Resolved(status) == status \in {"done", "closed"}

\* ... and reopens the wish, if it was resolved when it was read and still is there.
ReplyReopen(c) ==
    /\ request[c].op = "reopen"
    /\ wishes' = [w \in Wishes |->
         IF w # request[c].wish \/ wishes[w] = None THEN wishes[w]
         ELSE [wishes[w] EXCEPT !.status = IF Resolved(request[c].status) THEN "open" ELSE @,
                                !.heard = request[c].at]]
    /\ Go(c, Idle)
    /\ UNCHANGED sets

\* A worker is killed between two statements.
Crash(c) ==
    /\ request[c] # Idle
    /\ Go(c, Idle)
    /\ UNCHANGED <<wishes, sets>>

Next == \E c \in Clients :
    \/ WishAdd(c) \/ StaffSet(c) \/ StaffDelete(c)
    \/ ReplyRead(c) \/ ReplyWrite(c) \/ ReplyReopen(c) \/ Crash(c)

Spec == Init /\ [][Next]_vars

-----------------------------------------------------------------------------
(* Properties *)

\* wishlist_reply: a resolved wish is open again "when the user comes back with more to
\* say", unless staff resolved it after the reply had read it.
FollowUpReopens == \A w \in Wishes :
    wishes[w] # None /\ wishes[w].status \in {"done", "closed"} /\ wishes[w].heard # None
        => wishes[w].set > wishes[w].heard

=============================================================================
