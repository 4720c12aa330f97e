------------------------------ MODULE OfficeProofs ------------------------------
(* Proofs about Office, checked by TLAPS: what its four modules keep. *)
EXTENDS Office, Sequences, SumLemmas

(***************************************************************************)
(* A step of the office is a step of the one of its modules that is its    *)
(* part, and none of the others.                                           *)
(***************************************************************************)

LEMMA AccountSteps == [OfficeNext]_office => [Next]_vars
BY DEF OfficeNext, office

LEMMA MailSteps == [OfficeNext]_office => [C!Next]_C!vars
BY DEF OfficeNext, office, mail, C!vars

LEMMA WishSteps == [OfficeNext]_office => [W!Next]_W!vars
BY DEF OfficeNext, office, wish, W!vars

LEMMA ImportSteps == [OfficeNext]_office => [L!Next]_L!vars
BY DEF OfficeNext, office, import, L!vars

(***************************************************************************)
(* Wishes: their types.                                                    *)
(***************************************************************************)

LEMMA ReplyTyped ==
    ASSUME W!TypeOK, NEW c \in Clients, reply[c] # W!Idle
    PROVE  /\ reply[c].wish \in Wishes /\ reply[c].at \in Nat
           /\ reply[c].op \in {"reply", "reopen"} /\ reply[c].status \in W!Statuses
BY DEF W!TypeOK, W!Request

LEMMA ReplyBusy == \A c : reply[c].op \in {"reply", "reopen"} => reply[c] # W!Idle
BY DEF W!Idle

\* One wish less the reply's is as it was.
LEMMA ReopenedWish ==
    ASSUME W!TypeOK, NEW c \in Clients, W!ReplyReopen(c), NEW w \in Wishes, wishes'[w] # None
    PROVE  /\ wishes[w] # None /\ wishes'[w] \in W!Wish
           /\ \/ wishes'[w] = wishes[w]
              \/ /\ wishes'[w].set = wishes[w].set
                 /\ wishes'[w].heard = reply[c].at
                 /\ wishes'[w].status = IF W!Resolved(reply[c].status) THEN "open"
                                        ELSE wishes[w].status
<1>1. reply[c].at \in Nat
  <2>1. reply[c].op = "reopen"
    BY DEF W!ReplyReopen
  <2> QED
    BY <2>1, ReplyBusy, ReplyTyped
<1>2. wishes[w] \in W!Wish \cup {None}
  BY DEF W!TypeOK
<1>3. CASE w # reply[c].wish \/ wishes[w] = None
  BY <1>2, <1>3 DEF W!ReplyReopen
<1>4. CASE w = reply[c].wish /\ wishes[w] # None
  <2>1. wishes'[w] = [wishes[w] EXCEPT
                        !.status = IF W!Resolved(reply[c].status) THEN "open" ELSE @,
                        !.heard = reply[c].at]
    BY <1>4 DEF W!ReplyReopen
  <2> QED
    BY <1>1, <1>2, <1>4, <2>1 DEF W!Wish, W!Statuses
<1> QED
  BY <1>3, <1>4

LEMMA WishTypeStep == W!TypeOK /\ [W!Next]_W!vars => W!TypeOK'
<1> SUFFICES ASSUME W!TypeOK, [W!Next]_W!vars PROVE W!TypeOK'
  OBVIOUS
<1> USE DEF W!TypeOK, W!Go
<1>1. ASSUME NEW c \in Clients, W!WishAdd(c) PROVE W!TypeOK'
  BY <1>1 DEF W!WishAdd, W!Wish, W!Statuses
<1>2. ASSUME NEW c \in Clients, W!StaffSet(c) PROVE W!TypeOK'
  <2>1. PICK w \in Wishes, status \in W!Statuses :
          /\ wishes[w] # None
          /\ wishes' = [wishes EXCEPT ![w].status = status, ![w].set = sets + 1]
    BY <1>2 DEF W!StaffSet
  <2>2. wishes[w] \in W!Wish /\ sets + 1 \in Nat
    BY <2>1
  <2>3. [wishes[w] EXCEPT !.status = status, !.set = sets + 1] \in W!Wish
    BY <2>2 DEF W!Wish
  <2>4. wishes' = [wishes EXCEPT ![w] = [wishes[w] EXCEPT !.status = status, !.set = sets + 1]]
    BY <2>1
  <2>5. wishes' \in [Wishes -> W!Wish \cup {None}]
    BY <2>3, <2>4
  <2> QED
    BY <1>2, <2>5 DEF W!StaffSet
<1>3. ASSUME NEW c \in Clients, W!StaffDelete(c) PROVE W!TypeOK'
  BY <1>3 DEF W!StaffDelete
<1>4. ASSUME NEW c \in Clients, W!ReplyRead(c) PROVE W!TypeOK'
  BY <1>4 DEF W!ReplyRead, W!Request, W!Wish
<1>5. ASSUME NEW c \in Clients, W!ReplyWrite(c) PROVE W!TypeOK'
  BY <1>5 DEF W!ReplyWrite, W!Request, W!Idle
<1>6. ASSUME NEW c \in Clients, W!ReplyReopen(c) PROVE W!TypeOK'
  <2>1. \A w \in Wishes : wishes'[w] \in W!Wish \cup {None}
    BY <1>6, ReopenedWish
  <2>2. wishes' = [w \in Wishes |-> wishes'[w]]
    BY <1>6 DEF W!ReplyReopen
  <2> QED
    BY <1>6, <2>1, <2>2 DEF W!ReplyReopen, W!Request
<1>7. ASSUME NEW c \in Clients, W!Crash(c) PROVE W!TypeOK'
  BY <1>7 DEF W!Crash, W!Request
<1>8. CASE UNCHANGED W!vars
  BY <1>8 DEF W!vars
<1>9. W!Next \/ UNCHANGED W!vars
  BY DEF W!vars
<1> QED
  BY <1>1, <1>2, <1>3, <1>4, <1>5, <1>6, <1>7, <1>8, <1>9 DEF W!Next

(***************************************************************************)
(* Replies.                                                                *)
(***************************************************************************)

\* Replies read, and were heard, at times that have been.
TimesBehind ==
    /\ \A c \in Clients : reply[c] # W!Idle => reply[c].at <= sets
    /\ \A w \in Wishes : wishes[w] # None /\ wishes[w].heard # None => wishes[w].heard <= sets

\* A wish that is resolved was so when the reply read it, or was resolved since.
ReadsStand ==
    \A c \in Clients :
        /\ reply[c] # W!Idle
        /\ wishes[reply[c].wish] # None
        /\ W!Resolved(wishes[reply[c].wish].status)
        => W!Resolved(reply[c].status) \/ wishes[reply[c].wish].set > reply[c].at

ReplyInv == TimesBehind /\ ReadsStand /\ W!FollowUpReopens

LEMMA ReplyStep == W!TypeOK /\ ReplyInv /\ [W!Next]_W!vars => ReplyInv'
<1> SUFFICES ASSUME W!TypeOK, ReplyInv, [W!Next]_W!vars PROVE ReplyInv'
  OBVIOUS
<1> USE DEF ReplyInv, TimesBehind, ReadsStand, W!FollowUpReopens, W!Resolved
<1>w. \A w \in Wishes : wishes[w] # None => wishes[w] \in W!Wish
  BY DEF W!TypeOK
<1>1. ASSUME NEW c \in Clients, W!WishAdd(c) PROVE ReplyInv'
  <2>1. PICK w \in Wishes :
          /\ wishes[w] = None
          /\ wishes' = [wishes EXCEPT ![w] = [status |-> "open", set |-> 0, heard |-> None]]
    BY <1>1 DEF W!WishAdd
  <2>2. wishes \in [Wishes -> W!Wish \cup {None}]
    BY DEF W!TypeOK
  <2>3. wishes'[w].status = "open" /\ wishes'[w].heard = None
        /\ \A v \in Wishes : v # w => wishes'[v] = wishes[v]
    BY <2>1, <2>2
  <2>4. UNCHANGED <<reply, sets>>
    BY <1>1 DEF W!WishAdd
  <2>5. \A d \in Clients : reply[d] # W!Idle => reply[d].wish \in Wishes
    BY ReplyTyped
  <2> QED
    BY <2>3, <2>4, <2>5
<1>2. ASSUME NEW c \in Clients, W!StaffSet(c) PROVE ReplyInv'
  <2>1. PICK w \in Wishes, status \in W!Statuses :
          /\ wishes[w] # None
          /\ wishes' = [wishes EXCEPT ![w].status = status, ![w].set = sets + 1]
    BY <1>2 DEF W!StaffSet
  <2>2. /\ wishes'[w].set = sets + 1 /\ wishes'[w].heard = wishes[w].heard
        /\ \A v \in Wishes : v # w => wishes'[v] = wishes[v]
    BY <1>w, <2>1 DEF W!TypeOK, W!Wish
  <2>3. sets \in Nat /\ sets' = sets + 1 /\ reply' = reply
    BY <1>2 DEF W!StaffSet, W!TypeOK
  <2>4. \A d \in Clients : reply[d] # W!Idle => /\ reply[d].wish \in Wishes
                                                /\ reply[d].at \in Nat
                                                /\ reply[d].at <= sets
    BY ReplyTyped
  <2>5. \A v \in Wishes : wishes[v] # None /\ wishes[v].heard # None =>
                            wishes[v].heard \in Nat /\ wishes[v].heard <= sets
    BY <1>w DEF W!Wish
  <2> HIDE DEF W!Resolved
  <2>w. \A v \in Wishes : wishes'[v] # None => wishes[v] # None /\ wishes'[v].heard = wishes[v].heard
    BY <2>1, <2>2
  <2>6. TimesBehind'
    <3>1. \A d \in Clients : reply'[d] # W!Idle => reply'[d].at <= sets'
      BY <2>3, <2>4
    <3>2. \A v \in Wishes : wishes'[v] # None /\ wishes'[v].heard # None => wishes'[v].heard <= sets'
      BY <2>w, <2>3, <2>5
    <3> QED
      BY <3>1, <3>2
  <2>7. ReadsStand'
    BY <2>2, <2>3, <2>4
  <2>8. W!FollowUpReopens'
    <3> SUFFICES ASSUME NEW v \in Wishes, wishes'[v] # None,
                        wishes'[v].status \in {"done", "closed"}, wishes'[v].heard # None
                 PROVE  wishes'[v].set > wishes'[v].heard
      OBVIOUS
    <3>1. CASE v = w
      BY <2>w, <2>2, <2>3, <2>5, <3>1
    <3>2. CASE v # w
      BY <2>2, <3>2
    <3> QED
      BY <3>1, <3>2
  <2> QED
    BY <2>6, <2>7, <2>8
<1>3. ASSUME NEW c \in Clients, W!StaffDelete(c) PROVE ReplyInv'
  <2>1. \A w \in Wishes : wishes'[w] # None => wishes'[w] = wishes[w]
    BY <1>3 DEF W!StaffDelete, W!TypeOK
  <2>2. \A d \in Clients : reply[d] # W!Idle => reply[d].wish \in Wishes
    BY ReplyTyped
  <2> QED
    BY <1>3, <2>1, <2>2 DEF W!StaffDelete
<1>4. ASSUME NEW c \in Clients, W!ReplyRead(c) PROVE ReplyInv'
  <2>1. PICK w \in Wishes :
          /\ wishes[w] # None
          /\ reply' = [reply EXCEPT ![c] =
               [op |-> "reply", wish |-> w, status |-> wishes[w].status, at |-> sets]]
    BY <1>4 DEF W!ReplyRead, W!Go
  <2>2. /\ reply'[c].wish = w /\ reply'[c].status = wishes[w].status /\ reply'[c].at = sets
        /\ \A d \in Clients : d # c => reply'[d] = reply[d]
    BY <2>1 DEF W!TypeOK
  <2>3. sets \in Nat /\ UNCHANGED <<wishes, sets>>
    BY <1>4 DEF W!ReplyRead, W!TypeOK
  <2> QED
    BY <2>2, <2>3
<1>5. ASSUME NEW c \in Clients, NEW r, reply' = [reply EXCEPT ![c] = r],
             r = W!Idle \/ (reply[c] # W!Idle /\ r = [reply[c] EXCEPT !.op = "reopen"]),
             UNCHANGED <<wishes, sets>>
      PROVE  ReplyInv'
  <2>1. /\ reply'[c] = r
        /\ \A d \in Clients : d # c => reply'[d] = reply[d]
    BY <1>5 DEF W!TypeOK
  <2>2. CASE r = W!Idle
    BY <1>5, <2>1, <2>2
  <2>3. CASE reply[c] # W!Idle /\ r = [reply[c] EXCEPT !.op = "reopen"]
    <3>1. r.wish = reply[c].wish /\ r.status = reply[c].status /\ r.at = reply[c].at
      BY <2>3 DEF W!TypeOK, W!Request
    <3> QED
      BY <1>5, <2>1, <2>3, <3>1
  <2> QED
    BY <1>5, <2>2, <2>3
<1>6. ASSUME NEW c \in Clients, W!ReplyWrite(c) PROVE ReplyInv'
  <2>1. reply[c] # W!Idle
    BY <1>6 DEF W!ReplyWrite, W!Idle
  <2> QED
    BY <1>5, <1>6, <2>1 DEF W!ReplyWrite, W!Go
<1>7. ASSUME NEW c \in Clients, W!Crash(c) PROVE ReplyInv'
  BY <1>5, <1>7 DEF W!Crash, W!Go
<1>8. ASSUME NEW c \in Clients, W!ReplyReopen(c) PROVE ReplyInv'
  <2>1. reply[c] # W!Idle /\ reply[c].at \in Nat /\ reply[c].wish \in Wishes
    <3>1. reply[c].op = "reopen"
      BY <1>8 DEF W!ReplyReopen
    <3> QED
      BY <3>1, ReplyBusy, ReplyTyped
  <2>2. /\ reply'[c] = W!Idle /\ sets' = sets
        /\ \A d \in Clients : d # c => reply'[d] = reply[d]
    BY <1>8 DEF W!ReplyReopen, W!Go, W!TypeOK
  <2>3. \A w \in Wishes : wishes'[w] # None =>
          /\ wishes[w] # None
          /\ wishes'[w].set = wishes[w].set
          /\ wishes'[w].heard = wishes[w].heard \/ wishes'[w].heard = reply[c].at
          /\ W!Resolved(wishes'[w].status) => wishes'[w].status = wishes[w].status
    BY <1>8, ReopenedWish
  <2>4. TimesBehind'
    BY <2>1, <2>2, <2>3
  <2>5. ReadsStand'
    <3> SUFFICES ASSUME NEW d \in Clients, reply'[d] # W!Idle, wishes'[reply'[d].wish] # None,
                        W!Resolved(wishes'[reply'[d].wish].status)
                 PROVE  \/ W!Resolved(reply'[d].status)
                        \/ wishes'[reply'[d].wish].set > reply'[d].at
      OBVIOUS
    <3>1. reply'[d] = reply[d] /\ reply[d].wish \in Wishes
      BY <2>2, ReplyTyped
    <3> QED
      BY <2>3, <3>1
  <2>6. W!FollowUpReopens'
    <3> SUFFICES ASSUME NEW w \in Wishes, wishes'[w] # None,
                        W!Resolved(wishes'[w].status), wishes'[w].heard # None
                 PROVE  wishes'[w].set > wishes'[w].heard
      OBVIOUS
    <3>1. CASE wishes'[w] = wishes[w]
      BY <3>1
    <3>2. CASE wishes'[w] # wishes[w]
      <4>1. /\ w = reply[c].wish
            /\ wishes'[w].heard = reply[c].at
            /\ wishes'[w].status = IF W!Resolved(reply[c].status) THEN "open" ELSE wishes[w].status
        BY <1>8, <3>2, ReopenedWish DEF W!ReplyReopen
      <4>2. ~W!Resolved(reply[c].status) /\ W!Resolved(wishes[w].status)
        BY <4>1
      <4> QED
        BY <2>1, <2>3, <4>1, <4>2
    <3> QED
      BY <3>1, <3>2
  <2> QED
    BY <2>4, <2>5, <2>6
<1>9. CASE UNCHANGED W!vars
  BY <1>9 DEF W!vars
<1>10. W!Next \/ UNCHANGED W!vars
  BY DEF W!vars
<1> QED
  BY <1>1, <1>2, <1>3, <1>4, <1>6, <1>7, <1>8, <1>9, <1>10 DEF W!Next

\* Whoever replies and sets the status in whatever order, a wish is not left resolved after
\* a reply that read it as resolved.
THEOREM FollowUpsAreSeen == OfficeSpec => []FollowUpReopens
<1>1. OfficeInit => W!TypeOK /\ ReplyInv
  BY DEF OfficeInit, W!Init, W!TypeOK, W!Request, ReplyInv, TimesBehind, ReadsStand,
         W!FollowUpReopens
<1>2. W!TypeOK /\ ReplyInv /\ [OfficeNext]_office => W!TypeOK' /\ ReplyInv'
  BY WishSteps, WishTypeStep, ReplyStep
<1>3. W!TypeOK /\ ReplyInv => FollowUpReopens
  BY DEF ReplyInv, FollowUpReopens
<1> QED
  BY <1>1, <1>2, <1>3, PTL DEF OfficeSpec

(***************************************************************************)
(* Templates: their types, and what a seeding knows of them.               *)
(***************************************************************************)

LEMMA WriterTyped ==
    ASSUME C!TypeOK, NEW c \in Clients
    PROVE  /\ writer[c].op \in {"edit", "restore"} => writer[c].row \in C!Template
           /\ writer[c].op = "seed" =>
                /\ writer[c].kind \in Kinds /\ writer[c].at \in Nat
                /\ writer[c].todo \in SUBSET Kinds
           /\ writer[c].op = "hub" => writer[c].todo \in SUBSET Kinds
           /\ writer[c].op \in {"send", "log"} => writer[c].letter \in C!Letter
<1>1. writer[c] \in C!Request
  BY DEF C!TypeOK
<1> QED
  BY <1>1 DEF C!Request, C!Idle

\* What a form leaves of the row it read.
Edited(new, row, kind, active) ==
    /\ new \in C!Template
    /\ new.id = row.id /\ new.kind = kind /\ new.active = active
    /\ new.text = C!Own /\ new.updated = stamp + 1

\* A row that replaces another: a new one, an edited one or a restored one.
LEMMA RowsTyped ==
    ASSUME C!TypeOK, stamp \in Nat
    PROVE  /\ \A kind \in Kinds \cup {"custom"}, text \in Kinds \cup {C!Own}, active \in BOOLEAN :
                [id |-> stamp + 1, kind |-> kind, text |-> text,
                 active |-> active, updated |-> stamp + 1] \in C!Template
           /\ \A row \in C!Template, kind \in Kinds \cup {"custom"}, active \in BOOLEAN :
                Edited(C!Stamped([row EXCEPT !.kind = kind, !.active = active, !.text = C!Own],
                                 stamp + 1), row, kind, active)
           /\ \A row, t \in C!Template :
                /\ C!Restored(row, t) \in C!Template
                /\ C!Restored(row, t).id = t.id /\ C!Restored(row, t).kind = t.kind
                /\ C!Restored(row, t).active = t.active
                /\ C!Restored(row, t).updated = t.updated
<1>1. ASSUME NEW kind \in Kinds \cup {"custom"}, NEW text \in Kinds \cup {C!Own}, NEW active \in BOOLEAN
      PROVE  [id |-> stamp + 1, kind |-> kind, text |-> text,
              active |-> active, updated |-> stamp + 1] \in C!Template
  BY <1>1 DEF C!Template
<1>2. ASSUME NEW row \in C!Template, NEW kind \in Kinds \cup {"custom"}, NEW active \in BOOLEAN
      PROVE  Edited(C!Stamped([row EXCEPT !.kind = kind, !.active = active, !.text = C!Own],
                              stamp + 1), row, kind, active)
  <2> DEFINE form == [row EXCEPT !.kind = kind, !.active = active, !.text = C!Own]
  <2>1. /\ form \in C!Template /\ form.id = row.id /\ form.kind = kind
        /\ form.active = active /\ form.text = C!Own
    BY DEF C!Template
  <2>2. stamp + 1 \in Nat
    OBVIOUS
  <2> HIDE DEF form
  <2>3. Edited(C!Stamped(form, stamp + 1), row, kind, active)
    BY <2>1, <2>2 DEF C!Template, C!Stamped, Edited
  <2> QED
    BY <2>3 DEF form
<1>3. ASSUME NEW row \in C!Template, NEW t \in C!Template
      PROVE  /\ C!Restored(row, t) \in C!Template
             /\ C!Restored(row, t).id = t.id /\ C!Restored(row, t).kind = t.kind
             /\ C!Restored(row, t).active = t.active
             /\ C!Restored(row, t).updated = t.updated
  BY <1>3 DEF C!Template, C!Restored
<1> QED
  BY <1>1, <1>2, <1>3

LEMMA EditShape ==
    ASSUME C!TypeOK, NEW c \in Clients, C!TemplateEdit(c)
    PROVE  /\ writer[c].row \in C!Template /\ stamp' = stamp + 1
           /\ \E kind \in Kinds \cup {"custom"}, active \in BOOLEAN, new \in C!Template :
                /\ templates' = C!Others(writer[c].row.id) \cup {new}
                /\ Edited(new, writer[c].row, kind, active)
<1>0. stamp \in Nat
  BY DEF C!TypeOK
<1>1. writer[c].row \in C!Template
  BY WriterTyped DEF C!TemplateEdit
<1>2. PICK kind \in Kinds \cup {"custom"}, active \in BOOLEAN :
        templates' = C!Others(writer[c].row.id) \cup
          {C!Stamped([writer[c].row EXCEPT !.kind = kind, !.active = active, !.text = C!Own],
                     stamp + 1)}
  BY <1>1 DEF C!TemplateEdit, C!Template
<1> DEFINE new == C!Stamped([writer[c].row EXCEPT !.kind = kind, !.active = active, !.text = C!Own],
                            stamp + 1)
<1>3. Edited(new, writer[c].row, kind, active)
  BY <1>0, <1>1, RowsTyped
<1> HIDE DEF new
<1>4. templates' = C!Others(writer[c].row.id) \cup {new}
  BY <1>2 DEF new
<1> QED
  BY <1>1, <1>3, <1>4 DEF Edited, C!TemplateEdit, C!Fresh

LEMMA MailTypeStep == C!TypeOK /\ [C!Next]_C!vars => C!TypeOK'
<1> SUFFICES ASSUME C!TypeOK, [C!Next]_C!vars PROVE C!TypeOK'
  OBVIOUS
<1>0. /\ templates \subseteq C!Template /\ broadcasts \subseteq Nat \cup {None}
      /\ sent \subseteq C!Letter /\ logs \subseteq C!Letter
      /\ writer \in [Clients -> C!Request] /\ crashes \in Nat /\ stamp \in Nat
  BY DEF C!TypeOK
<1>r. C!Idle \in C!Request /\ \A todo \in SUBSET Kinds : [op |-> "hub", todo |-> todo] \in C!Request
  BY DEF C!Request
<1>w. ASSUME NEW c \in Clients, NEW r \in C!Request, C!Go(c, r)
      PROVE  writer' \in [Clients -> C!Request]
  BY <1>0, <1>w DEF C!Go
<1>1. ASSUME NEW c \in Clients, C!HubVisit(c) PROVE C!TypeOK'
  BY <1>0, <1>1, <1>r, <1>w DEF C!HubVisit, C!TypeOK, C!mail
<1>2. ASSUME NEW c \in Clients, C!SeedCheck(c) PROVE C!TypeOK'
  <2>1. PICK kind \in writer[c].todo :
          C!Go(c, IF C!Lacks(kind)
                  THEN [op |-> "seed", todo |-> writer[c].todo \ {kind}, kind |-> kind, at |-> stamp]
                  ELSE IF writer[c].todo \ {kind} = {} THEN C!Idle
                       ELSE [op |-> "hub", todo |-> writer[c].todo \ {kind}])
    BY <1>2 DEF C!SeedCheck
  <2>2. writer[c].todo \in SUBSET Kinds
    BY <1>2, WriterTyped DEF C!SeedCheck
  <2>3. [op |-> "seed", todo |-> writer[c].todo \ {kind}, kind |-> kind, at |-> stamp] \in C!Request
    BY <1>0, <2>2 DEF C!Request
  <2>4. writer' \in [Clients -> C!Request]
    BY <1>r, <1>w, <2>1, <2>2, <2>3
  <2> QED
    BY <1>0, <1>2, <2>4 DEF C!SeedCheck, C!TypeOK, C!mail
<1>3. ASSUME NEW c \in Clients, C!SeedCreate(c) PROVE C!TypeOK'
  <2>1. writer[c].todo \in SUBSET Kinds /\ writer[c].kind \in Kinds
    BY <1>3, WriterTyped DEF C!SeedCreate
  <2>2. writer' \in [Clients -> C!Request]
    BY <1>3, <1>r, <1>w, <2>1 DEF C!SeedCreate
  <2>3. [id |-> stamp + 1, kind |-> writer[c].kind, text |-> writer[c].kind,
         active |-> TRUE, updated |-> stamp + 1] \in C!Template
    BY <1>0, <2>1, RowsTyped
  <2>4. templates' \subseteq C!Template
    BY <1>0, <1>3, <2>3 DEF C!SeedCreate
  <2> QED
    BY <1>0, <1>3, <2>2, <2>4 DEF C!SeedCreate, C!Fresh, C!TypeOK, C!mail
<1>4. ASSUME NEW c \in Clients, C!TemplateAdd(c) PROVE C!TypeOK'
  <2>1. PICK kind \in Kinds \cup {"custom"}, active \in BOOLEAN :
          templates' = templates \cup {[id |-> stamp + 1, kind |-> kind, text |-> C!Own,
                                        active |-> active, updated |-> stamp + 1]}
    BY <1>4 DEF C!TemplateAdd
  <2>2. [id |-> stamp + 1, kind |-> kind, text |-> C!Own,
         active |-> active, updated |-> stamp + 1] \in C!Template
    BY <1>0, RowsTyped
  <2>3. templates' \subseteq C!Template
    BY <1>0, <2>1, <2>2
  <2> QED
    BY <1>0, <1>4, <2>3 DEF C!TemplateAdd, C!Fresh, C!TypeOK, C!mail
<1>5. ASSUME NEW c \in Clients, C!TemplateRead(c) PROVE C!TypeOK'
  <2>1. PICK t \in templates, op \in {"edit", "restore"} : C!Go(c, [op |-> op, row |-> t])
    BY <1>5 DEF C!TemplateRead
  <2>2. [op |-> op, row |-> t] \in C!Request
    BY <1>0 DEF C!Request
  <2>3. writer' \in [Clients -> C!Request]
    BY <1>w, <2>1, <2>2
  <2> QED
    BY <1>0, <1>5, <2>3 DEF C!TemplateRead, C!TypeOK, C!mail
<1>6. ASSUME NEW c \in Clients, C!TemplateEdit(c) PROVE C!TypeOK'
  <2>1. templates' \subseteq C!Template
    BY <1>0, <1>6, EditShape DEF C!Others
  <2> QED
    BY <1>0, <1>6, <1>r, <1>w, <2>1 DEF C!TemplateEdit, C!Done, C!Fresh, C!TypeOK, C!mail
<1>7. ASSUME NEW c \in Clients, C!TemplateRestore(c) PROVE C!TypeOK'
  <2>1. writer[c].row \in C!Template
    BY <1>7, WriterTyped DEF C!TemplateRestore
  <2>2. templates' \subseteq C!Template
    BY <1>0, <1>7, <2>1, RowsTyped DEF C!TemplateRestore
  <2> QED
    BY <1>0, <1>7, <1>r, <1>w, <2>2 DEF C!TemplateRestore, C!Done, C!TypeOK, C!mail
<1>8. ASSUME NEW c \in Clients, C!TemplateDelete(c) PROVE C!TypeOK'
  <2>1. \A l \in logs : [l EXCEPT !.template = None] \in C!Letter
    BY <1>0 DEF C!Letter
  <2>2. logs' \subseteq C!Letter
    BY <1>0, <1>8, <2>1 DEF C!TemplateDelete
  <2> QED
    BY <1>0, <1>8, <2>2 DEF C!TemplateDelete, C!TypeOK
<1>9. ASSUME NEW c \in Clients, C!Queue(c) PROVE C!TypeOK'
  <2>1. \A t \in templates : t.id \in Nat
    BY <1>0 DEF C!Template
  <2> QED
    BY <1>0, <1>9, <2>1 DEF C!Queue, C!TypeOK
<1>10. ASSUME NEW c \in Clients, C!TakeBroadcast(c) PROVE C!TypeOK'
  <2>1. PICK t \in broadcasts :
          /\ broadcasts' = broadcasts \ {t}
          /\ \E r \in {C!Idle, [op |-> "send", letter |-> [id |-> stamp + 1,
                                                           template |-> C!Found(t)]]} :
               C!Go(c, r)
    BY <1>10 DEF C!TakeBroadcast
  <2>2. C!Found(t) \in Nat \cup {None}
    BY <1>0 DEF C!Found
  <2>3. [op |-> "send", letter |-> [id |-> stamp + 1, template |-> C!Found(t)]] \in C!Request
    BY <1>0, <2>2 DEF C!Request, C!Letter
  <2>4. writer' \in [Clients -> C!Request]
    BY <1>r, <1>w, <2>1, <2>3
  <2> QED
    BY <1>0, <1>10, <2>1, <2>4 DEF C!TakeBroadcast, C!Fresh, C!TypeOK
<1>11. ASSUME NEW c \in Clients, C!SendBroadcast(c) PROVE C!TypeOK'
  <2>1. writer[c].letter \in C!Letter
    BY <1>11, WriterTyped DEF C!SendBroadcast
  <2>2. [op |-> "log", letter |-> writer[c].letter] \in C!Request
    BY <2>1 DEF C!Request
  <2>3. writer' \in [Clients -> C!Request]
    BY <1>11, <1>w, <2>2 DEF C!SendBroadcast
  <2> QED
    BY <1>0, <1>11, <2>1, <2>3 DEF C!SendBroadcast, C!TypeOK
<1>12. ASSUME NEW c \in Clients, C!LogBroadcast(c) PROVE C!TypeOK'
  <2>1. writer[c].letter \in C!Letter
    BY <1>12, WriterTyped DEF C!LogBroadcast
  <2> QED
    BY <1>0, <1>12, <1>r, <1>w, <2>1 DEF C!LogBroadcast, C!Done, C!TypeOK
<1>13. ASSUME NEW c \in Clients, C!Crash(c) PROVE C!TypeOK'
  BY <1>0, <1>13, <1>r, <1>w DEF C!Crash, C!Done, C!TypeOK, C!mail
<1>14. CASE UNCHANGED C!vars
  BY <1>14 DEF C!vars, C!TypeOK
<1> QED
  BY <1>1, <1>2, <1>3, <1>4, <1>5, <1>6, <1>7, <1>8, <1>9, <1>10, <1>11, <1>12, <1>13, <1>14
     DEF C!Next

\* Every template was saved at a time that has been, and those of the kind a seeding found
\* none of after it looked.
Seeding ==
    /\ \A t \in templates : t.updated <= stamp
    /\ \A c \in Clients : writer[c].op = "seed" =>
         /\ writer[c].at <= stamp
         /\ \A t \in C!OfKind(writer[c].kind) : t.updated > writer[c].at

\* A template after a step has its kind and stamp from one before it, or a new stamp.
LEMMA StampedAnew ==
    ASSUME C!TypeOK, [C!Next]_C!vars
    PROVE  /\ stamp' \in Nat /\ stamp <= stamp'
           /\ \A t \in templates' :
                \/ \E u \in templates : t.kind = u.kind /\ t.updated = u.updated
                \/ t.updated = stamp + 1 /\ stamp' = stamp + 1
<1> DEFINE Anew == \A t \in templates' :
                     \/ \E u \in templates : t.kind = u.kind /\ t.updated = u.updated
                     \/ t.updated = stamp + 1 /\ stamp' = stamp + 1
<1>0. templates \subseteq C!Template /\ stamp \in Nat
  BY DEF C!TypeOK
<1>1. ASSUME NEW c \in Clients, C!SeedCreate(c) PROVE Anew
  BY <1>1 DEF C!SeedCreate, C!Fresh
<1>2. ASSUME NEW c \in Clients, C!TemplateAdd(c) PROVE Anew
  BY <1>2 DEF C!TemplateAdd, C!Fresh
<1>3. ASSUME NEW c \in Clients, C!TemplateEdit(c) PROVE Anew
  BY <1>3, EditShape DEF Edited, C!Others
<1>4. ASSUME NEW c \in Clients, C!TemplateRestore(c) PROVE Anew
  <2>1. writer[c].row \in C!Template
    BY <1>4, WriterTyped DEF C!TemplateRestore
  <2>2. ASSUME NEW t \in templates'
        PROVE  \E u \in templates : t.kind = u.kind /\ t.updated = u.updated
    <3>1. PICK u \in templates :
            t = IF u.id = writer[c].row.id THEN C!Restored(writer[c].row, u) ELSE u
      BY <1>4 DEF C!TemplateRestore
    <3>2. t.kind = u.kind /\ t.updated = u.updated
      BY <1>0, <2>1, <3>1, RowsTyped
    <3> QED
      BY <3>2
  <2> QED
    BY <2>2
<1>5. ASSUME NEW c \in Clients, C!TemplateDelete(c) PROVE Anew
  <2>1. templates' \subseteq templates
    BY <1>5 DEF C!TemplateDelete
  <2> QED
    BY <2>1
<1>6. ASSUME UNCHANGED templates PROVE Anew
  BY <1>6
<1>7. Anew
  BY <1>1, <1>2, <1>3, <1>4, <1>5, <1>6
     DEF C!Next, C!vars, C!HubVisit, C!SeedCheck, C!TemplateRead, C!Queue, C!TakeBroadcast,
         C!SendBroadcast, C!LogBroadcast, C!Crash
<1>8. stamp' = stamp \/ stamp' = stamp + 1
  BY DEF C!Next, C!vars, C!HubVisit, C!SeedCheck, C!SeedCreate, C!TemplateAdd, C!TemplateRead,
         C!TemplateEdit, C!TemplateRestore, C!TemplateDelete, C!Queue, C!TakeBroadcast,
         C!SendBroadcast, C!LogBroadcast, C!Crash, C!Fresh
<1> QED
  BY <1>0, <1>7, <1>8

\* A seeding after a step was one before it, or has just found no template of its kind.
LEMMA SeedsAnew ==
    ASSUME C!TypeOK, [C!Next]_C!vars, NEW d \in Clients, writer'[d].op = "seed"
    PROVE  \/ writer'[d] = writer[d]
           \/ /\ writer'[d].at = stamp /\ C!OfKind(writer'[d].kind) = {}
              /\ UNCHANGED <<templates, stamp>>
<1>0. writer \in [Clients -> C!Request]
  BY DEF C!TypeOK
<1>1. ASSUME NEW c \in Clients, NEW r, C!Go(c, r), r.op # "seed" PROVE writer'[d] = writer[d]
  BY <1>0, <1>1 DEF C!Go
<1>2. C!Idle.op # "seed"
  BY DEF C!Idle
<1>3. ASSUME NEW c \in Clients, C!SeedCheck(c)
      PROVE  \/ writer'[d] = writer[d]
             \/ /\ writer'[d].at = stamp /\ C!OfKind(writer'[d].kind) = {}
                /\ UNCHANGED <<templates, stamp>>
  <2>1. PICK kind \in writer[c].todo :
          C!Go(c, IF C!Lacks(kind)
                  THEN [op |-> "seed", todo |-> writer[c].todo \ {kind}, kind |-> kind, at |-> stamp]
                  ELSE IF writer[c].todo \ {kind} = {} THEN C!Idle
                       ELSE [op |-> "hub", todo |-> writer[c].todo \ {kind}])
    BY <1>3 DEF C!SeedCheck
  <2>2. UNCHANGED <<templates, stamp>>
    BY <1>3 DEF C!SeedCheck
  <2>3. CASE C!Lacks(kind)
    BY <1>0, <2>1, <2>2, <2>3 DEF C!Go, C!Lacks
  <2>4. CASE ~C!Lacks(kind)
    BY <1>1, <1>2, <2>1, <2>4
  <2> QED
    BY <2>3, <2>4
<1>4. ASSUME NEW c \in Clients,
             C!HubVisit(c) \/ C!SeedCreate(c) \/ C!TemplateRead(c) \/ C!TemplateEdit(c)
               \/ C!TemplateRestore(c) \/ C!TakeBroadcast(c) \/ C!SendBroadcast(c)
               \/ C!LogBroadcast(c) \/ C!Crash(c)
      PROVE  writer'[d] = writer[d]
  <2>1. CASE C!HubVisit(c) \/ C!SeedCreate(c)
    BY <1>1, <1>2, <2>1 DEF C!HubVisit, C!SeedCreate
  <2>2. CASE C!TemplateRead(c)
    BY <1>1, <2>2 DEF C!TemplateRead
  <2>3. CASE C!TemplateEdit(c) \/ C!TemplateRestore(c) \/ C!LogBroadcast(c) \/ C!Crash(c)
    BY <1>1, <1>2, <2>3 DEF C!TemplateEdit, C!TemplateRestore, C!LogBroadcast, C!Crash, C!Done
  <2>4. CASE C!TakeBroadcast(c) \/ C!SendBroadcast(c)
    BY <1>1, <1>2, <2>4 DEF C!TakeBroadcast, C!SendBroadcast
  <2> QED
    BY <1>4, <2>1, <2>2, <2>3, <2>4
<1>5. CASE UNCHANGED writer
  BY <1>5
<1> QED
  BY <1>3, <1>4, <1>5 DEF C!Next, C!vars, C!TemplateAdd, C!TemplateDelete, C!Queue

LEMMA SeedingStep == C!TypeOK /\ Seeding /\ [C!Next]_C!vars => Seeding'
<1> SUFFICES ASSUME C!TypeOK, Seeding, [C!Next]_C!vars PROVE Seeding'
  OBVIOUS
<1>0. /\ stamp \in Nat /\ \A t \in templates : t.updated \in Nat
      /\ \A c \in Clients : writer[c].op = "seed" => writer[c].at \in Nat
  BY WriterTyped DEF C!TypeOK, C!Template
<1>1. ASSUME NEW t \in templates' PROVE t.updated <= stamp'
  <2>1. CASE \E u \in templates : t.updated = u.updated
    BY <1>0, <2>1, StampedAnew DEF Seeding
  <2>2. CASE t.updated = stamp + 1 /\ stamp' = stamp + 1
    BY <1>0, <2>2
  <2> QED
    BY <1>1, <2>1, <2>2, StampedAnew
<1>2. ASSUME NEW c \in Clients, writer'[c].op = "seed"
      PROVE  /\ writer'[c].at <= stamp'
             /\ \A t \in templates' : t.kind = writer'[c].kind => t.updated > writer'[c].at
  <2>1. CASE writer'[c] = writer[c]
    <3>1. /\ writer[c].at <= stamp
          /\ \A u \in templates : u.kind = writer[c].kind => u.updated > writer[c].at
      BY <1>2, <2>1 DEF Seeding, C!OfKind
    <3>2. ASSUME NEW t \in templates', t.kind = writer[c].kind PROVE t.updated > writer[c].at
      <4>1. CASE \E u \in templates : t.kind = u.kind /\ t.updated = u.updated
        BY <3>1, <3>2, <4>1
      <4>2. CASE t.updated = stamp + 1
        BY <1>0, <1>2, <2>1, <3>1, <4>2
      <4> QED
        BY <4>1, <4>2, StampedAnew
    <3> QED
      BY <1>0, <1>2, <2>1, <3>1, <3>2, StampedAnew
  <2>2. CASE /\ writer'[c].at = stamp /\ C!OfKind(writer'[c].kind) = {}
             /\ UNCHANGED <<templates, stamp>>
    BY <1>0, <2>2 DEF C!OfKind
  <2> QED
    BY <1>2, <2>1, <2>2, SeedsAnew
<1> QED
  BY <1>1, <1>2 DEF Seeding, C!OfKind

\* What a form saved has the greatest stamp of its kind.
LEMMA EditedWins ==
    ASSUME C!TypeOK, Seeding, NEW c \in Clients, C!TemplateEdit(c),
           NEW t \in templates', t \notin templates, t.active
    PROVE  C!Used(t.kind)' = {t.text}
<1>0. templates \subseteq C!Template /\ stamp \in Nat
  BY DEF C!TypeOK
<1>3. /\ t.updated = stamp + 1
      /\ \A v \in templates' : v = t \/ v \in templates
  BY EditShape DEF Edited, C!Others
<1>4. \A v \in templates' : v = t \/ (v.updated \in Nat /\ v.updated <= stamp)
  BY <1>0, <1>3 DEF Seeding, C!Template
<1> DEFINE Active == {v \in templates' : v.kind = t.kind /\ v.active}
           Latest == {u \in Active : \A v \in Active : v.updated <= u.updated}
<1>5. C!Used(t.kind)' = IF Active = {} THEN {t.kind} ELSE {v.text : v \in Latest}
  BY DEF C!Used, C!OfKind
<1>6. t \in Active
  OBVIOUS
<1>7. Latest = {t}
  <2>1. t \in Latest
    BY <1>0, <1>3, <1>4
  <2>2. ASSUME NEW u \in Latest PROVE u = t
    BY <1>0, <1>3, <1>4, <1>6, <2>2
  <2> QED
    BY <2>1, <2>2
<1> QED
  BY <1>5, <1>6, <1>7

\* What the templates are known by is as it was when a text has been put back.
LEMMA RestoreKeeps == C!TypeOK => \A c \in Clients : C!TemplateRestore(c) =>
    {<<t.id, t.kind, t.active, t.updated>> : t \in templates'} =
    {<<t.id, t.kind, t.active, t.updated>> : t \in templates}
<1> SUFFICES ASSUME C!TypeOK, NEW c \in Clients, C!TemplateRestore(c)
             PROVE  {<<t.id, t.kind, t.active, t.updated>> : t \in templates'} =
                    {<<t.id, t.kind, t.active, t.updated>> : t \in templates}
  OBVIOUS
<1>1. writer[c].row \in C!Template /\ templates \subseteq C!Template
  BY WriterTyped DEF C!TemplateRestore, C!TypeOK
<1> DEFINE after(t) == IF t.id = writer[c].row.id THEN C!Restored(writer[c].row, t) ELSE t
<1>2. templates' = {after(t) : t \in templates}
  BY DEF C!TemplateRestore
<1>3. \A t \in templates : /\ after(t).id = t.id /\ after(t).kind = t.kind
                           /\ after(t).active = t.active /\ after(t).updated = t.updated
  <2> TAKE t \in templates
  <2>1. t \in C!Template /\ stamp \in Nat
    BY <1>1 DEF C!TypeOK
  <2> QED
    BY <1>1, <2>1, RowsTyped
<1> HIDE DEF after
<1> QED
  BY <1>2, <1>3

\* What was deleted is back only by an edit.
LEMMA ReturnsByEdit == C!TypeOK /\ [C!Next]_C!vars => C!DeletedStay
<1> SUFFICES ASSUME C!TypeOK, [C!Next]_C!vars, NEW t \in templates'
             PROVE  \/ t.id > stamp \/ \E u \in templates : u.id = t.id
                    \/ \E c \in Clients : C!TemplateEdit(c) /\ writer[c].row.id = t.id
  BY DEF C!DeletedStay
<1>0. stamp \in Nat /\ templates \subseteq C!Template
  BY DEF C!TypeOK
<1>1. ASSUME NEW c \in Clients, C!SeedCreate(c) \/ C!TemplateAdd(c)
      PROVE  t.id > stamp \/ \E u \in templates : u.id = t.id
  <2>1. t \in templates \/ t.id = stamp + 1
    BY <1>1 DEF C!SeedCreate, C!TemplateAdd
  <2> QED
    BY <1>0, <2>1
<1>2. ASSUME NEW c \in Clients, C!TemplateEdit(c)
      PROVE  t \in templates \/ writer[c].row.id = t.id
  BY <1>2, EditShape DEF Edited, C!Others
<1>3. ASSUME NEW c \in Clients, C!TemplateRestore(c) PROVE \E u \in templates : u.id = t.id
  <2>1. writer[c].row \in C!Template
    BY <1>3, WriterTyped DEF C!TemplateRestore
  <2>2. PICK u \in templates :
          t = IF u.id = writer[c].row.id THEN C!Restored(writer[c].row, u) ELSE u
    BY <1>3 DEF C!TemplateRestore
  <2>3. t.id = u.id
    BY <1>0, <2>1, <2>2, RowsTyped
  <2> QED
    BY <2>3
<1>4. ASSUME templates' \subseteq templates PROVE \E u \in templates : u.id = t.id
  BY <1>4
<1> QED
  BY <1>1, <1>2, <1>3, <1>4
     DEF C!Next, C!vars, C!HubVisit, C!SeedCheck, C!TemplateRead, C!TemplateDelete, C!Queue,
         C!TakeBroadcast, C!SendBroadcast, C!LogBroadcast, C!Crash

\* However visits and forms interleave, a standard template is created beside another of
\* its kind only if that was saved after the visit looked, the active template edited last
\* is what is sent, putting a text back changes nothing but the text, and a deleted template
\* is back only by an edit that read it before.
THEOREM TemplatesAreKept == OfficeSpec => TemplatesStand
<1> DEFINE Inv == C!TypeOK /\ Seeding
<1>1. OfficeInit => Inv
  BY DEF OfficeInit, C!Init, C!TypeOK, C!Request, C!Idle, Seeding
<1>2. Inv /\ [OfficeNext]_office => Inv'
  BY MailSteps, MailTypeStep, SeedingStep
<1>3. ASSUME Inv, [OfficeNext]_office PROVE [C!TemplatesStand]_mail
  <2>1. C!SeededOnce
    BY <1>3 DEF Seeding, C!SeededOnce, C!SeedCreate
  <2>2. C!EditedIsUsed
    BY <1>3, EditedWins DEF C!EditedIsUsed
  <2>3. C!RestoresText
    BY <1>3, RestoreKeeps DEF C!RestoresText
  <2>4. C!DeletedStay
    BY <1>3, MailSteps, ReturnsByEdit
  <2> QED
    BY <2>1, <2>2, <2>3, <2>4 DEF C!TemplatesStand
<1> QED
  BY <1>1, <1>2, <1>3, PTL DEF OfficeSpec, TemplatesStand

(***************************************************************************)
(* Broadcasts.                                                             *)
(***************************************************************************)

\* The broadcasts without a template that nothing records any more.
Lost == {l \in C!Unlogged : l.template = None}

\* A row names no template, or one that is there.
RowsRefer == \A l \in logs : l.template = None \/ \E t \in templates : t.id = l.template

\* Nothing is lost by a step that leaves the broadcasts sent and the letters in hand, and
\* no row of the log.
LEMMA LostStays ==
    ASSUME sent' = sent, \A l \in logs : \E m \in logs' : m.id = l.id,
           \A d \in Clients : writer[d].op = "log" => writer'[d] = writer[d]
    PROVE  Lost' \subseteq Lost
<1> SUFFICES ASSUME NEW l \in Lost' PROVE l \in Lost
  OBVIOUS
<1>1. /\ l \in sent /\ \A row \in logs' : row.id # l.id
      /\ l \notin {writer'[c].letter : c \in {d \in Clients : writer'[d].op = "log"}}
      /\ l.template = None
  BY DEF Lost, C!Unlogged
<1>2. \A row \in logs : row.id # l.id
  BY <1>1
<1>3. l \notin {writer[c].letter : c \in {d \in Clients : writer[d].op = "log"}}
  BY <1>1
<1> QED
  BY <1>1, <1>2, <1>3 DEF Lost, C!Unlogged

\* A step sends one broadcast at most, and loses one only with a process killed.
LEMMA LostStep ==
    ASSUME C!TypeOK, [C!Next]_C!vars
    PROVE  /\ \E l : sent' \subseteq sent \cup {l}
           /\ \/ Lost' \subseteq Lost /\ crashes' = crashes
              \/ Lost' \subseteq Lost /\ crashes' = crashes + 1
              \/ crashes' = crashes + 1 /\ \E l : Lost' \subseteq Lost \cup {l}
<1>0. writer \in [Clients -> C!Request] /\ C!Idle.op = "idle" /\ crashes \in Nat
  BY DEF C!TypeOK, C!Idle
<1>1. ASSUME NEW c \in Clients, C!SendBroadcast(c)
      PROVE  sent' \subseteq sent \cup {writer[c].letter} /\ Lost' \subseteq Lost /\ crashes' = crashes
  <2>1. writer'[c].op = "log" /\ writer'[c].letter = writer[c].letter
        /\ \A d \in Clients : d # c => writer'[d] = writer[d]
    BY <1>0, <1>1 DEF C!SendBroadcast, C!Go
  <2>2. sent' = sent \cup {writer[c].letter} /\ logs' = logs /\ crashes' = crashes
    BY <1>1 DEF C!SendBroadcast
  <2>3. ASSUME NEW l \in Lost' PROVE l \in Lost
    <3>1. /\ l \in sent' /\ \A row \in logs' : row.id # l.id
          /\ l \notin {writer'[d].letter : d \in {e \in Clients : writer'[e].op = "log"}}
          /\ l.template = None
      BY <2>3 DEF Lost, C!Unlogged
    <3>2. l # writer[c].letter
      BY <2>1, <3>1
    <3>3. l \notin {writer[d].letter : d \in {e \in Clients : writer[e].op = "log"}}
      BY <1>1, <2>1, <3>1 DEF C!SendBroadcast
    <3> QED
      BY <2>2, <3>1, <3>2, <3>3 DEF Lost, C!Unlogged
  <2> QED
    BY <2>2, <2>3
<1>2. ASSUME NEW c \in Clients, C!LogBroadcast(c)
      PROVE  sent' = sent /\ Lost' \subseteq Lost /\ crashes' = crashes
  <2>1. \A d \in Clients : d # c => writer'[d] = writer[d]
    BY <1>0, <1>2 DEF C!LogBroadcast, C!Done, C!Go
  <2>2. /\ sent' = sent /\ crashes' = crashes
        /\ logs' = IF C!Refers(writer[c].letter) THEN logs \cup {writer[c].letter} ELSE logs
    BY <1>2 DEF C!LogBroadcast
  <2>3. ASSUME NEW l \in Lost' PROVE l \in Lost
    <3>1. /\ l \in sent' /\ \A row \in logs' : row.id # l.id
          /\ l \notin {writer'[d].letter : d \in {e \in Clients : writer'[e].op = "log"}}
          /\ l.template = None
      BY <2>3 DEF Lost, C!Unlogged
    <3>2. l # writer[c].letter
      <4>1. CASE C!Refers(writer[c].letter)
        BY <2>2, <3>1, <4>1
      <4>2. CASE ~C!Refers(writer[c].letter)
        BY <3>1, <4>2 DEF C!Refers
      <4> QED
        BY <4>1, <4>2
    <3>3. l \notin {writer[d].letter : d \in {e \in Clients : writer[e].op = "log"}}
      BY <2>1, <3>1, <3>2
    <3>4. \A row \in logs : row.id # l.id
      BY <2>2, <3>1
    <3> QED
      BY <2>2, <3>1, <3>3, <3>4 DEF Lost, C!Unlogged
  <2> QED
    BY <2>2, <2>3
<1>3. ASSUME NEW c \in Clients, C!Crash(c), writer[c].op = "log"
      PROVE  sent' = sent /\ crashes' = crashes + 1 /\ Lost' \subseteq Lost \cup {writer[c].letter}
  <2>1. \A d \in Clients : d # c => writer'[d] = writer[d]
    BY <1>0, <1>3 DEF C!Crash, C!Done, C!Go
  <2>2. sent' = sent /\ logs' = logs /\ crashes' = crashes + 1
    BY <1>3 DEF C!Crash, C!mail
  <2>3. ASSUME NEW l \in Lost', l # writer[c].letter PROVE l \in Lost
    <3>1. /\ l \in sent' /\ \A row \in logs' : row.id # l.id
          /\ l \notin {writer'[d].letter : d \in {e \in Clients : writer'[e].op = "log"}}
          /\ l.template = None
      BY <2>3 DEF Lost, C!Unlogged
    <3>2. l \notin {writer[d].letter : d \in {e \in Clients : writer[e].op = "log"}}
      BY <2>1, <2>3, <3>1
    <3> QED
      BY <2>2, <3>1, <3>2 DEF Lost, C!Unlogged
  <2> QED
    BY <2>2, <2>3
<1>4. ASSUME NEW c \in Clients, NEW r, C!Go(c, r), writer[c].op # "log"
      PROVE  \A d \in Clients : writer[d].op = "log" => writer'[d] = writer[d]
  BY <1>0, <1>4 DEF C!Go
<1>5. ASSUME NEW c \in Clients, C!Crash(c), writer[c].op # "log"
      PROVE  sent' = sent /\ crashes' = crashes /\ Lost' \subseteq Lost
  BY <1>0, <1>4, <1>5, LostStays DEF C!Crash, C!Done, C!mail
<1>6. ASSUME NEW c \in Clients, C!TemplateDelete(c)
      PROVE  sent' = sent /\ crashes' = crashes /\ Lost' \subseteq Lost
  <2>1. PICK t \in templates :
          logs' = {IF l.template = t.id THEN [l EXCEPT !.template = None] ELSE l : l \in logs}
    BY <1>6 DEF C!TemplateDelete
  <2>2. \A l \in logs : [l EXCEPT !.template = None].id = l.id
    BY DEF C!TypeOK, C!Letter
  <2>3. \A l \in logs : \E m \in logs' : m.id = l.id
    BY <2>1, <2>2
  <2> QED
    BY <1>6, <2>3, LostStays DEF C!TemplateDelete
<1>7. ASSUME NEW c \in Clients,
             C!HubVisit(c) \/ C!SeedCheck(c) \/ C!SeedCreate(c) \/ C!TemplateRead(c)
               \/ C!TemplateEdit(c) \/ C!TemplateRestore(c) \/ C!TakeBroadcast(c)
      PROVE  sent' = sent /\ crashes' = crashes /\ Lost' \subseteq Lost
  <2>1. writer[c].op # "log" /\ UNCHANGED <<sent, logs, crashes>>
    BY <1>0, <1>7 DEF C!HubVisit, C!SeedCheck, C!SeedCreate, C!TemplateRead, C!TemplateEdit,
                      C!TemplateRestore, C!TakeBroadcast, C!mail
  <2>2. \E r : C!Go(c, r)
    BY <1>7 DEF C!HubVisit, C!SeedCheck, C!SeedCreate, C!TemplateRead, C!TemplateEdit,
                C!TemplateRestore, C!TakeBroadcast, C!Done
  <2> QED
    BY <1>4, <2>1, <2>2, LostStays
<1>8. ASSUME UNCHANGED <<sent, logs, writer, crashes>>
      PROVE  sent' = sent /\ crashes' = crashes /\ Lost' \subseteq Lost
  BY <1>8, LostStays
<1> QED
  BY <1>1, <1>2, <1>3, <1>5, <1>6, <1>7, <1>8
     DEF C!Next, C!vars, C!TemplateAdd, C!Queue, C!mail

LEMMA RowsReferStep == C!TypeOK /\ RowsRefer /\ [C!Next]_C!vars => RowsRefer'
<1> SUFFICES ASSUME C!TypeOK, RowsRefer, [C!Next]_C!vars PROVE RowsRefer'
  OBVIOUS
<1>0. templates \subseteq C!Template /\ logs \subseteq C!Letter
  BY DEF C!TypeOK
<1>1. ASSUME NEW c \in Clients, C!TemplateDelete(c) PROVE RowsRefer'
  <2>1. PICK t \in templates :
          /\ templates' = templates \ {t}
          /\ logs' = {IF l.template = t.id THEN [l EXCEPT !.template = None] ELSE l : l \in logs}
    BY <1>1 DEF C!TemplateDelete
  <2>2. \A l \in logs : [l EXCEPT !.template = None].template = None
    BY <1>0 DEF C!Letter
  <2>3. ASSUME NEW m \in logs', m.template # None
        PROVE  \E u \in templates' : u.id = m.template
    <3>1. PICK l \in logs : m = IF l.template = t.id THEN [l EXCEPT !.template = None] ELSE l
      BY <2>1
    <3>2. m = l /\ l.template # t.id
      BY <2>2, <2>3, <3>1
    <3> QED
      BY <2>1, <2>3, <3>2 DEF RowsRefer
  <2> QED
    BY <2>3 DEF RowsRefer
<1>2. ASSUME logs' = logs, \A t \in templates : \E u \in templates' : u.id = t.id
      PROVE  RowsRefer'
  BY <1>2 DEF RowsRefer
<1>3. ASSUME NEW c \in Clients, C!TemplateEdit(c) PROVE RowsRefer'
  <2>1. \A t \in templates : \E u \in templates' : u.id = t.id
    BY <1>3, EditShape DEF Edited, C!Others
  <2> QED
    BY <1>2, <1>3, <2>1 DEF C!TemplateEdit, C!mail
<1>4. ASSUME NEW c \in Clients, C!TemplateRestore(c) PROVE RowsRefer'
  <2>1. writer[c].row \in C!Template /\ stamp \in Nat
    BY <1>4, WriterTyped DEF C!TemplateRestore, C!TypeOK
  <2>2. ASSUME NEW t \in templates PROVE \E u \in templates' : u.id = t.id
    <3>1. (IF t.id = writer[c].row.id THEN C!Restored(writer[c].row, t) ELSE t) \in templates'
      BY <1>4 DEF C!TemplateRestore
    <3>2. C!Restored(writer[c].row, t).id = t.id
      BY <1>0, <2>1, RowsTyped
    <3> QED
      BY <3>1, <3>2
  <2> QED
    BY <1>2, <1>4, <2>2 DEF C!TemplateRestore, C!mail
<1>5. ASSUME NEW c \in Clients, C!SeedCreate(c) \/ C!TemplateAdd(c) PROVE RowsRefer'
  <2>1. logs' = logs /\ templates \subseteq templates'
    BY <1>5 DEF C!SeedCreate, C!TemplateAdd, C!mail
  <2> QED
    BY <1>2, <2>1
<1>6. ASSUME NEW c \in Clients, C!LogBroadcast(c) PROVE RowsRefer'
  <2>1. /\ templates' = templates
        /\ logs' = IF C!Refers(writer[c].letter) THEN logs \cup {writer[c].letter} ELSE logs
    BY <1>6 DEF C!LogBroadcast
  <2> QED
    BY <2>1 DEF RowsRefer, C!Refers
<1>7. ASSUME UNCHANGED <<templates, logs>> PROVE RowsRefer'
  BY <1>7 DEF RowsRefer
<1> QED
  BY <1>1, <1>3, <1>4, <1>5, <1>6, <1>7
     DEF C!Next, C!vars, C!HubVisit, C!SeedCheck, C!TemplateRead, C!Queue, C!TakeBroadcast,
         C!SendBroadcast, C!Crash, C!mail

\* What is kept of the broadcasts: as many are lost as processes were killed, at most.
SentInv ==
    /\ IsFiniteSet(sent)
    /\ Cardinality(Lost) <= crashes
    /\ RowsRefer

LEMMA SentStep == C!TypeOK /\ SentInv /\ [C!Next]_C!vars => SentInv'
<1> SUFFICES ASSUME C!TypeOK, SentInv, [C!Next]_C!vars PROVE SentInv'
  OBVIOUS
<1>0. IsFiniteSet(Lost) /\ Cardinality(Lost) \in Nat /\ crashes \in Nat
  <2>1. Lost \subseteq sent
    BY DEF Lost, C!Unlogged
  <2>2. IsFiniteSet(Lost)
    BY <2>1, FS_Subset DEF SentInv
  <2> QED
    BY <2>2, FS_CardinalityType DEF C!TypeOK
<1>1. IsFiniteSet(sent')
  <2>1. PICK l : sent' \subseteq sent \cup {l}
    BY LostStep
  <2>2. IsFiniteSet(sent \cup {l})
    BY FS_AddElement DEF SentInv
  <2> QED
    BY <2>1, <2>2, FS_Subset
<1>2. Cardinality(Lost') <= crashes'
  <2>1. ASSUME Lost' \subseteq Lost PROVE Cardinality(Lost') \in Nat /\ Cardinality(Lost') <= crashes
    <3>1. Cardinality(Lost') <= Cardinality(Lost) /\ IsFiniteSet(Lost')
      BY <1>0, <2>1, FS_Subset
    <3>2. Cardinality(Lost') \in Nat
      BY <3>1, FS_CardinalityType
    <3> QED
      BY <1>0, <3>1, <3>2 DEF SentInv
  <2>2. ASSUME NEW l, Lost' \subseteq Lost \cup {l}, crashes' = crashes + 1
        PROVE  Cardinality(Lost') <= crashes'
    <3>1. IsFiniteSet(Lost \cup {l}) /\ Cardinality(Lost \cup {l}) <= Cardinality(Lost) + 1
      BY <1>0, FS_AddElement
    <3>2. Cardinality(Lost') <= Cardinality(Lost \cup {l}) /\ IsFiniteSet(Lost')
      BY <2>2, <3>1, FS_Subset
    <3>3. Cardinality(Lost') \in Nat /\ Cardinality(Lost \cup {l}) \in Nat
      BY <3>1, <3>2, FS_CardinalityType
    <3> QED
      BY <1>0, <2>2, <3>1, <3>2, <3>3 DEF SentInv
  <2> QED
    BY <1>0, <2>1, <2>2, LostStep
<1> QED
  BY <1>1, <1>2, RowsReferStep DEF SentInv

(***************************************************************************)
(* The import: its types, and the numbers it leaves to the site.           *)
(***************************************************************************)

AllTables == L!Range(L!Tables)

LEMMA LastTable == Len(L!Tables) = 15 /\ L!Tables \in [1..15 -> AllTables]
BY DEF L!Tables, L!Range, AllTables

LEMMA RowTyped ==
    ASSUME NEW r, L!IsRow(r)
    PROVE  /\ r.table \in AllTables /\ r.id \in Nat /\ r.username \in Nat
           /\ r.names \in [L!Parents(r.table) -> Nat]
           /\ \A names \in [L!Parents(r.table) -> Nat] :
                /\ L!IsRow([r EXCEPT !.names = names])
                /\ [r EXCEPT !.names = names].table = r.table
                /\ [r EXCEPT !.names = names].id = r.id
                /\ [r EXCEPT !.names = names].username = r.username
                /\ [r EXCEPT !.names = names].names = names
BY DEF L!IsRow, AllTables

LEMMA JobTyped ==
    ASSUME L!TypeOK
    PROVE  /\ job # L!Idle =>
                /\ job \in [op : {"load", "commit"}, flush : BOOLEAN, step : 1..16,
                            flushed : SUBSET rows, loaded : {job.loaded}]
                /\ \A r \in job.loaded : L!IsRow(r)
           /\ job.op \in {"load", "commit"} => job # L!Idle
           /\ job # L!Idle => job.op \in {"load", "commit"}
BY LastTable DEF L!TypeOK, L!Idle

\* A row that is picked is one of the dump, but for the rooms and contracts not loaded.
LEMMA TakenTyped ==
    ASSUME L!TypeOK, NEW q \in dump
    PROVE  /\ L!IsRow(q) /\ L!IsRow(L!Taken(q))
           /\ L!Taken(q).table = q.table /\ L!Taken(q).id = q.id
           /\ L!Taken(q).username = q.username
           /\ \A p \in L!Parents(q.table) :
                L!Taken(q).names[p] =
                  IF p \in L!Nullable(q.table) /\ ~L!Has(job.loaded, p, q.names[p]) THEN 0
                  ELSE q.names[p]
<1> DEFINE names == [p \in DOMAIN q.names |->
               IF p \in L!Nullable(q.table) /\ ~L!Has(job.loaded, p, q.names[p]) THEN 0
               ELSE q.names[p]]
<1>1. L!IsRow(q)
  BY OfficeAssumption DEF L!TypeOK
<1>2. q.names \in [L!Parents(q.table) -> Nat]
  BY <1>1, RowTyped
<1>3. names \in [L!Parents(q.table) -> Nat]
  BY <1>2
<1>4. L!Taken(q) = [q EXCEPT !.names = names]
  BY DEF L!Taken
<1>5. \A p \in L!Parents(q.table) : names[p] =
        IF p \in L!Nullable(q.table) /\ ~L!Has(job.loaded, p, q.names[p]) THEN 0
        ELSE q.names[p]
  BY <1>2
<1> HIDE DEF names
<1> QED
  BY <1>1, <1>3, <1>4, <1>5, RowTyped

\* A finite set of numbers has a greatest one, which is where a sequence is set to.
LEMMA GreatestOf ==
    ASSUME NEW T \in SUBSET Nat, IsFiniteSet(T), T # {}
    PROVE  \E m \in T : \A n \in T : n <= m
<1> DEFINE G == {S \in SUBSET T : S = {} \/ \E m \in S : \A n \in S : n <= m}
<1>1. {} \in G
  OBVIOUS
<1>2. ASSUME NEW S \in SUBSET T, NEW x \in T \ S, S \in G PROVE S \cup {x} \in G
  <2>1. CASE S = {}
    BY <2>1
  <2>2. ASSUME NEW m \in S, \A n \in S : n <= m PROVE S \cup {x} \in G
    <3>1. CASE x <= m
      <4>1. \A n \in S \cup {x} : n <= m
        BY <2>2, <3>1
      <4> QED
        BY <4>1
    <3>2. CASE ~(x <= m)
      <4>1. \A n \in S \cup {x} : n <= x
        BY <2>2, <3>2
      <4> QED
        BY <4>1
    <3> QED
      BY <3>1, <3>2
  <2> QED
    BY <1>2, <2>1, <2>2
<1> HIDE DEF G
<1>3. T \in G
  BY <1>1, <1>2, EverySubset DEF G
<1> QED
  BY <1>3 DEF G

\* What an import holds in its hands is finite, and no superuser is among what it deletes.
JobKept ==
    /\ IsFiniteSet(rows)
    /\ job # L!Idle =>
         /\ IsFiniteSet(job.loaded)
         /\ \A r \in job.flushed : ~(r.table = "users" /\ r.id \in supers)

ImportTyped == L!TypeOK /\ JobKept

LEMMA PickedTyped ==
    ASSUME ImportTyped, job # L!Idle, NEW table
    PROVE  /\ IsFiniteSet(L!Picked(table))
           /\ \A r \in L!Picked(table) : L!IsRow(r) /\ r.table = table
<1> DEFINE S == {q \in dump : q.table = table /\ L!Found(q, job.loaded)}
<1>1. IsFiniteSet(S)
  <2>1. IsFiniteSet(dump) /\ S \subseteq dump
    BY OfficeAssumption DEF ImportTyped, L!TypeOK
  <2> QED
    BY <2>1, FS_Subset
<1>2. L!Picked(table) = {L!Taken(q) : q \in S}
  BY DEF L!Picked
<1>3. \A q \in S : L!IsRow(L!Taken(q)) /\ L!Taken(q).table = table
  BY TakenTyped DEF ImportTyped
<1> HIDE DEF S
<1>4. IsFiniteSet({L!Taken(q) : q \in S})
  <2> DEFINE f == [q \in S |-> L!Taken(q)]
  <2>1. IsFiniteSet({f[q] : q \in S})
    BY <1>1, ImageFinite
  <2>2. {f[q] : q \in S} = {L!Taken(q) : q \in S}
    OBVIOUS
  <2> QED
    BY <2>1, <2>2
<1> QED
  BY <1>2, <1>3, <1>4

LEMMA SeenTyped ==
    ASSUME ImportTyped, job # L!Idle
    PROVE  /\ IsFiniteSet(L!Seen) /\ \A r \in L!Seen : L!IsRow(r)
           /\ supers \subseteq {r.id : r \in {q \in L!Seen : q.table = "users"}}
<1>1. IsFiniteSet(rows \ job.flushed)
  BY FS_Subset DEF ImportTyped, JobKept
<1>2. IsFiniteSet(L!Seen)
  BY <1>1, FS_Union DEF ImportTyped, JobKept, L!Seen
<1>3. \A r \in L!Seen : L!IsRow(r)
  BY JobTyped DEF ImportTyped, L!TypeOK, L!Seen
<1>4. ASSUME NEW id \in supers PROVE id \in {r.id : r \in {q \in L!Seen : q.table = "users"}}
  <2>1. PICK r \in rows : r.table = "users" /\ r.id = id
    BY <1>4 DEF ImportTyped, L!TypeOK
  <2>2. r \notin job.flushed
    BY <2>1 DEF ImportTyped, JobKept
  <2> QED
    BY <2>1, <2>2 DEF L!Seen
<1> QED
  BY <1>2, <1>3, <1>4

LEMMA ResetBounds ==
    ASSUME ImportTyped, job # L!Idle, NEW table
    PROVE  /\ L!Reset(table) \in Nat
           /\ \A r \in L!Seen : r.table = table => r.id <= L!Reset(table)
<1> DEFINE S == {q \in L!Seen : q.table = table}
           ids == {r.id : r \in S}
<1>1. ids \in SUBSET Nat
  BY SeenTyped, RowTyped
<1>2. IsFiniteSet(ids)
  <2>1. IsFiniteSet(S)
    BY SeenTyped, FS_Subset
  <2> HIDE DEF S
  <2> DEFINE f == [r \in S |-> r.id]
  <2>2. IsFiniteSet({f[r] : r \in S})
    BY <2>1, ImageFinite
  <2>3. {f[r] : r \in S} = {r.id : r \in S}
    OBVIOUS
  <2> QED
    BY <2>2, <2>3
<1>3. L!Reset(table) = IF ids = {} THEN 0 ELSE CHOOSE id \in ids : \A other \in ids : other <= id
  BY DEF L!Reset
<1>4. \A r \in L!Seen : r.table = table => r.id \in ids
  OBVIOUS
<1> HIDE DEF ids
<1>5. CASE ids = {}
  BY <1>3, <1>4, <1>5
<1>6. CASE ids # {}
  <2>1. \E m \in ids : \A n \in ids : n <= m
    BY <1>1, <1>2, <1>6, GreatestOf
  <2>2. L!Reset(table) \in ids /\ \A n \in ids : n <= L!Reset(table)
    BY <1>3, <1>6, <2>1
  <2> QED
    BY <1>1, <1>4, <2>2
<1> QED
  BY <1>5, <1>6

LEMMA BareTyped ==
    ASSUME NEW table \in AllTables, NEW id \in Nat, NEW username \in Nat
    PROVE  /\ L!IsRow(L!Bare(table, id, username))
           /\ L!Bare(table, id, username).table = table /\ L!Bare(table, id, username).id = id
BY DEF L!IsRow, L!Bare, AllTables

\* What the site adds.
LEMMA SiteShape ==
    ASSUME ImportTyped, NEW table \in {"users", "flats"}, L!SiteAdds(table)
    PROVE  /\ table \in AllTables
           /\ seq' \in [AllTables -> Nat] /\ seq'[table] = seq[table] + 1
           /\ \A t \in AllTables : seq[t] \in Nat /\ seq[t] <= seq'[t]
           /\ UNCHANGED <<dump, supers, job, undone, imports>> /\ adds' \in 0..MaxAdds
           /\ rows \subseteq rows' /\ IsFiniteSet(rows')
           /\ \A r \in rows' : \/ r \in rows
                               \/ /\ r.table = table /\ r.id = seq[table] + 1
                                  /\ L!IsRow(r) /\ (job # L!Idle => r \notin job.flushed)
<1>1. table \in AllTables
  BY DEF AllTables, L!Range, L!Tables
<1>2. seq \in [AllTables -> Nat] /\ adds \in 0..MaxAdds
  BY DEF ImportTyped, L!TypeOK, AllTables
<1>3. seq' = [seq EXCEPT ![table] = seq[table] + 1]
  BY DEF L!SiteAdds
<1>4. seq' \in [AllTables -> Nat] /\ seq'[table] = seq[table] + 1
      /\ \A t \in AllTables : seq[t] \in Nat /\ seq[t] <= seq'[t]
  BY <1>1, <1>2, <1>3
<1>p. PICK username \in IF table = "users" THEN Usernames ELSE {0} :
        /\ job # L!Idle => \A r \in job.loaded \cup job.flushed :
             ~L!Clash(L!Bare(table, seq[table] + 1, username), r)
        /\ rows' = IF L!Has(rows, table, L!Bare(table, seq[table] + 1, username).id) THEN rows
                   ELSE rows \cup {L!Bare(table, seq[table] + 1, username)}
  BY DEF L!SiteAdds
<1> DEFINE new == L!Bare(table, seq[table] + 1, username)
<1>u. username \in Nat
  BY OfficeAssumption
<1>5. L!IsRow(new) /\ new.table = table /\ new.id = seq[table] + 1
  BY <1>1, <1>4, <1>u, BareTyped
<1>6. rows' = rows \/ rows' = rows \cup {new}
  BY <1>p
<1>7. job # L!Idle => \A r \in job.flushed : ~L!Clash(new, r)
  BY <1>p
<1>8. job # L!Idle => new \notin job.flushed
  BY <1>7 DEF L!Clash
<1>9. UNCHANGED <<dump, supers, job, undone, imports>> /\ adds' \in 0..MaxAdds
  BY <1>2, OfficeAssumption DEF L!SiteAdds
<1> HIDE DEF new
<1>10. IsFiniteSet(rows')
  BY <1>6, FS_AddElement DEF ImportTyped, JobKept
<1> QED
  BY <1>1, <1>4, <1>5, <1>6, <1>8, <1>9, <1>10

LEMMA ImportTypeStep == ImportTyped /\ [L!Next]_L!vars => ImportTyped'
<1> SUFFICES ASSUME ImportTyped, [L!Next]_L!vars PROVE ImportTyped'
  OBVIOUS
<1>0. /\ dump \in Dumps /\ \A r \in rows : L!IsRow(r)
      /\ supers \subseteq {r.id : r \in {q \in rows : q.table = "users"}}
      /\ seq \in [AllTables -> Nat] /\ undone \in BOOLEAN
      /\ adds \in 0..MaxAdds /\ imports \in 0..MaxImports
      /\ IsFiniteSet(rows)
  BY DEF ImportTyped, L!TypeOK, JobKept, AllTables
<1>j. job # L!Idle =>
        /\ job \in [op : {"load", "commit"}, flush : BOOLEAN, step : 1..16,
                    flushed : SUBSET rows, loaded : {job.loaded}]
        /\ \A r \in job.loaded : L!IsRow(r)
        /\ IsFiniteSet(job.loaded)
        /\ \A r \in job.flushed : ~(r.table = "users" /\ r.id \in supers)
  BY JobTyped DEF ImportTyped, JobKept
<1>b. L!Idle.op = "idle"
  BY DEF L!Idle
<1>i. ASSUME dump' \in Dumps, \A r \in rows' : L!IsRow(r),
             supers' \subseteq {r.id : r \in {q \in rows' : q.table = "users"}},
             seq' \in [AllTables -> Nat], undone' \in BOOLEAN,
             adds' \in 0..MaxAdds, imports' \in 0..MaxImports, IsFiniteSet(rows'),
             job' # L!Idle =>
               /\ job' \in [op : {"load", "commit"}, flush : BOOLEAN, step : 1..16,
                            flushed : SUBSET rows', loaded : {job'.loaded}]
               /\ \A r \in job'.loaded : L!IsRow(r)
               /\ IsFiniteSet(job'.loaded)
               /\ \A r \in job'.flushed : ~(r.table = "users" /\ r.id \in supers')
      PROVE  ImportTyped'
  <2>1. L!TypeOK'
    BY <1>i, LastTable DEF L!TypeOK, AllTables
  <2>2. JobKept'
    BY <1>i DEF JobKept
  <2> QED
    BY <2>1, <2>2 DEF ImportTyped
<1>1. ASSUME NEW table \in {"users", "flats"}, L!SiteAdds(table) PROVE ImportTyped'
  <2>1. \A r \in rows' : L!IsRow(r)
    BY <1>0, <1>1, SiteShape
  <2>2. supers' \subseteq {r.id : r \in {q \in rows' : q.table = "users"}}
    BY <1>0, <1>1, SiteShape
  <2>3. rows \subseteq rows' /\ UNCHANGED <<job, supers>>
    BY <1>1, SiteShape
  <2>4. job' # L!Idle =>
          /\ job' \in [op : {"load", "commit"}, flush : BOOLEAN, step : 1..16,
                       flushed : SUBSET rows', loaded : {job'.loaded}]
          /\ \A r \in job'.loaded : L!IsRow(r)
          /\ IsFiniteSet(job'.loaded)
          /\ \A r \in job'.flushed : ~(r.table = "users" /\ r.id \in supers')
    BY <1>j, <2>3
  <2> QED
    BY <1>0, <1>1, <1>i, <2>1, <2>2, <2>4, SiteShape
<1>2. ASSUME L!Promote PROVE ImportTyped'
  <2>1. job = L!Idle /\ UNCHANGED <<dump, rows, seq, job, undone, adds, imports>>
    BY <1>2 DEF L!Promote
  <2>2. supers' \subseteq {r.id : r \in {q \in rows : q.table = "users"}}
    BY <1>0, <1>2 DEF L!Promote
  <2> QED
    BY <1>0, <1>i, <2>1, <2>2
<1>3. ASSUME L!Start PROVE ImportTyped'
  <2>1. PICK flush \in BOOLEAN :
          job' = [op |-> "load", flush |-> flush, step |-> 1,
                  flushed |-> IF flush THEN L!Flushed ELSE {}, loaded |-> {}]
    BY <1>3 DEF L!Start
  <2>2. imports' \in 0..MaxImports /\ UNCHANGED <<dump, rows, supers, seq, undone, adds>>
    BY <1>0, <1>3, OfficeAssumption DEF L!Start
  <2>3. /\ job' \in [op : {"load", "commit"}, flush : BOOLEAN, step : 1..16,
                     flushed : SUBSET rows, loaded : {job'.loaded}]
        /\ job'.loaded = {}
        /\ \A r \in job'.flushed : ~(r.table = "users" /\ r.id \in supers)
    BY <2>1 DEF L!Flushed
  <2> QED
    BY <1>0, <1>i, <2>2, <2>3, FS_EmptySet
<1>4. ASSUME L!LoadTable PROVE ImportTyped'
  <2> DEFINE picked == L!Picked(L!Tables[job.step])
  <2>1. job # L!Idle
    BY <1>4, <1>b DEF L!LoadTable
  <2>2. IsFiniteSet(picked) /\ \A r \in picked : L!IsRow(r)
    BY <2>1, PickedTyped
  <2>3. /\ job.op = "load" /\ job.step <= 15
        /\ job' = [job EXCEPT !.loaded = @ \cup picked, !.step = @ + 1]
        /\ UNCHANGED <<dump, rows, supers, seq, undone, adds, imports>>
    BY <1>4, LastTable DEF L!LoadTable
  <2> HIDE DEF picked
  <2>4. IsFiniteSet(job.loaded \cup picked)
    BY <1>j, <2>1, <2>2, FS_Union
  <2>5. /\ job' \in [op : {"load", "commit"}, flush : BOOLEAN, step : 1..16,
                     flushed : SUBSET rows, loaded : {job'.loaded}]
        /\ job'.loaded = job.loaded \cup picked /\ job'.flushed = job.flushed
    <3>1. job.step + 1 \in 1..16
      BY <1>j, <2>1, <2>3
    <3>2. /\ job'.op = job.op /\ job'.flush = job.flush /\ job'.step = job.step + 1
          /\ job'.loaded = job.loaded \cup picked /\ job'.flushed = job.flushed
      BY <1>j, <2>1, <2>3
    <3>3. job' = [op |-> job.op, flush |-> job.flush, step |-> job.step + 1,
                  flushed |-> job.flushed, loaded |-> job.loaded \cup picked]
      BY <1>j, <2>1, <2>3
    <3> QED
      BY <1>j, <2>1, <3>1, <3>2, <3>3
  <2> QED
    BY <1>0, <1>i, <1>j, <2>1, <2>2, <2>3, <2>4, <2>5
<1>5. ASSUME L!ResetSequences PROVE ImportTyped'
  <2>1. job # L!Idle
    BY <1>5, <1>b DEF L!ResetSequences
  <2>2. seq' \in [AllTables -> Nat]
    BY <1>5, <2>1, ResetBounds DEF L!ResetSequences, AllTables
  <2>3. /\ job' = [job EXCEPT !.op = "commit"]
        /\ UNCHANGED <<dump, rows, supers, undone, adds, imports>>
    BY <1>5 DEF L!ResetSequences
  <2>4. /\ job' \in [op : {"load", "commit"}, flush : BOOLEAN, step : 1..16,
                     flushed : SUBSET rows, loaded : {job'.loaded}]
        /\ job'.loaded = job.loaded /\ job'.flushed = job.flushed
    BY <1>j, <2>1, <2>3
  <2> QED
    BY <1>0, <1>i, <1>j, <2>1, <2>2, <2>3, <2>4
<1>6. ASSUME L!Commit PROVE ImportTyped'
  <2>1. job # L!Idle
    BY <1>6, <1>b DEF L!Commit
  <2>2. rows' = L!Seen /\ job' = L!Idle /\ UNCHANGED <<dump, supers, seq, undone, adds, imports>>
    BY <1>6 DEF L!Commit
  <2> QED
    BY <1>0, <1>i, <2>1, <2>2, SeenTyped
<1>7. ASSUME L!Fail \/ L!Kill PROVE ImportTyped'
  <2>1. /\ job' = L!Idle /\ undone' \in BOOLEAN
        /\ UNCHANGED <<dump, rows, supers, seq, adds, imports>>
    BY <1>0, <1>7 DEF L!Fail, L!Kill, L!Undo
  <2> QED
    BY <1>0, <1>i, <2>1
<1>8. CASE UNCHANGED L!vars
  BY <1>0, <1>i, <1>j, <1>8 DEF L!vars
<1> QED
  BY <1>1, <1>2, <1>3, <1>4, <1>5, <1>6, <1>7, <1>8 DEF L!Next

\* The rows the site and the transaction have are numbered up to the sequences, once these
\* are reset, unless that outlived the transaction.
Numbered ==
    ~undone =>
        /\ job.op # "commit" => \A r \in rows : r.id <= seq[r.table]
        /\ job.op = "commit" => \A r \in L!Seen : r.id <= seq[r.table]

LEMMA UndoneStays == ASSUME [L!Next]_L!vars, undone PROVE undone'
<1>1. UNCHANGED undone \/ L!Undo
  <2>1. \A table : L!SiteAdds(table) => UNCHANGED undone
    BY DEF L!SiteAdds
  <2>2. L!Promote \/ L!Start \/ L!LoadTable \/ L!ResetSequences \/ L!Commit => UNCHANGED undone
    BY DEF L!Promote, L!Start, L!LoadTable, L!ResetSequences, L!Commit
  <2>3. UNCHANGED L!vars => UNCHANGED undone
    BY DEF L!vars
  <2> QED
    BY <2>1, <2>2, <2>3 DEF L!Next, L!Fail, L!Kill
<1>2. L!Undo => undone'
  BY Zenon DEF L!Undo
<1>3. UNCHANGED undone => undone'
  BY Zenon
<1> QED
  BY <1>1, <1>2, <1>3

LEMMA NumberedStep == ImportTyped /\ Numbered /\ [L!Next]_L!vars => Numbered'
<1> SUFFICES ASSUME ImportTyped, Numbered, [L!Next]_L!vars, ~undone', ~undone
             PROVE  /\ job'.op # "commit" => \A r \in rows' : r.id <= seq'[r.table]
                    /\ job'.op = "commit" => \A r \in L!Seen' : r.id <= seq'[r.table]
  BY UndoneStays DEF Numbered
<1>0. /\ job.op # "commit" => \A r \in rows : r.id <= seq[r.table]
      /\ job.op = "commit" => \A r \in L!Seen : r.id <= seq[r.table]
  BY DEF Numbered
<1>b. L!Idle.op = "idle"
  BY DEF L!Idle
<1>r. \A r \in rows : r.table \in AllTables /\ r.id \in Nat
  BY RowTyped DEF ImportTyped, L!TypeOK
<1>1. ASSUME NEW table \in {"users", "flats"}, L!SiteAdds(table)
      PROVE  /\ job.op # "commit" => \A r \in rows' : r.id <= seq'[r.table]
             /\ job.op = "commit" => \A r \in L!Seen' : r.id <= seq'[r.table]
  <2>1. /\ table \in AllTables /\ seq'[table] = seq[table] + 1
        /\ \A t \in AllTables : seq[t] \in Nat /\ seq'[t] \in Nat /\ seq[t] <= seq'[t]
        /\ \A r \in rows' : \/ r \in rows
                            \/ r.table = table /\ r.id = seq[table] + 1
        /\ job' = job
    BY <1>1, SiteShape
  <2>2. ASSUME NEW r, r.table \in AllTables, r.id \in Nat, r.id <= seq[r.table]
        PROVE  r.id <= seq'[r.table]
    <3>1. seq[r.table] \in Nat /\ seq'[r.table] \in Nat /\ seq[r.table] <= seq'[r.table]
      BY <2>1, <2>2
    <3> QED
      BY <2>2, <3>1
  <2>3. ASSUME job.op # "commit", NEW r \in rows' PROVE r.id <= seq'[r.table]
    BY <1>0, <1>r, <2>1, <2>2, <2>3
  <2>4. ASSUME job.op = "commit", NEW r \in L!Seen' PROVE r.id <= seq'[r.table]
    <3>1. r \in L!Seen \/ (r.table = table /\ r.id = seq[table] + 1)
      BY <2>1, <2>4 DEF L!Seen
    <3>2. r \in L!Seen => r.table \in AllTables /\ r.id \in Nat
      BY <2>4, <1>b, SeenTyped, RowTyped
    <3> QED
      BY <1>0, <2>1, <2>2, <2>4, <3>1, <3>2
  <2> QED
    BY <2>3, <2>4
<1>2. ASSUME L!Promote \/ L!Start \/ L!LoadTable
      PROVE  job'.op # "commit" /\ \A r \in rows' : r.id <= seq'[r.table]
  <2>1. job'.op # "commit" /\ job.op # "commit"
    <3>1. CASE L!Promote
      BY <1>b, <3>1 DEF L!Promote
    <3>2. CASE L!Start
      BY <1>b, <3>2 DEF L!Start
    <3>3. CASE L!LoadTable
      BY <3>3, JobTyped DEF L!LoadTable, ImportTyped
    <3> QED
      BY <1>2, <3>1, <3>2, <3>3
  <2> QED
    BY <1>0, <1>2, <2>1 DEF L!Promote, L!Start, L!LoadTable
<1>3. ASSUME L!ResetSequences PROVE job'.op = "commit" /\ \A r \in L!Seen' : r.id <= seq'[r.table]
  <2>1. job # L!Idle
    BY <1>3, <1>b DEF L!ResetSequences
  <2>2. job' = [job EXCEPT !.op = "commit"] /\ rows' = rows
    BY <1>3 DEF L!ResetSequences
  <2>3. job'.op = "commit" /\ job'.loaded = job.loaded /\ job'.flushed = job.flushed
    BY <2>1, <2>2, JobTyped DEF ImportTyped
  <2>4. L!Seen' = L!Seen
    BY <2>2, <2>3 DEF L!Seen
  <2>5. \A r \in L!Seen : r.table \in AllTables
    BY <2>1, SeenTyped, RowTyped
  <2>6. \A r \in L!Seen : seq'[r.table] = L!Reset(r.table)
    BY <1>3, <2>5 DEF L!ResetSequences, AllTables
  <2> QED
    BY <2>1, <2>3, <2>4, <2>6, ResetBounds
<1>4. ASSUME L!Commit PROVE job'.op # "commit" /\ \A r \in rows' : r.id <= seq'[r.table]
  BY <1>0, <1>b, <1>4 DEF L!Commit
<1>5. ASSUME L!Fail \/ L!Kill
      PROVE  job'.op # "commit" /\ \A r \in rows' : r.id <= seq'[r.table]
  BY <1>0, <1>b, <1>5 DEF L!Fail, L!Kill, L!Undo
<1>6. ASSUME UNCHANGED L!vars
      PROVE  /\ job'.op # "commit" => \A r \in rows' : r.id <= seq'[r.table]
             /\ job'.op = "commit" => \A r \in L!Seen' : r.id <= seq'[r.table]
  BY <1>0, <1>6 DEF L!vars, L!Seen
<1>7. ASSUME NEW table \in {"users", "flats"}, L!SiteAdds(table) PROVE job' = job
  BY <1>7 DEF L!SiteAdds
<1> QED
  BY <1>1, <1>2, <1>3, <1>4, <1>5, <1>6, <1>7 DEF L!Next

(***************************************************************************)
(* The import: which rows of the old database it loads.                    *)
(***************************************************************************)

\* Which table is read when.
Place == [users |-> 1, flats |-> 2, rooms |-> 3, contracts |-> 4, counterdef |-> 5,
          counterstate |-> 6, counterprice |-> 7, adminfee |-> 8, adminprice |-> 9,
          duecalc |-> 10, duetens |-> 11, duefees |-> 12, records |-> 13, tax_mode |-> 14,
          taxdue |-> 15]

LEMMA Places ==
    /\ \A i \in 1..15 : L!Tables[i] \in AllTables /\ Place[L!Tables[i]] = i
    /\ \A t \in AllTables : Place[t] \in 1..15 /\ L!Tables[Place[t]] = t
<1>1. \A i \in 1..15 : L!Tables[i] \in AllTables /\ Place[L!Tables[i]] = i
  <2>1. ASSUME NEW i \in 1..15 PROVE Place[L!Tables[i]] = i
    <3>1. \/ i = 1 \/ i = 2 \/ i = 3 \/ i = 4 \/ i = 5 \/ i = 6 \/ i = 7 \/ i = 8
          \/ i = 9 \/ i = 10 \/ i = 11 \/ i = 12 \/ i = 13 \/ i = 14 \/ i = 15
      OBVIOUS
    <3> QED
      BY <3>1 DEF Place, L!Tables
  <2> QED
    BY <2>1, LastTable
<1>2. \A t \in AllTables : \E i \in 1..15 : t = L!Tables[i]
  BY LastTable DEF AllTables, L!Range
<1> QED
  BY <1>1, <1>2

LEMMA SamePlace == \A s, t \in AllTables : Place[s] = Place[t] => s = t
BY Places

\* What a row names is read before it, and a row looks for nothing else.
LEMMA ParentsFirst ==
    ASSUME NEW t \in AllTables
    PROVE  /\ \A p \in L!Parents(t) : p \in AllTables /\ Place[p] < Place[t]
           /\ L!LookedUp(t) \subseteq L!Required(t)
           /\ \A p \in L!Required(t) \ L!LookedUp(t) : p = "flats" /\ t \in {"duetens", "duefees"}
           /\ L!Nullable(t) \subseteq L!Parents(t) /\ L!Nullable(t) \cap L!Required(t) = {}
           /\ L!Parents(t) = L!Required(t) \cup L!Nullable(t)
<1>1. \/ t = "users" \/ t = "flats" \/ t = "rooms" \/ t = "contracts" \/ t = "counterdef"
      \/ t = "counterstate" \/ t = "counterprice" \/ t = "adminfee" \/ t = "adminprice"
      \/ t = "duecalc" \/ t = "duetens" \/ t = "duefees" \/ t = "records" \/ t = "tax_mode"
      \/ t = "taxdue"
  BY DEF AllTables, L!Range, L!Tables
<1>2. {"flats", "rooms", "contracts", "counterdef", "adminfee", "duecalc", "duetens"} \subseteq AllTables
  BY DEF AllTables, L!Range, L!Tables
<1>3. L!Parents(t) \subseteq AllTables
  BY <1>1, <1>2 DEF L!Parents
<1>4. \A p \in L!Parents(t) : Place[p] < Place[t]
  BY <1>1 DEF L!Parents, Place
<1>5. L!Nullable(t) \subseteq L!Parents(t)
  BY <1>1 DEF L!Parents, L!Nullable
<1>6. L!LookedUp(t) \subseteq L!Required(t)
  BY <1>1 DEF L!Parents, L!Nullable, L!Required, L!LookedUp
<1>7. \A p \in L!Required(t) \ L!LookedUp(t) : p = "flats" /\ t \in {"duetens", "duefees"}
  BY <1>1 DEF L!Parents, L!Nullable, L!Required, L!LookedUp
<1> QED
  BY <1>3, <1>4, <1>5, <1>6, <1>7 DEF L!Required

\* r is what was made of the row q of the dump.
MadeOf(r, q, loaded) ==
    /\ r.table = q.table /\ r.id = q.id
    /\ L!Found(q, loaded)
    /\ \A p \in L!Required(q.table) : r.names[p] = q.names[p]
    /\ \A p \in L!Nullable(q.table) : r.names[p] = 0 \/ L!Has(loaded, p, r.names[p])

\* Of the tables before step, what finds its parents has been loaded, and nothing else.
LoadedUpTo(loaded, step) ==
    /\ \A q \in dump : Place[q.table] < step /\ L!Found(q, loaded) => L!Has(loaded, q.table, q.id)
    /\ \A r \in loaded : Place[r.table] < step /\ \E q \in dump : MadeOf(r, q, loaded)

LEMMA HasMore ==
    ASSUME NEW old, NEW more
    PROVE  /\ \A t, id : L!Has(old, t, id) => L!Has(old \cup more, t, id)
           /\ \A q : L!Found(q, old) => L!Found(q, old \cup more)
           /\ \A r, q : MadeOf(r, q, old) => MadeOf(r, q, old \cup more)
<1>1. \A t, id : L!Has(old, t, id) => L!Has(old \cup more, t, id)
  BY DEF L!Has
<1>2. \A q : L!Found(q, old) => L!Found(q, old \cup more)
  BY <1>1 DEF L!Found
<1> QED
  BY <1>1, <1>2 DEF MadeOf

LEMMA LoadsTable ==
    ASSUME ImportTyped, job # L!Idle, job.step <= 15, LoadedUpTo(job.loaded, job.step)
    PROVE  LoadedUpTo(job.loaded \cup L!Picked(L!Tables[job.step]), job.step + 1)
<1> DEFINE loaded == job.loaded
           step == job.step
           table == L!Tables[step]
           picked == L!Picked(table)
           new == loaded \cup picked
<1>1. step \in 1..15
  BY JobTyped DEF ImportTyped
<1>2. table \in AllTables /\ Place[table] = step
  BY <1>1, Places
<1>3. \A q \in dump : q.table \in AllTables /\ Place[q.table] \in 1..15
  BY TakenTyped, RowTyped, Places DEF ImportTyped
<1>4. \A r \in picked : L!IsRow(r) /\ r.table = table
  BY PickedTyped
<1>5. /\ \A q \in dump : Place[q.table] < step /\ L!Found(q, loaded) => L!Has(loaded, q.table, q.id)
      /\ \A r \in loaded : Place[r.table] < step /\ \E q \in dump : MadeOf(r, q, loaded)
  BY DEF LoadedUpTo
<1>6. \A r \in loaded : L!IsRow(r) /\ r.table \in AllTables
  BY JobTyped, RowTyped DEF ImportTyped
<1>p. /\ \A r \in picked : \E q \in dump : r = L!Taken(q) /\ q.table = table /\ L!Found(q, loaded)
      /\ \A q \in dump : q.table = table /\ L!Found(q, loaded) => L!Taken(q) \in picked
  BY DEF L!Picked
<1> HIDE DEF picked, table, step
<1>7. ASSUME NEW q \in dump, Place[q.table] < step + 1, L!Found(q, new)
      PROVE  L!Has(new, q.table, q.id)
  <2>1. ASSUME NEW p \in L!LookedUp(q.table) PROVE L!Has(loaded, p, q.names[p])
    <3>1. p \in AllTables /\ Place[p] < Place[q.table]
      BY <1>3, <2>1, ParentsFirst
    <3>2. p # table
      BY <1>1, <1>2, <1>3, <1>7, <3>1, Places
    <3>3. PICK r \in new : r.table = p /\ r.id = q.names[p]
      BY <1>7, <2>1 DEF L!Found, L!Has
    <3>4. r \in loaded
      BY <1>4, <3>2, <3>3
    <3> QED
      BY <3>3, <3>4 DEF L!Has
  <2>2. L!Found(q, loaded)
    BY <2>1 DEF L!Found
  <2>3. CASE Place[q.table] < step
    BY <1>5, <2>2, <2>3, HasMore
  <2>4. CASE ~(Place[q.table] < step)
    <3>1. Place[q.table] = step
      BY <1>1, <1>3, <1>7, <2>4
    <3>2. q.table = table
      BY <1>2, <1>3, <3>1, SamePlace
    <3>3. L!Taken(q) \in new
      BY <1>p, <2>2, <3>2
    <3>4. L!Taken(q).table = q.table /\ L!Taken(q).id = q.id
      BY TakenTyped DEF ImportTyped
    <3> QED
      BY <3>3, <3>4 DEF L!Has
  <2> QED
    BY <2>3, <2>4
<1>8. ASSUME NEW r \in new
      PROVE  Place[r.table] < step + 1 /\ \E q \in dump : MadeOf(r, q, new)
  <2>1. CASE r \in loaded
    <3>1. Place[r.table] < step /\ Place[r.table] \in 1..15
      BY <1>5, <1>6, <2>1, Places
    <3>2. PICK q \in dump : MadeOf(r, q, loaded)
      BY <1>5, <2>1
    <3>3. MadeOf(r, q, new)
      BY <3>2, HasMore
    <3> QED
      BY <1>1, <3>1, <3>3
  <2>2. CASE r \in picked
    <3>1. PICK q \in dump : r = L!Taken(q) /\ q.table = table /\ L!Found(q, loaded)
      BY <1>p, <2>2
    <3>2. /\ r.table = q.table /\ r.id = q.id
          /\ \A p \in L!Parents(q.table) :
               r.names[p] = IF p \in L!Nullable(q.table) /\ ~L!Has(loaded, p, q.names[p]) THEN 0
                            ELSE q.names[p]
      BY <3>1, TakenTyped DEF ImportTyped
    <3>3. MadeOf(r, q, loaded)
      BY <1>3, <3>1, <3>2, ParentsFirst DEF MadeOf
    <3>4. MadeOf(r, q, new)
      BY <3>3, HasMore
    <3>5. Place[r.table] < step + 1
      BY <1>1, <1>2, <3>1, <3>2
    <3> QED
      BY <3>4, <3>5
  <2> QED
    BY <2>1, <2>2
<1>9. LoadedUpTo(new, step + 1)
  BY <1>7, <1>8 DEF LoadedUpTo
<1> QED
  BY <1>9 DEF picked, table, step

LoadInv ==
    /\ job # L!Idle => LoadedUpTo(job.loaded, job.step)
    /\ job.op = "commit" => job.step = 16

LEMMA LoadStep == ImportTyped /\ LoadInv /\ [L!Next]_L!vars => LoadInv'
<1> SUFFICES ASSUME ImportTyped, LoadInv, [L!Next]_L!vars PROVE LoadInv'
  OBVIOUS
<1>b. L!Idle.op = "idle"
  BY DEF L!Idle
<1>1. ASSUME UNCHANGED <<dump, job>> PROVE LoadInv'
  BY <1>1 DEF LoadInv, LoadedUpTo, MadeOf, L!Found, L!Has
<1>2. ASSUME job' = L!Idle PROVE LoadInv'
  BY <1>b, <1>2 DEF LoadInv
<1>3. ASSUME L!Start PROVE LoadInv'
  <2>1. job'.loaded = {} /\ job'.step = 1 /\ job'.op = "load" /\ dump' = dump
    BY <1>3 DEF L!Start
  <2>2. \A q \in dump : Place[q.table] \in 1..15
    BY TakenTyped, RowTyped, Places DEF ImportTyped
  <2>3. (\A q \in dump' : Place[q.table] < job'.step /\ L!Found(q, job'.loaded) =>
                            L!Has(job'.loaded, q.table, q.id))
        /\ \A r \in job'.loaded : Place[r.table] < job'.step /\ \E q \in dump' : MadeOf(r, q, job'.loaded)
    BY <2>1, <2>2
  <2> QED
    BY <2>1, <2>3 DEF LoadInv, LoadedUpTo, MadeOf, L!Found, L!Has
<1>4. ASSUME L!LoadTable PROVE LoadInv'
  <2>1. /\ job # L!Idle /\ job.op = "load" /\ job.step <= 15 /\ dump' = dump
        /\ job' = [job EXCEPT !.loaded = @ \cup L!Picked(L!Tables[job.step]), !.step = @ + 1]
    BY <1>4, <1>b, LastTable DEF L!LoadTable
  <2>2. LoadedUpTo(job.loaded \cup L!Picked(L!Tables[job.step]), job.step + 1)
    BY <2>1, LoadsTable DEF LoadInv
  <2>3. /\ job'.loaded = job.loaded \cup L!Picked(L!Tables[job.step])
        /\ job'.step = job.step + 1 /\ job'.op = "load"
    BY <2>1, JobTyped DEF ImportTyped
  <2>4. LoadedUpTo(job'.loaded, job'.step)
    BY <2>2, <2>3
  <2> QED
    BY <2>1, <2>3, <2>4 DEF LoadInv, LoadedUpTo, MadeOf, L!Found, L!Has
<1>5. ASSUME L!ResetSequences PROVE LoadInv'
  <2>1. /\ job # L!Idle /\ job.step = 16 /\ dump' = dump
        /\ job' = [job EXCEPT !.op = "commit"]
    BY <1>5, <1>b, LastTable DEF L!ResetSequences
  <2>2. job'.loaded = job.loaded /\ job'.step = job.step
    BY <2>1, JobTyped DEF ImportTyped
  <2>3. LoadedUpTo(job'.loaded, job'.step)
    BY <2>1, <2>2 DEF LoadInv
  <2> QED
    BY <2>1, <2>2, <2>3 DEF LoadInv, LoadedUpTo, MadeOf, L!Found, L!Has
<1>6. \A table : L!SiteAdds(table) => UNCHANGED <<dump, job>>
  BY DEF L!SiteAdds
<1>7. L!Promote \/ UNCHANGED L!vars => UNCHANGED <<dump, job>>
  BY DEF L!Promote, L!vars
<1>8. L!Commit \/ L!Fail \/ L!Kill => job' = L!Idle
  BY DEF L!Commit, L!Fail, L!Kill, L!Undo
<1> QED
  BY <1>1, <1>2, <1>3, <1>4, <1>5, <1>6, <1>7, <1>8 DEF L!Next

\* At the end what finds its parents is loaded, with the rows before it.
LEMMA AllLoaded ==
    ASSUME ImportTyped, LoadInv, job.op = "commit"
    PROVE  /\ \A q \in dump : L!Found(q, job.loaded) => L!Has(job.loaded, q.table, q.id)
           /\ \A r \in job.loaded : \E q \in dump : MadeOf(r, q, job.loaded)
<1>1. job # L!Idle /\ job.step = 16
  BY JobTyped DEF ImportTyped, LoadInv
<1>2. \A q \in dump : Place[q.table] \in 1..15
  BY TakenTyped, RowTyped, Places DEF ImportTyped
<1> QED
  BY <1>1, <1>2 DEF LoadInv, LoadedUpTo

\* What is loaded, and names no flat that is missing, has its parents, who have theirs.
LEMMA LoadedIsRooted ==
    ASSUME ImportTyped, LoadInv, L!Commit, \A r \in rows \ job.flushed : r.table # "flats",
           NEW r \in job.loaded
    PROVE  \E q \in L!Rooted : q.table = r.table /\ q.id = r.id
<1> DEFINE loaded == job.loaded
           S == {q \in dump : \E l \in loaded : MadeOf(l, q, loaded)}
<1>0. job.op = "commit" /\ L!Sound
  BY DEF L!Commit
<1>1. job # L!Idle /\ \A l \in loaded : L!IsRow(l)
  BY <1>0, JobTyped DEF ImportTyped
<1>2. \A l \in loaded : \E q \in dump : MadeOf(l, q, loaded)
  BY <1>0, AllLoaded
<1>3. \A p, n : L!Has(loaded, p, n) => L!Has(S, p, n)
  <2> SUFFICES ASSUME NEW p, NEW n, NEW l \in loaded, l.table = p, l.id = n
               PROVE  L!Has(S, p, n)
    BY DEF L!Has
  <2>1. PICK q \in dump : MadeOf(l, q, loaded)
    BY <1>2
  <2> QED
    BY <2>1 DEF L!Has, MadeOf
<1>4. ASSUME NEW q \in S, NEW p \in L!Required(q.table) PROVE L!Has(S, p, q.names[p])
  <2>1. q \in dump /\ q.table \in AllTables
    BY TakenTyped, RowTyped DEF ImportTyped
  <2>2. PICK l \in loaded : MadeOf(l, q, loaded)
    OBVIOUS
  <2>3. CASE p \in L!LookedUp(q.table)
    BY <1>3, <2>2, <2>3 DEF MadeOf, L!Found
  <2>4. CASE p \notin L!LookedUp(q.table)
    <3>1. p = "flats" /\ p \notin L!Nullable(q.table) /\ p \in L!Parents(q.table)
      BY <1>4, <2>1, <2>4, ParentsFirst
    <3>2. l.table = q.table /\ l.names[p] = q.names[p]
      BY <1>4, <2>2 DEF MadeOf
    <3>3. p \in DOMAIN l.names
      BY <1>1, <3>1, <3>2, RowTyped
    <3>4. L!Has(L!Seen, p, l.names[p])
      BY <1>0, <3>1, <3>2, <3>3 DEF L!Sound
    <3>5. L!Has(loaded, p, l.names[p])
      BY <3>1, <3>4 DEF L!Has, L!Seen
    <3> QED
      BY <1>3, <3>2, <3>5
  <2> QED
    BY <2>3, <2>4
<1>5. S \in SUBSET dump /\ L!Closed(S)
  BY <1>4 DEF L!Closed
<1>6. PICK q \in dump : MadeOf(r, q, loaded)
  BY <1>2
<1>7. q \in S
  BY <1>6
<1> HIDE DEF S
<1>8. q \in L!Rooted
  BY <1>5, <1>7 DEF L!Rooted
<1> QED
  BY <1>6, <1>8 DEF MadeOf

\* What has its parents, who have theirs, is loaded: the first that were not would find them.
LEMMA RootedIsLoaded ==
    ASSUME ImportTyped, LoadInv, job.op = "commit", NEW q \in L!Rooted
    PROVE  q \in dump /\ L!Has(job.loaded, q.table, q.id)
<1>1. PICK T \in SUBSET dump : L!Closed(T) /\ q \in T
  BY DEF L!Rooted
<1>2. \A t \in T : t \in dump /\ t.table \in AllTables /\ Place[t.table] \in 1..15
  BY TakenTyped, RowTyped, Places DEF ImportTyped
<1> DEFINE missing == {t \in T : ~L!Has(job.loaded, t.table, t.id)}
           places == {Place[t.table] : t \in missing}
<1>3. missing = {}
  <2> SUFFICES ASSUME missing # {} PROVE FALSE
    OBVIOUS
  <2>1. places \in SUBSET Nat /\ places # {}
    BY <1>2
  <2>2. PICK first \in places : \A place \in places : first <= place
    BY <2>1, LeastNatural
  <2>3. PICK t \in missing : first = Place[t.table]
    OBVIOUS
  <2>4. ASSUME NEW p \in L!LookedUp(t.table) PROVE L!Has(job.loaded, p, t.names[p])
    <3>1. p \in L!Required(t.table) /\ Place[p] < Place[t.table] /\ p \in AllTables
      BY <1>2, <2>4, ParentsFirst DEF L!Required
    <3>2. PICK u \in T : u.table = p /\ u.id = t.names[p]
      BY <1>1, <3>1 DEF L!Closed, L!Has
    <3>3. u \notin missing
      <4>1. u \in missing => Place[p] \in places
        BY <3>2
      <4>2. Place[p] \in Nat /\ Place[t.table] \in Nat
        BY <1>2, <3>2
      <4> QED
        BY <2>2, <2>3, <3>1, <4>1, <4>2
    <3> QED
      BY <3>2, <3>3
  <2>5. L!Found(t, job.loaded)
    BY <2>4 DEF L!Found
  <2> QED
    BY <1>2, <2>3, <2>5, AllLoaded
<1> QED
  BY <1>1, <1>2, <1>3

LEMMA OnlyOrphansSkipped == ImportTyped /\ LoadInv => L!SkipsOrphans
<1> SUFFICES ASSUME ImportTyped, LoadInv, L!Commit, \A r \in rows \ job.flushed : r.table # "flats"
             PROVE  {<<r.table, r.id>> : r \in job.loaded} = {<<r.table, r.id>> : r \in L!Rooted}
  BY DEF L!SkipsOrphans
<1>1. job.op = "commit"
  BY DEF L!Commit
<1>2. \A r \in job.loaded : \E q \in L!Rooted : q.table = r.table /\ q.id = r.id
  BY LoadedIsRooted
<1>3. \A q \in L!Rooted : \E r \in job.loaded : q.table = r.table /\ q.id = r.id
  BY <1>1, RootedIsLoaded DEF L!Has
<1> QED
  BY <1>2, <1>3

\* A table that cannot be loaded: a number or a username is taken, or there is nobody to own
\* its rows.
LEMMA TableRefused ==
    ASSUME ImportTyped, LoadInv, job.op = "load", job.step <= 15,
           ~L!Inserts(L!Picked(L!Tables[job.step]))
    PROVE  \/ \E r \in dump : \E q \in (rows \ job.flushed) \cup (dump \ {r}) : L!Clash(r, q)
           \/ \A r \in dump : r.table # "users"
<1> DEFINE loaded == job.loaded
           table == L!Tables[job.step]
           picked == L!Picked(table)
<1>1. job # L!Idle /\ job.step \in 1..15
  BY JobTyped DEF ImportTyped
<1>2. /\ \A q \in dump : Place[q.table] < job.step /\ L!Found(q, loaded) => L!Has(loaded, q.table, q.id)
      /\ \A r \in loaded : Place[r.table] < job.step
  BY <1>1 DEF LoadInv, LoadedUpTo
<1>3. table \in AllTables /\ Place[table] = job.step
  BY <1>1, Places
<1>4. ASSUME NEW r \in picked, NEW q \in L!Seen \cup (picked \ {r}), L!Clash(r, q)
      PROVE  \E d \in dump : \E e \in (rows \ job.flushed) \cup (dump \ {d}) : L!Clash(d, e)
  <2>1. PICK d \in dump : r = L!Taken(d) /\ d.table = table
    BY DEF L!Picked
  <2>2. r.table = table /\ r.table = d.table /\ r.id = d.id /\ r.username = d.username
    BY <2>1, TakenTyped DEF ImportTyped
  <2>3. q.table = table
    BY <1>4, <2>2 DEF L!Clash
  <2>4. CASE q \in L!Seen
    <3>1. q \notin loaded
      BY <1>1, <1>2, <1>3, <2>3
    <3>2. q \in rows \ job.flushed
      BY <2>4, <3>1 DEF L!Seen
    <3>3. L!Clash(d, q)
      BY <1>4, <2>2 DEF L!Clash
    <3> QED
      BY <3>2, <3>3
  <2>5. CASE q \in picked \ {r}
    <3>1. PICK e \in dump : q = L!Taken(e)
      BY <2>5 DEF L!Picked
    <3>2. q.table = e.table /\ q.id = e.id /\ q.username = e.username
      BY <3>1, TakenTyped DEF ImportTyped
    <3>3. e # d
      BY <2>1, <2>5, <3>1
    <3>4. L!Clash(d, e)
      BY <1>4, <2>2, <3>2 DEF L!Clash
    <3> QED
      BY <3>3, <3>4
  <2> QED
    BY <1>4, <2>4, <2>5
<1>5. ASSUME \A u \in loaded \cup picked : u.table # "users", NEW q \in dump, q.table = "users"
      PROVE  FALSE
  <2>1. L!Found(q, loaded)
    BY <1>5 DEF L!Found, L!LookedUp, L!Required, L!Parents, L!Nullable
  <2>2. Place[q.table] = 1
    BY <1>5 DEF Place
  <2>3. CASE job.step = 1
    <3>1. table = "users"
      BY <2>3 DEF L!Tables
    <3>2. L!Taken(q) \in picked
      BY <1>5, <2>1, <3>1 DEF L!Picked
    <3>3. L!Taken(q).table = q.table
      BY TakenTyped DEF ImportTyped
    <3> QED
      BY <1>5, <3>2, <3>3
  <2>4. CASE job.step # 1
    <3>1. Place[q.table] < job.step
      BY <1>1, <2>2, <2>4
    <3> QED
      BY <1>2, <1>5, <2>1, <3>1 DEF L!Has
  <2> QED
    BY <2>3, <2>4
<1>6. \/ \E r \in picked : \E q \in L!Seen \cup (picked \ {r}) : L!Clash(r, q)
      \/ \A u \in loaded \cup picked : u.table # "users"
  BY DEF L!Inserts
<1> QED
  BY <1>4, <1>5, <1>6

\* A transaction that cannot be committed: a part of a settlement names a missing flat.
LEMMA EndRefused ==
    ASSUME ImportTyped, LoadInv, job.op = "commit", ~L!Sound
    PROVE  \E r \in dump : /\ r.table \in {"duetens", "duefees"}
                           /\ ~L!Has(dump, "flats", r.names["flats"])
<1> DEFINE loaded == job.loaded
<1>0. job # L!Idle /\ \A r \in loaded : L!IsRow(r)
  BY JobTyped DEF ImportTyped
<1>1. PICK r \in loaded : \E p \in DOMAIN r.names :
        /\ ~(r.names[p] = 0 /\ p \in L!Nullable(r.table))
        /\ ~L!Has(L!Seen, p, r.names[p])
  BY DEF L!Sound
<1>2. PICK p \in DOMAIN r.names :
        /\ ~(r.names[p] = 0 /\ p \in L!Nullable(r.table))
        /\ ~L!Has(L!Seen, p, r.names[p])
  BY <1>1
<1>3. r.table \in AllTables /\ p \in L!Parents(r.table)
  BY <1>0, RowTyped
<1>4. ~L!Has(loaded, p, r.names[p])
  BY <1>2 DEF L!Has, L!Seen
<1>5. PICK q \in dump : MadeOf(r, q, loaded)
  BY AllLoaded
<1>6. r.table = q.table
  BY <1>5 DEF MadeOf
<1>7. p \notin L!Nullable(r.table)
  BY <1>2, <1>4, <1>5, <1>6 DEF MadeOf
<1>8. p \in L!Required(r.table) /\ r.names[p] = q.names[p]
  BY <1>3, <1>5, <1>6, <1>7, ParentsFirst DEF MadeOf
<1>9. p \notin L!LookedUp(r.table)
  BY <1>4, <1>5, <1>6, <1>8 DEF MadeOf, L!Found
<1>10. p = "flats" /\ r.table \in {"duetens", "duefees"}
  BY <1>3, <1>8, <1>9, ParentsFirst
<1>11. ASSUME NEW f \in dump, f.table = "flats", f.id = q.names["flats"] PROVE FALSE
  <2>1. L!Found(f, loaded)
    BY <1>11 DEF L!Found, L!LookedUp, L!Required, L!Parents, L!Nullable
  <2>2. L!Has(loaded, f.table, f.id)
    BY <2>1, AllLoaded
  <2> QED
    BY <1>4, <1>8, <1>10, <1>11, <2>2
<1> QED
  BY <1>6, <1>10, <1>11 DEF L!Has

LEMMA RefusalsKnown == ImportTyped /\ LoadInv => L!RefusalsListed
<1> SUFFICES ASSUME ImportTyped, LoadInv, L!Fail PROVE L!RefusalsListed
  BY DEF L!RefusalsListed
<1>1. CASE job.op = "load" /\ job.step <= 15 /\ ~L!Inserts(L!Picked(L!Tables[job.step]))
  BY <1>1, TableRefused DEF L!RefusalsListed
<1>2. CASE job.op = "commit" /\ ~L!Sound
  BY <1>2, EndRefused DEF L!RefusalsListed
<1> QED
  BY <1>1, <1>2, LastTable DEF L!Fail

LEMMA ImportStarts == OfficeInit => ImportTyped /\ Numbered /\ LoadInv
<1> SUFFICES ASSUME OfficeInit PROVE ImportTyped /\ Numbered /\ LoadInv
  OBVIOUS
<1>1. PICK s \in {{}, {1}}, username \in Usernames :
        /\ dump \in Dumps /\ supers = s /\ rows = {L!Bare("users", id, username) : id \in s}
        /\ seq = [t \in AllTables |-> IF t = "users" THEN Cardinality(s) ELSE 0]
        /\ job = L!Idle /\ undone = FALSE /\ adds = 0 /\ imports = 0
  <2>1. L!Cardinality(supers) = Cardinality(supers)
    BY DEF L!Cardinality, Cardinality
  <2> QED
    BY <2>1 DEF OfficeInit, L!Init, AllTables
<1>2. Cardinality(s) = IF s = {} THEN 0 ELSE 1
  BY FS_EmptySet, FS_Singleton
<1>3. "users" \in AllTables
  BY DEF AllTables, L!Range, L!Tables
<1>u. username \in Nat
  BY OfficeAssumption
<1>4. rows = IF s = {} THEN {} ELSE {L!Bare("users", 1, username)}
  BY <1>1
<1>5. \A r \in rows : L!IsRow(r) /\ r.table = "users" /\ r.id = 1
  BY <1>3, <1>4, <1>u, BareTyped
<1>6. IsFiniteSet(rows)
  BY <1>4, FS_EmptySet, FS_Singleton
<1>7. supers \subseteq {r.id : r \in {q \in rows : q.table = "users"}}
  BY <1>1, <1>4, <1>5
<1>8. seq \in [AllTables -> Nat]
  BY <1>1, <1>2
<1>9. ImportTyped
  <2>0. undone \in BOOLEAN /\ dump \in Dumps
    BY <1>1
  <2>1. adds \in 0..MaxAdds /\ imports \in 0..MaxImports
    <3>1. MaxAdds \in Nat /\ MaxImports \in Nat
      BY OfficeAssumption
    <3> QED
      BY <1>1, <3>1
  <2>2. \A r \in rows : L!IsRow(r)
    BY <1>5
  <2>3. L!TypeOK
    BY <1>1, <1>7, <1>8, <2>0, <2>1, <2>2 DEF L!TypeOK, AllTables
  <2>4. JobKept
    BY <1>1, <1>6 DEF JobKept
  <2> QED
    BY <2>3, <2>4 DEF ImportTyped
<1>10. \A r \in rows : r.id <= seq[r.table]
  BY <1>1, <1>2, <1>3, <1>4, <1>5
<1>11. job.op = "idle"
  BY <1>1 DEF L!Idle
<1> QED
  BY <1>1, <1>9, <1>10, <1>11 DEF Numbered, LoadInv

\* Whatever the old database has and the site does meanwhile, an import after --flush loads
\* the rows that have their parents and no other, and one that is refused is so because a part
\* of a settlement names a missing flat, because a number or a username is taken, or because
\* the dump has no user to own the rows.
THEOREM ImportsRun == OfficeSpec => ImportRuns
<1> DEFINE Inv == ImportTyped /\ LoadInv
<1>1. OfficeInit => Inv
  BY ImportStarts
<1>2. Inv /\ [OfficeNext]_office => Inv'
  BY ImportSteps, ImportTypeStep, LoadStep
<1>3. ASSUME Inv, [OfficeNext]_office PROVE [L!SkipsOrphans /\ L!RefusalsListed]_import
  BY <1>3, OnlyOrphansSkipped, RefusalsKnown
<1> QED
  BY <1>1, <1>2, <1>3, PTL DEF OfficeSpec, ImportRuns

(***************************************************************************)
(* Accounts: what is kept of the rows, those stored and those in hand.     *)
(***************************************************************************)

\* The rows of accounts that requests have in hand.
Holding == {"queue", "activate", "login", "settings", "renew"}
Held == {request[c].row : c \in {d \in Clients : request[d].op \in Holding}}

\* What is true of every version of an account, with the links mailed and the last number.
RowKept(row, links, top) ==
    /\ row \in User
    /\ row.id \in 1..top /\ row.hash \in 1..top /\ row.password \in 1..top
    /\ row.legacy <=> row.hash = 1
    /\ row.legacy => row.id = 1
    /\ row.id = 1 => row.active
    /\ ~row.active => row.hash = row.id /\ row.login = 0
    /\ row.active /\ row.id # 1 => row.verified /\ \E link \in links : link.user = row.id
    /\ row.login # 0 => ~row.legacy

\* What holds between two versions of an account, one stored and one in hand: activation
\* and the replacement of an md5 hash are not undone.
Succeeds(u, row) ==
    /\ u.name = row.name /\ u.exact = row.exact
    /\ row.active => u.active
    /\ u.legacy => row.legacy

RowsKept(stored, held, links, top, deleted) ==
    /\ \A v \in stored \cup held : RowKept(v, links, top)
    /\ \A u, v \in stored : u.id = v.id => u = v
    /\ \A u, v \in stored \cup held : u.id = v.id => u.name = v.name /\ u.exact = v.exact
    /\ \A v \in held : v.id \in deleted \/ \E u \in stored : u.id = v.id
    /\ \A v \in held, u \in stored : u.id = v.id => Succeeds(u, v)
    /\ \A u, v \in stored : u.name = v.name => u = v \/ u.id \in deleted \/ v.id \in deleted

LEMMA RowLater ==
    ASSUME NEW row, NEW links, NEW more, links \subseteq more,
           NEW top \in Nat, NEW higher \in Nat, top <= higher, RowKept(row, links, top)
    PROVE  RowKept(row, more, higher)
<1>1. /\ row.id \in 1..higher /\ row.hash \in 1..higher /\ row.password \in 1..higher
      /\ (\E link \in links : link.user = row.id) => \E link \in more : link.user = row.id
  BY DEF RowKept
<1> QED
  BY <1>1 DEF RowKept

LEMMA RowsLater ==
    ASSUME NEW stored, NEW held, NEW fewer, fewer \subseteq held,
           NEW links, NEW more, links \subseteq more,
           NEW top \in Nat, NEW higher \in Nat, top <= higher,
           NEW deleted, RowsKept(stored, held, links, top, deleted)
    PROVE  RowsKept(stored, fewer, more, higher, deleted)
<1>1. \A v \in stored \cup fewer : RowKept(v, more, higher)
  BY RowLater DEF RowsKept
<1> QED
  BY <1>1 DEF RowsKept

\* A row is written: one that was there, one that was deleted, or a new one.
LEMMA RowWritten ==
    ASSUME NEW stored, NEW held, NEW links, NEW top, NEW deleted,
           RowsKept(stored, held, links, top, deleted),
           NEW row, RowKept(row, links, top),
           \A v \in stored \cup held : v.id = row.id => Succeeds(row, v),
           \/ row.id \in deleted
           \/ \E u \in stored : u.id = row.id
           \/ \A u \in stored : u.name = row.name => u.id \in deleted
    PROVE  RowsKept({u \in stored : u.id # row.id} \cup {row}, held, links, top, deleted)
<1> DEFINE after == {u \in stored : u.id # row.id} \cup {row}
<1>1. \A v \in after \cup held : RowKept(v, links, top)
  BY DEF RowsKept
<1>2. \A u, v \in after : u.id = v.id => u = v
  BY DEF RowsKept
<1>3. \A u, v \in after \cup held : u.id = v.id => u.name = v.name /\ u.exact = v.exact
  <2>1. \A v \in stored \cup held : v.id = row.id => v.name = row.name /\ v.exact = row.exact
    BY DEF Succeeds
  <2>2. \A v \in after \cup held : v \in stored \cup held \/ v = row
    OBVIOUS
  <2>3. \A u, v \in stored \cup held : u.id = v.id => u.name = v.name /\ u.exact = v.exact
    BY DEF RowsKept
  <2> HIDE DEF after
  <2> QED
    BY <2>1, <2>2, <2>3
<1>4. \A v \in held : v.id \in deleted \/ \E u \in after : u.id = v.id
  BY DEF RowsKept
<1>5. \A v \in held, u \in after : u.id = v.id => Succeeds(u, v)
  BY DEF RowsKept
<1>6. \A u, v \in after : u.name = v.name => u = v \/ u.id \in deleted \/ v.id \in deleted
  <2>1. ASSUME NEW u \in stored, u.id # row.id, u.name = row.name
        PROVE  u.id \in deleted \/ row.id \in deleted
    <3>1. ASSUME NEW w \in stored, w.id = row.id PROVE u.id \in deleted \/ row.id \in deleted
      <4>1. w.name = row.name /\ w # u
        BY <2>1, <3>1 DEF Succeeds
      <4> QED
        BY <2>1, <3>1, <4>1 DEF RowsKept
    <3> QED
      BY <2>1, <3>1
  <2> QED
    BY <2>1 DEF RowsKept
<1> QED
  BY <1>1, <1>2, <1>3, <1>4, <1>5, <1>6 DEF RowsKept

\* A row is taken in hand.
LEMMA RowTaken ==
    ASSUME NEW stored, NEW held, NEW links, NEW top, NEW deleted,
           RowsKept(stored, held, links, top, deleted),
           NEW row, RowKept(row, links, top),
           row.id \in deleted \/ \E u \in stored : u.id = row.id,
           \A v \in stored \cup held : v.id = row.id => v.name = row.name /\ v.exact = row.exact,
           \A u \in stored : u.id = row.id => Succeeds(u, row)
    PROVE  RowsKept(stored, held \cup {row}, links, top, deleted)
<1> DEFINE more == held \cup {row}
<1>1. \A v \in stored \cup more : RowKept(v, links, top)
  BY DEF RowsKept
<1>2. \A u, v \in stored \cup more : u.id = v.id => u.name = v.name /\ u.exact = v.exact
  <2>1. \A v \in stored \cup more : v \in stored \cup held \/ v = row
    OBVIOUS
  <2>2. \A u, v \in stored \cup held : u.id = v.id => u.name = v.name /\ u.exact = v.exact
    BY DEF RowsKept
  <2> HIDE DEF more
  <2> QED
    BY <2>1, <2>2
<1>3. \A v \in more : v.id \in deleted \/ \E u \in stored : u.id = v.id
  BY DEF RowsKept
<1>4. \A v \in more, u \in stored : u.id = v.id => Succeeds(u, v)
  BY DEF RowsKept
<1> QED
  BY <1>1, <1>2, <1>3, <1>4 DEF RowsKept

\* A row that is stored is taken in hand.
LEMMA StoredTaken ==
    ASSUME NEW stored, NEW held, NEW links, NEW top, NEW deleted,
           RowsKept(stored, held, links, top, deleted), NEW row \in stored
    PROVE  RowsKept(stored, held \cup {row}, links, top, deleted)
<1>1. \A u \in stored : u.id = row.id => u = row
  BY DEF RowsKept
<1>2. \A u \in stored : u.id = row.id => Succeeds(u, row)
  BY <1>1 DEF Succeeds
<1>3. \A v \in stored \cup held : v.id = row.id => v.name = row.name /\ v.exact = row.exact
  BY DEF RowsKept
<1>4. RowKept(row, links, top)
  BY DEF RowsKept
<1> QED
  BY <1>2, <1>3, <1>4, RowTaken

\* An account is deleted.
LEMMA RowDeleted ==
    ASSUME NEW stored, NEW held, NEW links, NEW top, NEW deleted,
           RowsKept(stored, held, links, top, deleted), NEW row \in stored
    PROVE  RowsKept(stored \ {row}, held, links, top, deleted \cup {row.id})
BY DEF RowsKept

(***************************************************************************)
(* Accounts: requests, sessions and links.                                 *)
(***************************************************************************)

\* What the request q knows: no other account has its address in lower case, the account
\* waits, its link was mailed, or its session is of the account.
RequestKept(q, stored, links, open, top, deleted) ==
    /\ q.op = "register" =>
         \A u \in stored : u.name = q.name => u.exact = TRUE \/ u.id \in deleted
    /\ q.op = "queue" => ~q.row.active
    /\ q.op = "activate" => \E link \in links : link.user = q.row.id
    /\ q.op \in {"settings", "renew"} =>
         /\ q.row.active /\ ~q.row.legacy /\ q.session <= top
         /\ \A s \in open : s.id = q.session => s.user = q.row.id

\* Rows and sessions that follow others: of the same accounts, or new.
RowsFollow(after, stored, deleted) ==
    \A u \in after : \/ \E v \in stored : v.id = u.id /\ v.name = u.name /\ v.exact = u.exact
                     \/ u.exact = TRUE
                     \/ u.id \in deleted

SessionsFollow(then, open, top) ==
    \A s \in then : s.id <= top => \E t \in open : t.id = s.id /\ t.user = s.user

LEMMA RequestLater ==
    ASSUME NEW q \in Request, NEW stored, NEW after, NEW links, NEW more, links \subseteq more,
           NEW open, NEW then, NEW top \in Nat, NEW higher \in Nat, top <= higher,
           NEW deleted, NEW gone2, deleted \subseteq gone2,
           RowsFollow(after, stored, gone2), SessionsFollow(then, open, top),
           RequestKept(q, stored, links, open, top, deleted)
    PROVE  RequestKept(q, after, more, then, higher, gone2)
<1>1. q.op = "register" => \A u \in after : u.name = q.name => u.exact = TRUE \/ u.id \in gone2
  BY DEF RequestKept, RowsFollow
<1>2. q.op = "activate" => \E link \in more : link.user = q.row.id
  BY DEF RequestKept
<1>3. ASSUME q.op \in {"settings", "renew"}
      PROVE  q.session <= higher /\ \A s \in then : s.id = q.session => s.user = q.row.id
  <2>1. q.session \in Nat
    BY <1>3 DEF Request, Idle
  <2> QED
    BY <1>3, <2>1 DEF RequestKept, SessionsFollow
<1> QED
  BY <1>1, <1>2, <1>3 DEF RequestKept

\* Sessions have numbers of their own, and none has the hash of an imported account.
SessionsKept(open, top) ==
    /\ \A s \in open : /\ s \in Session /\ s.id <= top
                       /\ s.hash <= top /\ s.hash # 1
    /\ \A s, t \in open : s.id = t.id => s = t

\* A link is made of an account that waits.
LinksKept(links) == \A link \in links : link \in Link /\ link.hash = link.user /\ link.login = 0

AccountsInv ==
    /\ request \in [Clients -> Request] /\ now \in 0..LastTime /\ last \in Nat /\ 1 <= last
    /\ gone \subseteq Nat
    /\ RowsKept(users, Held, mailed, last, gone)
    /\ \A c \in Clients : RequestKept(request[c], users, mailed, sessions, last, gone)
    /\ SessionsKept(sessions, last)
    /\ LinksKept(queue \cup mailed)

LEMMA AccountsTyped == AccountsInv => TypeOK
BY DEF AccountsInv, TypeOK, RowsKept, RowKept, SessionsKept, LinksKept

\* What AccountsInv says is kept.
LEMMA AccountsHold == AccountsInv => AccountsKept
<1> SUFFICES ASSUME AccountsInv PROVE AccountsKept
  OBVIOUS
<1>1. \A u \in users : RowKept(u, mailed, last)
  BY DEF AccountsInv, RowsKept
<1>2. OneAccountPerAddress
  BY DEF AccountsInv, RowsKept, OneAccountPerAddress
<1>3. ActivatedByLink
  BY <1>1 DEF RowKept, ActivatedByLink
<1>4. LinksWork
  BY <1>1 DEF AccountsInv, LinksKept, RowKept, LinksWork, ById, Fits
<1>5. UpgradedOnLogin
  BY <1>1 DEF RowKept, UpgradedOnLogin
<1> QED
  BY <1>2, <1>3, <1>4, <1>5 DEF AccountsKept

(***************************************************************************)
(* Accounts: the steps.                                                    *)
(***************************************************************************)

\* The tables after a step, when the rows in hand are some of held.
TablesKeptAfter(held) ==
    /\ now' \in 0..LastTime /\ last' \in Nat /\ last <= last' /\ gone' \subseteq Nat
    /\ gone \subseteq gone' /\ mailed \subseteq mailed'
    /\ RowsKept(users', held, mailed', last', gone')
    /\ SessionsKept(sessions', last') /\ LinksKept(queue' \cup mailed')
    /\ RowsFollow(users', users, gone') /\ SessionsFollow(sessions', sessions, last)

LEMMA RequestsStay ==
    ASSUME AccountsInv, NEW held, TablesKeptAfter(held), NEW d \in Clients
    PROVE  RequestKept(request[d], users', mailed', sessions', last', gone')
<1>1. request[d] \in Request /\ last \in Nat
  BY DEF AccountsInv
<1>2. RequestKept(request[d], users, mailed, sessions, last, gone)
  BY DEF AccountsInv
<1>3. mailed \subseteq mailed' /\ last' \in Nat /\ last <= last' /\ gone \subseteq gone'
  BY DEF TablesKeptAfter
<1>4. RowsFollow(users', users, gone') /\ SessionsFollow(sessions', sessions, last)
  BY DEF TablesKeptAfter
<1> QED
  BY <1>1, <1>2, <1>3, <1>4, RequestLater

LEMMA Moves ==
    ASSUME AccountsInv, NEW c \in Clients, NEW r \in Request,
           request' = [request EXCEPT ![c] = r],
           NEW held, Held \subseteq held, r.op \in Holding => r.row \in held,
           TablesKeptAfter(held),
           RequestKept(r, users', mailed', sessions', last', gone')
    PROVE  AccountsInv'
<1>1. /\ request \in [Clients -> Request] /\ last \in Nat /\ 1 <= last
  BY DEF AccountsInv
<1>2. /\ request' \in [Clients -> Request] /\ request'[c] = r
      /\ \A d \in Clients : d # c => request'[d] = request[d]
  BY <1>1
<1>3. Held' \subseteq held
  <2> SUFFICES ASSUME NEW d \in Clients, request'[d].op \in Holding PROVE request'[d].row \in held
    BY DEF Held
  <2> QED
    BY <1>2 DEF Held
<1>4. RowsKept(users', Held', mailed', last', gone')
  BY <1>3, RowsLater DEF TablesKeptAfter
<1>5. \A d \in Clients : RequestKept(request'[d], users', mailed', sessions', last', gone')
  BY <1>2, RequestsStay
<1>6. last' \in Nat /\ 1 <= last'
  BY <1>1 DEF TablesKeptAfter
<1> QED
  BY <1>2, <1>4, <1>5, <1>6 DEF AccountsInv, TablesKeptAfter

LEMMA Stays ==
    ASSUME AccountsInv, request' = request, TablesKeptAfter(Held)
    PROVE  AccountsInv'
<1>1. /\ request \in [Clients -> Request] /\ last \in Nat /\ 1 <= last
  BY DEF AccountsInv
<1>2. Held' = Held
  BY DEF Held
<1>3. \A d \in Clients : RequestKept(request'[d], users', mailed', sessions', last', gone')
  BY RequestsStay
<1>4. last' \in Nat /\ 1 <= last'
  BY <1>1 DEF TablesKeptAfter
<1> QED
  BY <1>1, <1>2, <1>3, <1>4 DEF AccountsInv, TablesKeptAfter

\* A request that reads, and one that ends without writing.
LEMMA Reads ==
    ASSUME AccountsInv, NEW c \in Clients, NEW r \in Request,
           request' = [request EXCEPT ![c] = r],
           UNCHANGED <<users, sessions, queue, mailed, now, last, gone>>,
           r.op \in Holding => r.row \in users,
           RequestKept(r, users, mailed, sessions, last, gone)
    PROVE  AccountsInv'
<1>1. ASSUME NEW held, RowsKept(users, held, mailed, last, gone) PROVE TablesKeptAfter(held)
  BY <1>1 DEF AccountsInv, TablesKeptAfter, RowsFollow, SessionsFollow
<1>2. RequestKept(r, users', mailed', sessions', last', gone')
  OBVIOUS
<1>3. CASE r.op \in Holding
  <2>1. RowsKept(users, Held \cup {r.row}, mailed, last, gone)
    BY <1>3, StoredTaken DEF AccountsInv
  <2> QED
    BY <1>1, <1>2, <2>1, Moves
<1>4. CASE r.op \notin Holding
  <2>1. RowsKept(users, Held, mailed, last, gone)
    BY DEF AccountsInv
  <2> QED
    BY <1>1, <1>2, <1>4, <2>1, Moves
<1> QED
  BY <1>3, <1>4

LEMMA IdleKept ==
    /\ Idle \in Request /\ Idle.op \notin Holding
    /\ \A stored, links, open, top, deleted : RequestKept(Idle, stored, links, open, top, deleted)
BY DEF Idle, Request, Holding, RequestKept

LEMMA HeldRow ==
    ASSUME AccountsInv, NEW c \in Clients, request[c].op \in Holding
    PROVE  /\ request[c].row \in Held /\ request[c].row \in User
           /\ RowKept(request[c].row, mailed, last)
           /\ \A u \in users : u.id = request[c].row.id => Succeeds(u, request[c].row)
           /\ request[c].row.id \in gone \/ \E u \in users : u.id = request[c].row.id
           /\ \A v \in users \cup Held : v.id = request[c].row.id =>
                v.name = request[c].row.name /\ v.exact = request[c].row.exact
<1>1. request[c].row \in Held
  BY DEF Held
<1>2. RowsKept(users, Held, mailed, last, gone)
  BY DEF AccountsInv
<1>3. RowKept(request[c].row, mailed, last)
  BY <1>1, <1>2 DEF RowsKept
<1>4. \A v \in users \cup Held : v.id = request[c].row.id =>
                v.name = request[c].row.name /\ v.exact = request[c].row.exact
  BY <1>1, <1>2 DEF RowsKept
<1> QED
  BY <1>1, <1>2, <1>3, <1>4 DEF RowsKept, RowKept

LEMMA ReadSteps ==
    ASSUME AccountsInv, NEW c \in Clients,
           RegisterRead(c) \/ RegisterAbort(c) \/ Resend(c) \/ ActivateRead(c) \/ LoginRead(c)
             \/ LoginRefused(c) \/ SettingsRead(c) \/ Crash(c)
    PROVE  AccountsInv'
<1>u. \A u \in users : u \in User /\ RowKept(u, mailed, last)
  BY DEF AccountsInv, RowsKept, RowKept
<1>1. CASE RegisterRead(c)
  <2>1. PICK name \in Names :
          ~Known(name) /\ request' = [request EXCEPT ![c] = [op |-> "register", name |-> name]]
    BY <1>1 DEF RegisterRead
  <2>2. /\ [op |-> "register", name |-> name] \in Request
        /\ RequestKept([op |-> "register", name |-> name], users, mailed, sessions, last, gone)
    BY <2>1 DEF Request, RequestKept, Known
  <2> QED
    BY <1>1, <2>1, <2>2, Reads DEF RegisterRead, Holding
<1>2. CASE RegisterAbort(c) \/ LoginRefused(c) \/ Crash(c)
  BY <1>2, IdleKept, Reads DEF RegisterAbort, LoginRefused, Crash, Done
<1>3. CASE Resend(c)
  <2>1. PICK u \in users :
          ~u.active /\ request' = [request EXCEPT ![c] = [op |-> "queue", row |-> u]]
    BY <1>3 DEF Resend
  <2>2. /\ [op |-> "queue", row |-> u] \in Request
        /\ RequestKept([op |-> "queue", row |-> u], users, mailed, sessions, last, gone)
    BY <1>u, <2>1 DEF Request, RequestKept
  <2> QED
    BY <1>3, <2>1, <2>2, Reads DEF Resend
<1>4. CASE ActivateRead(c)
  <2>1. PICK link \in mailed, u \in users :
          /\ Fits(link, u)
          /\ request' = [request EXCEPT ![c] = [op |-> "activate", row |-> u]]
    BY <1>4 DEF ActivateRead
  <2>2. /\ [op |-> "activate", row |-> u] \in Request
        /\ RequestKept([op |-> "activate", row |-> u], users, mailed, sessions, last, gone)
    BY <1>u, <2>1 DEF Request, RequestKept, Fits
  <2> QED
    BY <1>4, <2>1, <2>2, Reads DEF ActivateRead
<1>5. CASE LoginRead(c)
  <2>1. PICK u \in users : request' = [request EXCEPT ![c] = [op |-> "login", row |-> u]]
    BY <1>5 DEF LoginRead
  <2>2. /\ [op |-> "login", row |-> u] \in Request
        /\ RequestKept([op |-> "login", row |-> u], users, mailed, sessions, last, gone)
    BY <1>u, <2>1 DEF Request, RequestKept
  <2> QED
    BY <1>5, <2>1, <2>2, Reads DEF LoginRead
<1>6. CASE SettingsRead(c)
  <2>1. PICK s \in sessions, u \in users :
          /\ u \in Owners(s)
          /\ request' = [request EXCEPT ![c] = [op |-> "settings", row |-> u, session |-> s.id]]
    BY <1>6 DEF SettingsRead
  <2>2. /\ s \in Session /\ s.id \in Nat /\ s.id <= last /\ s.hash # 1
        /\ \A t \in sessions : t.id = s.id => t = s
    BY <2>1 DEF AccountsInv, SessionsKept, Session
  <2>3. u.id = s.user /\ u.hash = s.hash /\ u.active
    BY <2>1 DEF Owners, ById
  <2>4. ~u.legacy
    BY <1>u, <2>2, <2>3 DEF RowKept
  <2>5. [op |-> "settings", row |-> u, session |-> s.id] \in Request
    BY <1>u, <2>2 DEF Request
  <2>6. RequestKept([op |-> "settings", row |-> u, session |-> s.id],
                    users, mailed, sessions, last, gone)
    BY <2>2, <2>3, <2>4 DEF RequestKept
  <2> QED
    BY <1>6, <2>1, <2>5, <2>6, Reads DEF SettingsRead
<1> QED
  BY <1>1, <1>2, <1>3, <1>4, <1>5, <1>6

LEMMA RegisterSaves == ASSUME AccountsInv, NEW c \in Clients, RegisterSave(c) PROVE AccountsInv'
<1> DEFINE name == request[c].name
           row == NewUser(last + 1, name)
           r == [op |-> "queue", row |-> row]
<1>1. /\ request[c] \in Request /\ last \in Nat /\ 1 <= last
      /\ RowsKept(users, Held, mailed, last, gone)
      /\ RequestKept(request[c], users, mailed, sessions, last, gone)
      /\ SessionsKept(sessions, last) /\ LinksKept(queue \cup mailed)
      /\ now \in 0..LastTime /\ gone \subseteq Nat
  BY DEF AccountsInv
<1>2. /\ ~Taken(name, TRUE) /\ last' = last + 1 /\ users' = users \cup {row}
      /\ request' = [request EXCEPT ![c] = r]
      /\ UNCHANGED <<sessions, queue, mailed, now, gone>>
      /\ request[c].op = "register"
  BY DEF RegisterSave, Fresh
<1>3. name \in Names
  BY <1>1, <1>2 DEF Request, Idle
<1>4. /\ row.id = last + 1 /\ row.hash = last + 1 /\ row.password = last + 1 /\ row.name = name /\ row.exact = TRUE
      /\ row.active = FALSE /\ row.legacy = FALSE /\ row.login = 0
      /\ row \in User
  BY <1>1, <1>3, AccountsAssumption DEF NewUser, User
<1>5. RowKept(row, mailed, last + 1)
  BY <1>1, <1>4 DEF RowKept
<1>6. RowsKept(users, Held, mailed, last + 1, gone)
  BY <1>1, RowsLater
<1>7. \A v \in users \cup Held : v.id # last + 1
  BY <1>1 DEF RowsKept, RowKept
<1>8. \A u \in users : u.name = name => u.id \in gone
  BY <1>1, <1>2 DEF RequestKept, Taken
<1> HIDE DEF row
<1>9. RowsKept(users', Held, mailed, last + 1, gone)
  <2>1. RowsKept({u \in users : u.id # row.id} \cup {row}, Held, mailed, last + 1, gone)
    BY <1>4, <1>5, <1>6, <1>7, <1>8, RowWritten
  <2>2. users' = {u \in users : u.id # row.id} \cup {row}
    BY <1>2, <1>4, <1>7
  <2> QED
    BY <2>1, <2>2
<1>10. RowsKept(users', Held \cup {row}, mailed', last', gone')
  BY <1>2, <1>9, StoredTaken
<1>11. SessionsKept(sessions', last')
  BY <1>1, <1>2 DEF SessionsKept, Session
<1>12. TablesKeptAfter(Held \cup {row})
  <2>1. \A u \in users' : (\E v \in users : v.id = u.id /\ v.name = u.name /\ v.exact = u.exact)
                          \/ u.exact = TRUE
    BY <1>2, <1>4
  <2> QED
    BY <1>1, <1>2, <1>10, <1>11, <2>1 DEF TablesKeptAfter, RowsFollow, SessionsFollow
<1>13. RequestKept(r, users', mailed', sessions', last', gone') /\ r \in Request /\ r.op \in Holding
  BY <1>4 DEF RequestKept, Request, Holding
<1> QED
  BY <1>2, <1>12, <1>13, Moves

LEMMA LinkSteps ==
    ASSUME AccountsInv, (\E c \in Clients : QueueLink(c)) \/ Deliver \/ LoseTask
    PROVE  AccountsInv'
<1>1. /\ request \in [Clients -> Request] /\ last \in Nat
      /\ RowsKept(users, Held, mailed, last, gone)
      /\ SessionsKept(sessions, last) /\ LinksKept(queue \cup mailed)
      /\ now \in 0..LastTime /\ gone \subseteq Nat
  BY DEF AccountsInv
<1>2. ASSUME UNCHANGED <<users, sessions, now, last, gone>>, mailed \subseteq mailed',
             LinksKept(queue' \cup mailed')
      PROVE  TablesKeptAfter(Held)
  <2>1. RowsKept(users', Held, mailed', last', gone')
    BY <1>1, <1>2, RowsLater
  <2> QED
    BY <1>1, <1>2, <2>1 DEF TablesKeptAfter, RowsFollow, SessionsFollow
<1>3. ASSUME NEW c \in Clients, QueueLink(c) PROVE AccountsInv'
  <2> DEFINE row == request[c].row
             link == [user |-> row.id, hash |-> row.hash, login |-> row.login, made |-> now]
  <2>1. /\ request[c].op = "queue" /\ queue' = queue \cup {link}
        /\ request' = [request EXCEPT ![c] = Idle]
        /\ UNCHANGED <<users, sessions, mailed, now, last, gone>>
    BY <1>3 DEF QueueLink, Done
  <2>2. row \in User /\ RowKept(row, mailed, last)
    BY <2>1, HeldRow DEF Holding
  <2>3. ~row.active
    BY <2>1 DEF AccountsInv, RequestKept
  <2>4. link \in Link /\ link.hash = link.user /\ link.login = 0
    BY <1>1, <2>2, <2>3, AccountsAssumption DEF Link, User, RowKept
  <2> HIDE DEF link
  <2>5. LinksKept(queue' \cup mailed')
    BY <1>1, <2>1, <2>4 DEF LinksKept
  <2> QED
    BY <1>2, <2>1, <2>5, IdleKept, Moves
<1>4. ASSUME Deliver \/ LoseTask PROVE AccountsInv'
  <2>1. /\ request' = request /\ UNCHANGED <<users, sessions, now, last, gone>>
        /\ mailed \subseteq mailed' /\ queue' \cup mailed' \subseteq queue \cup mailed
    BY <1>4 DEF Deliver, LoseTask
  <2>2. LinksKept(queue' \cup mailed')
    BY <1>1, <2>1 DEF LinksKept
  <2> QED
    BY <1>2, <2>1, <2>2, Stays
<1> QED
  BY <1>3, <1>4

LEMMA TableSteps ==
    ASSUME AccountsInv, Visit \/ Leave \/ DeleteAccount \/ Tick
    PROVE  AccountsInv'
<1>1. /\ request \in [Clients -> Request] /\ last \in Nat
      /\ RowsKept(users, Held, mailed, last, gone)
      /\ SessionsKept(sessions, last) /\ LinksKept(queue \cup mailed)
      /\ now \in 0..LastTime /\ gone \subseteq Nat
      /\ \A u \in users : u \in User
  BY DEF AccountsInv, RowsKept, RowKept
<1>2. ASSUME UNCHANGED <<users, mailed, queue, request, now, last, gone>>,
             SessionsKept(sessions', last),
             \A s \in sessions' : \E t \in sessions : t.id = s.id /\ t.user = s.user
      PROVE  AccountsInv'
  <2>1. TablesKeptAfter(Held)
    BY <1>1, <1>2 DEF TablesKeptAfter, RowsFollow, SessionsFollow
  <2> QED
    BY <1>2, <2>1, Stays
<1>3. CASE Visit
  <2>1. PICK s \in sessions, u \in users :
          sessions' = (sessions \ {s}) \cup {[s EXCEPT !.expires = now + u.window]}
    BY <1>3 DEF Visit
  <2>2. s \in Session /\ now + u.window \in Nat
    BY <1>1, AccountsAssumption DEF SessionsKept, User
  <2> DEFINE t == [s EXCEPT !.expires = now + u.window]
  <2>3. t \in Session /\ t.id = s.id /\ t.user = s.user /\ t.hash = s.hash
    BY <2>2 DEF Session
  <2>a. sessions' = (sessions \ {s}) \cup {t}
    BY <2>1
  <2> HIDE DEF t
  <2>4. SessionsKept(sessions', last)
    BY <1>1, <2>a, <2>3 DEF SessionsKept
  <2>5. \A r \in sessions' : \E q \in sessions : q.id = r.id /\ q.user = r.user
    BY <2>a, <2>3
  <2> QED
    BY <1>2, <1>3, <2>4, <2>5 DEF Visit
<1>4. CASE Leave
  <2>1. sessions' \subseteq sessions
    BY <1>4 DEF Leave
  <2>2. SessionsKept(sessions', last)
    BY <1>1, <2>1 DEF SessionsKept
  <2> QED
    BY <1>2, <1>4, <2>1, <2>2 DEF Leave
<1>5. CASE DeleteAccount
  <2>1. PICK u \in users : users' = users \ {u} /\ gone' = gone \cup {u.id}
    BY <1>5 DEF DeleteAccount
  <2>2. UNCHANGED <<sessions, queue, mailed, request, now, last>>
    BY <1>5 DEF DeleteAccount
  <2>3. RowsKept(users', Held, mailed', last', gone')
    BY <1>1, <2>1, <2>2, RowDeleted
  <2>4. gone' \subseteq Nat
    BY <1>1, <2>1 DEF User
  <2>5. TablesKeptAfter(Held)
    BY <1>1, <2>1, <2>2, <2>3, <2>4 DEF TablesKeptAfter, RowsFollow, SessionsFollow
  <2> QED
    BY <2>2, <2>5, Stays
<1>6. CASE Tick
  <2>1. now' \in 0..LastTime /\ UNCHANGED <<users, sessions, queue, mailed, request, last, gone>>
    BY <1>1, <1>6, AccountsAssumption DEF Tick
  <2>2. TablesKeptAfter(Held)
    BY <1>1, <2>1 DEF TablesKeptAfter, RowsFollow, SessionsFollow
  <2> QED
    BY <2>1, <2>2, Stays
<1> QED
  BY <1>3, <1>4, <1>5, <1>6

\* The account of a request is changed as activation and logging in do.
LEMMA RowChanged ==
    ASSUME AccountsInv, NEW u \in users, NEW w, NEW top \in Nat, last <= top,
           RowKept(w, mailed, top), w.id = u.id, w.name = u.name, w.exact = u.exact,
           u.active => w.active, w.legacy => u.legacy
    PROVE  /\ RowsKept({v \in users : v.id # w.id} \cup {w}, Held, mailed, top, gone)
           /\ RowsFollow({v \in users : v.id # w.id} \cup {w}, users, gone)
<1>1. RowsKept(users, Held, mailed, last, gone) /\ last \in Nat
  BY DEF AccountsInv
<1>2. RowsKept(users, Held, mailed, top, gone)
  BY <1>1, RowsLater
<1>3. \A v \in users : v.id = u.id => v = u
  BY <1>1 DEF RowsKept
<1>4. \A v \in Held : v.id = u.id => Succeeds(u, v)
  BY <1>1 DEF RowsKept
<1>5. \A v \in users \cup Held : v.id = w.id => Succeeds(w, v)
  BY <1>3, <1>4 DEF Succeeds
<1>6. RowsKept({v \in users : v.id # w.id} \cup {w}, Held, mailed, top, gone)
  BY <1>2, <1>5, RowWritten
<1> QED
  BY <1>6 DEF RowsFollow

LEMMA Activates == ASSUME AccountsInv, NEW c \in Clients, ActivateSave(c) PROVE AccountsInv'
<1> DEFINE row == request[c].row
           After(u) == [u EXCEPT !.active = TRUE, !.verified = TRUE]
<1>1. /\ last \in Nat /\ now \in 0..LastTime /\ gone \subseteq Nat
      /\ RowsKept(users, Held, mailed, last, gone)
      /\ SessionsKept(sessions, last) /\ LinksKept(queue \cup mailed)
      /\ \A u \in users : RowKept(u, mailed, last)
      /\ \A u, v \in users : u.id = v.id => u = v
  BY DEF AccountsInv, RowsKept
<1>2. /\ request[c].op = "activate" /\ request' = [request EXCEPT ![c] = Idle]
      /\ users' = {IF u.id = row.id THEN After(u) ELSE u : u \in users}
      /\ UNCHANGED <<sessions, queue, mailed, now, last, gone>>
  BY DEF ActivateSave, Done
<1>3. \E link \in mailed : link.user = row.id
  BY <1>2 DEF AccountsInv, RequestKept
<1>4. RowsKept(users', Held, mailed, last, gone) /\ RowsFollow(users', users, gone)
  <2>1. CASE \A u \in users : u.id # row.id
    <3>1. users' = users
      BY <1>2, <2>1
    <3> QED
      BY <1>1, <3>1 DEF RowsFollow
  <2>2. ASSUME NEW u \in users, u.id = row.id
        PROVE  RowsKept(users', Held, mailed, last, gone) /\ RowsFollow(users', users, gone)
    <3> DEFINE w == After(u)
    <3>1. users' = {v \in users : v.id # row.id} \cup {w}
      <4> HIDE DEF After
      <4> QED
        BY <1>1, <1>2, <2>2
    <3>2. RowKept(u, mailed, last) /\ u \in User
      BY <1>1 DEF RowKept
    <3>3. /\ w \in User /\ w.id = u.id /\ w.name = u.name /\ w.exact = u.exact
          /\ w.active = TRUE /\ w.verified = TRUE
          /\ w.hash = u.hash /\ w.password = u.password
          /\ w.legacy = u.legacy /\ w.login = u.login
      BY <3>2 DEF User
    <3> HIDE DEF w
    <3>4. RowKept(w, mailed, last)
      BY <1>3, <2>2, <3>2, <3>3 DEF RowKept
    <3> QED
      BY <1>1, <2>2, <3>1, <3>3, <3>4, RowChanged
  <2> QED
    BY <2>1, <2>2
<1>5. TablesKeptAfter(Held)
  <2>1. UNCHANGED <<sessions, queue, mailed, now, last, gone>>
    BY <1>2
  <2> QED
    BY <1>1, <1>4, <2>1 DEF TablesKeptAfter, SessionsFollow
<1> QED
  BY <1>2, <1>5, IdleKept, Moves

LEMMA LoginUpgrades == ASSUME AccountsInv, NEW c \in Clients, LoginUpgrade(c) PROVE AccountsInv'
<1> DEFINE row == request[c].row
           After(u) == Upgraded(row, u, last + 1)
           new == After(row)
           r == [op |-> "login", row |-> new]
<1>1. /\ last \in Nat /\ 1 <= last /\ now \in 0..LastTime /\ gone \subseteq Nat
      /\ RowsKept(users, Held, mailed, last, gone)
      /\ SessionsKept(sessions, last) /\ LinksKept(queue \cup mailed)
      /\ \A u \in users : RowKept(u, mailed, last)
      /\ \A u, v \in users : u.id = v.id => u = v
      /\ request \in [Clients -> Request]
  BY DEF AccountsInv, RowsKept
<1>2. /\ request[c].op = "login" /\ row.legacy /\ last' = last + 1
      /\ request' = [request EXCEPT ![c].row.hash = last + 1, ![c].row.legacy = FALSE]
      /\ users' = {IF u.id = row.id THEN After(u) ELSE u : u \in users}
      /\ UNCHANGED <<sessions, queue, mailed, now, gone>>
  BY DEF LoginUpgrade, MustUpdate, Fresh
<1>3. /\ row \in User /\ RowKept(row, mailed, last)
      /\ \A u \in users : u.id = row.id => Succeeds(u, row)
      /\ row.id \in gone \/ \E u \in users : u.id = row.id
      /\ \A v \in users \cup Held : v.id = row.id => v.name = row.name /\ v.exact = row.exact
  BY <1>2, HeldRow DEF Holding
<1>a. \A u \in User :
        /\ After(u) \in User /\ After(u).id = u.id
        /\ After(u).name = u.name /\ After(u).exact = u.exact
        /\ After(u).active = u.active /\ After(u).verified = u.verified
        /\ After(u).password = row.password
        /\ After(u).hash = last + 1 /\ After(u).legacy = FALSE /\ After(u).login = u.login
  <2>1. last + 1 \in Nat /\ row.password \in Nat
    BY <1>1, <1>3 DEF User
  <2> QED
    BY <2>1 DEF User, Upgraded
<1>4. /\ new \in User /\ new.id = row.id /\ new.name = row.name /\ new.exact = row.exact
      /\ new.active = row.active /\ new.verified = row.verified
      /\ new.password = row.password
      /\ new.hash = last + 1 /\ new.legacy = FALSE /\ new.login = row.login
  BY <1>3, <1>a
<1>5. RowKept(new, mailed, last + 1)
  <2>1. row.active /\ row.id = 1
    BY <1>2, <1>3 DEF RowKept
  <2>2. new.password \in 1..(last + 1) /\ new.id \in 1..(last + 1) /\ new.hash \in 1..(last + 1)
    <3>1. row.password \in 1..last /\ row.id \in 1..last
      BY <1>3 DEF RowKept
    <3> HIDE DEF new
    <3> QED
      BY <1>1, <1>4, <3>1
  <2> HIDE DEF new
  <2>3. new.hash # 1 /\ new.id = 1
    BY <1>1, <1>4, <2>1
  <2>4. new.active
    BY <1>4, <2>1
  <2> QED
    BY <1>4, <2>2, <2>3, <2>4 DEF RowKept
<1>6. /\ RowsKept(users', Held, mailed, last + 1, gone) /\ RowsFollow(users', users, gone)
      /\ \A u \in users' : u.id = row.id => Succeeds(u, new)
      /\ row.id \in gone \/ \E u \in users' : u.id = row.id
      /\ \A u \in users' : u.id = row.id => u.name = row.name /\ u.exact = row.exact
  <2>1. CASE \A u \in users : u.id # row.id
    <3>1. users' = users
      BY <1>2, <2>1
    <3> QED
      BY <1>1, <1>3, <2>1, <3>1, RowsLater DEF RowsFollow
  <2>2. ASSUME NEW u \in users, u.id = row.id
        PROVE  /\ RowsKept(users', Held, mailed, last + 1, gone) /\ RowsFollow(users', users, gone)
               /\ \A v \in users' : v.id = row.id => Succeeds(v, new)
               /\ row.id \in gone \/ \E v \in users' : v.id = row.id
               /\ \A v \in users' : v.id = row.id => v.name = row.name /\ v.exact = row.exact
    <3> DEFINE w == After(u)
    <3>1. users' = {v \in users : v.id # row.id} \cup {w}
      <4> HIDE DEF After
      <4> QED
        BY <1>1, <1>2, <2>2
    <3>2. RowKept(u, mailed, last) /\ u \in User
      BY <1>1 DEF RowKept
    <3>3. /\ w \in User /\ w.id = u.id /\ w.name = u.name /\ w.exact = u.exact
          /\ w.active = u.active /\ w.verified = u.verified
          /\ w.password = row.password
          /\ w.hash = last + 1 /\ w.legacy = FALSE /\ w.login = u.login
      BY <1>a, <3>2
    <3>4. Succeeds(u, row) /\ row.active /\ row.id = 1
      BY <1>2, <1>3, <2>2 DEF RowKept
    <3> HIDE DEF w
    <3>5. RowKept(w, mailed, last + 1)
      BY <1>1, <1>3, <2>2, <3>3, <3>4 DEF RowKept, Succeeds
    <3>6. /\ RowsKept({v \in users : v.id # w.id} \cup {w}, Held, mailed, last + 1, gone)
          /\ RowsFollow({v \in users : v.id # w.id} \cup {w}, users, gone)
      <4>1. last + 1 \in Nat /\ last <= last + 1
        BY <1>1
      <4>2. (u.active => w.active) /\ (w.legacy => u.legacy)
        BY <3>3
      <4> QED
        BY <3>3, <3>5, <4>1, <4>2, RowChanged
    <3>7. Succeeds(w, new)
      BY <1>4, <3>3, <3>4 DEF Succeeds
    <3> QED
      BY <2>2, <3>1, <3>3, <3>4, <3>6, <3>7 DEF Succeeds
  <2> QED
    BY <2>1, <2>2
<1>7. request' = [request EXCEPT ![c] = r]
  <2>1. request[c] = [op |-> "login", row |-> row]
    <3>1. request[c] \in Request /\ request[c].op = "login"
      BY <1>1, <1>2
    <3>2. request[c] \in [op : {"queue", "activate", "login"}, row : User]
      BY <3>1 DEF Request, Idle
    <3> QED
      BY <3>1, <3>2
  <2>2. request' = [request EXCEPT ![c] =
                      [request[c] EXCEPT !.row = [[row EXCEPT !.hash = last + 1] EXCEPT !.legacy = FALSE]]]
    BY <1>1, <1>2, <2>1
  <2>3. [request[c] EXCEPT !.row = [[row EXCEPT !.hash = last + 1] EXCEPT !.legacy = FALSE]] = r
    <3>1. [[row EXCEPT !.hash = last + 1] EXCEPT !.legacy = FALSE] = new
      BY <1>3 DEF User, Upgraded
    <3> HIDE DEF new
    <3> QED
      BY <2>1, <3>1
  <2> QED
    BY <2>2, <2>3
<1>8. r \in Request /\ r.op \notin {"register", "queue", "activate", "settings", "renew"}
  BY <1>4 DEF Request
<1>b. UNCHANGED <<sessions, queue, mailed, now, gone>> /\ last' = last + 1
  BY <1>2
<1> HIDE DEF new, After
<1>9. RowsKept(users', Held \cup {new}, mailed, last + 1, gone)
  <2>1. \A v \in users' \cup Held : v.id = new.id => v.name = new.name /\ v.exact = new.exact
    BY <1>3, <1>4, <1>6
  <2>2. \A u \in users' : u.id = new.id => Succeeds(u, new)
    BY <1>4, <1>6
  <2>3. new.id \in gone \/ \E u \in users' : u.id = new.id
    BY <1>4, <1>6
  <2>4. RowsKept(users', Held, mailed, last + 1, gone)
    BY <1>6
  <2> QED
    BY <1>5, <2>1, <2>2, <2>3, <2>4, RowTaken
<1>10. TablesKeptAfter(Held \cup {new})
  <2>1. SessionsKept(sessions', last')
    BY <1>1, <1>b DEF SessionsKept, Session
  <2>2. RowsKept(users', Held \cup {new}, mailed', last', gone')
    BY <1>b, <1>9
  <2>3. RowsFollow(users', users, gone') /\ SessionsFollow(sessions', sessions, last)
    BY <1>b, <1>6 DEF SessionsFollow
  <2>4. /\ now' \in 0..LastTime /\ last' \in Nat /\ last <= last' /\ gone' \subseteq Nat
        /\ gone \subseteq gone' /\ mailed \subseteq mailed' /\ LinksKept(queue' \cup mailed')
    BY <1>1, <1>b
  <2> QED
    BY <2>1, <2>2, <2>3, <2>4 DEF TablesKeptAfter
<1>11. RequestKept(r, users', mailed', sessions', last', gone')
  BY <1>8 DEF RequestKept
<1> QED
  BY <1>7, <1>8, <1>10, <1>11, Moves

LEMMA LoginFinishes == ASSUME AccountsInv, NEW c \in Clients, LoginFinish(c) PROVE AccountsInv'
<1> DEFINE row == request[c].row
           open == [id |-> last + 1, user |-> row.id, hash |-> row.hash,
                    expires |-> now + DefaultAge]
<1>1. /\ last \in Nat /\ 1 <= last /\ now \in 0..LastTime /\ gone \subseteq Nat
      /\ RowsKept(users, Held, mailed, last, gone)
      /\ SessionsKept(sessions, last) /\ LinksKept(queue \cup mailed)
      /\ \A u \in users : RowKept(u, mailed, last)
      /\ \A u, v \in users : u.id = v.id => u = v
  BY DEF AccountsInv, RowsKept
<1>2. /\ request[c].op = "login" /\ ~row.legacy /\ row.active /\ last' = last + 1
      /\ request' = [request EXCEPT ![c] = Idle]
      /\ users' = {IF u.id = row.id THEN LoggedIn(row, u, last + 1) ELSE u : u \in users}
      /\ sessions' = sessions \cup {open}
      /\ UNCHANGED <<queue, mailed, now, gone>>
  BY DEF LoginFinish, MustUpdate, MayEnter, Fresh, Done
<1>3. PICK u \in users : u.id = row.id
  BY DEF LoginFinish, ById
<1>4. row \in User /\ RowKept(row, mailed, last) /\ Succeeds(u, row)
  BY <1>2, <1>3, HeldRow DEF Holding
<1> DEFINE w == [u EXCEPT !.login = last + 1]
<1>5. users' = {v \in users : v.id # row.id} \cup {w}
  BY <1>1, <1>2, <1>3 DEF LoggedIn
<1>6. RowKept(u, mailed, last) /\ u \in User
  BY <1>1 DEF RowKept
<1>7. /\ w \in User /\ w.id = u.id /\ w.name = u.name /\ w.exact = u.exact
      /\ w.active = u.active /\ w.verified = u.verified
      /\ w.hash = u.hash /\ w.password = u.password
      /\ w.legacy = u.legacy /\ w.login = last + 1
  BY <1>1, <1>6 DEF User
<1> HIDE DEF w
<1>8. RowKept(w, mailed, last + 1)
  BY <1>1, <1>2, <1>4, <1>6, <1>7 DEF RowKept, Succeeds
<1>9. /\ RowsKept(users', Held, mailed, last + 1, gone) /\ RowsFollow(users', users, gone)
  <2>1. /\ RowsKept({v \in users : v.id # w.id} \cup {w}, Held, mailed, last + 1, gone)
        /\ RowsFollow({v \in users : v.id # w.id} \cup {w}, users, gone)
    BY <1>1, <1>7, <1>8, RowChanged
  <2> QED
    BY <1>3, <1>5, <1>7, <2>1
<1>10. open \in Session /\ open.id = last + 1 /\ open.hash # 1 /\ open.hash <= last
  BY <1>1, <1>2, <1>4, AccountsAssumption DEF Session, RowKept
<1> HIDE DEF open
<1>11. SessionsKept(sessions', last') /\ SessionsFollow(sessions', sessions, last)
  BY <1>1, <1>2, <1>10 DEF SessionsKept, SessionsFollow, Session
<1>12. TablesKeptAfter(Held)
  BY <1>1, <1>2, <1>9, <1>11 DEF TablesKeptAfter
<1> QED
  BY <1>2, <1>12, IdleKept, Moves

\* The row in hand of a settings form is written, edited: w.
LEMMA RowSaved ==
    ASSUME AccountsInv, NEW c \in Clients, request[c].op = "settings",
           NEW w, NEW top \in Nat, last <= top, RowKept(w, mailed, top),
           w.id = request[c].row.id, w.name = request[c].row.name,
           w.exact = request[c].row.exact, w.active, ~w.legacy
    PROVE  RowsKept(Saved(w), Held, mailed, top, gone) /\ RowsFollow(Saved(w), users, gone)
<1>1. RowsKept(users, Held, mailed, last, gone) /\ last \in Nat
  BY DEF AccountsInv
<1>2. RowsKept(users, Held, mailed, top, gone)
  BY <1>1, RowsLater
<1>3. /\ w.id \in gone \/ \E u \in users : u.id = w.id
      /\ \A v \in users \cup Held : v.id = w.id => v.name = w.name /\ v.exact = w.exact
  BY HeldRow DEF Holding
<1>4. \A v \in users \cup Held : v.id = w.id => Succeeds(w, v)
  BY <1>3 DEF Succeeds
<1>5. RowsKept({u \in users : u.id # w.id} \cup {w}, Held, mailed, top, gone)
  BY <1>2, <1>3, <1>4, RowWritten
<1>6. RowsFollow({u \in users : u.id # w.id} \cup {w}, users, gone)
  BY <1>3 DEF RowsFollow
<1> QED
  BY <1>5, <1>6 DEF Saved

\* The request of save_password goes on with the row it wrote.
LEMMA GoesOn ==
    ASSUME NEW q \in [op : {"settings", "renew"}, row : User, session : Nat], NEW w \in User
    PROVE  [[q EXCEPT !.op = "renew"] EXCEPT !.row = w]
             = [op |-> "renew", row |-> w, session |-> q.session]
<1> DEFINE first == [q EXCEPT !.op = "renew"]
           after == [first EXCEPT !.row = w]
<1>1. /\ first \in [op : {"settings", "renew"}, row : User, session : Nat]
      /\ first.op = "renew" /\ first.session = q.session
  OBVIOUS
<1> HIDE DEF first
<1>2. /\ after \in [op : {"settings", "renew"}, row : User, session : Nat]
      /\ after.op = "renew" /\ after.session = q.session /\ after.row = w
  BY <1>1
<1> HIDE DEF after
<1>3. after = [op |-> "renew", row |-> w, session |-> q.session]
  BY <1>2
<1> QED
  BY <1>3 DEF first, after

LEMMA SavesPassword == ASSUME AccountsInv, NEW c \in Clients, SavePassword(c) PROVE AccountsInv'
<1> DEFINE row == request[c].row
           w == [row EXCEPT !.password = last + 1, !.hash = last + 1]
           r == [op |-> "renew", row |-> w, session |-> request[c].session]
<1>1. /\ last \in Nat /\ 1 <= last /\ now \in 0..LastTime /\ gone \subseteq Nat
      /\ SessionsKept(sessions, last) /\ LinksKept(queue \cup mailed)
      /\ request \in [Clients -> Request]
      /\ RequestKept(request[c], users, mailed, sessions, last, gone)
  BY DEF AccountsInv
<1>2. /\ request[c].op = "settings" /\ last' = last + 1
      /\ request' = [request EXCEPT ![c].op = "renew", ![c].row = w]
      /\ users' = Saved(w)
      /\ UNCHANGED <<sessions, queue, mailed, now, gone>>
  BY DEF SavePassword, Fresh
<1>3. row \in User /\ RowKept(row, mailed, last) /\ row.active /\ ~row.legacy
  BY <1>2, HeldRow DEF Holding, AccountsInv, RequestKept
<1>4. /\ w \in User /\ w.id = row.id /\ w.name = row.name /\ w.exact = row.exact
      /\ w.active = row.active /\ w.verified = row.verified /\ w.legacy = row.legacy
      /\ w.login = row.login /\ w.hash = last + 1 /\ w.password = last + 1
  <2>1. last + 1 \in Nat
    BY <1>1
  <2> QED
    BY <1>3, <2>1 DEF User
<1>5. request[c] \in [op : {"settings", "renew"}, row : User, session : Nat]
  BY <1>1, <1>2 DEF Request, Idle
<1>6. request' = [request EXCEPT ![c] = r] /\ r \in Request
  <2>2. request' = [request EXCEPT ![c] = [[request[c] EXCEPT !.op = "renew"] EXCEPT !.row = w]]
    BY <1>1, <1>2, <1>5
  <2> HIDE DEF w
  <2>3. [[request[c] EXCEPT !.op = "renew"] EXCEPT !.row = w] = r
    BY <1>4, <1>5, GoesOn
  <2> QED
    BY <1>4, <1>5, <2>2, <2>3 DEF Request
<1> HIDE DEF w
<1>7. RowKept(w, mailed, last + 1)
  BY <1>1, <1>3, <1>4 DEF RowKept
<1>8. RowsKept(users', Held, mailed, last + 1, gone) /\ RowsFollow(users', users, gone)
  <2>1. last + 1 \in Nat /\ last <= last + 1
    BY <1>1
  <2>2. RowsKept(Saved(w), Held, mailed, last + 1, gone) /\ RowsFollow(Saved(w), users, gone)
    BY <1>2, <1>3, <1>4, <1>7, <2>1, RowSaved
  <2> QED
    BY <1>2, <2>2
<1>9. RowsKept(users', Held \cup {w}, mailed', last', gone')
  <2>1. w \in users'
    BY <1>2 DEF Saved
  <2> QED
    BY <1>2, <1>8, <2>1, StoredTaken
<1>10. SessionsKept(sessions', last') /\ SessionsFollow(sessions', sessions, last)
  BY <1>1, <1>2 DEF SessionsKept, SessionsFollow, Session
<1>11. TablesKeptAfter(Held \cup {w})
  <2>1. last' \in Nat /\ last <= last' /\ mailed \subseteq mailed' /\ gone \subseteq gone'
    BY <1>1, <1>2
  <2> QED
    BY <1>1, <1>2, <1>8, <1>9, <1>10, <2>1 DEF TablesKeptAfter
<1>12. RequestKept(r, users', mailed', sessions', last', gone') /\ r.op \in Holding
  <2>1. request[c].session <= last + 1
    BY <1>1, <1>2, <1>5 DEF RequestKept
  <2>2. \A s \in sessions' : s.id = request[c].session => s.user = w.id
    BY <1>1, <1>2, <1>4 DEF RequestKept
  <2> QED
    BY <1>2, <1>3, <1>4, <2>1, <2>2 DEF RequestKept, Holding
<1> QED
  BY <1>6, <1>11, <1>12, Moves

LEMMA RenewsSession == ASSUME AccountsInv, NEW c \in Clients, RenewSession(c) PROVE AccountsInv'
<1> DEFINE row == request[c].row
           open == [id |-> last + 1, user |-> row.id, hash |-> row.hash,
                    expires |-> now + row.window]
<1>1. /\ last \in Nat /\ 1 <= last /\ now \in 0..LastTime /\ now \in Nat /\ gone \subseteq Nat
      /\ RowsKept(users, Held, mailed, last, gone)
      /\ SessionsKept(sessions, last) /\ LinksKept(queue \cup mailed)
  BY AccountsAssumption DEF AccountsInv
<1>2. /\ request[c].op = "renew" /\ last' = last + 1
      /\ request' = [request EXCEPT ![c] = Idle]
      /\ sessions' = {s \in sessions : s.id # request[c].session} \cup {open}
      /\ UNCHANGED <<users, queue, mailed, now, gone>>
  BY DEF RenewSession, Fresh, Done
<1>3. row \in User /\ RowKept(row, mailed, last) /\ ~row.legacy
  BY <1>2, HeldRow DEF Holding, AccountsInv, RequestKept
<1>4. open \in Session /\ open.id = last + 1 /\ open.hash # 1 /\ open.hash <= last
  <2>1. now + row.window \in Nat /\ last + 1 \in Nat /\ row.id \in Nat /\ row.hash \in Nat
    BY <1>1, <1>3, AccountsAssumption DEF User
  <2> QED
    BY <1>1, <1>3, <2>1 DEF Session, RowKept
<1> HIDE DEF open
<1>5. SessionsKept(sessions', last') /\ SessionsFollow(sessions', sessions, last)
  BY <1>1, <1>2, <1>4 DEF SessionsKept, SessionsFollow, Session
<1>6. RowsKept(users', Held, mailed', last', gone')
  BY <1>1, <1>2, RowsLater
<1>7. TablesKeptAfter(Held)
  BY <1>1, <1>2, <1>5, <1>6 DEF TablesKeptAfter, RowsFollow
<1> QED
  BY <1>2, <1>7, IdleKept, Moves

LEMMA SavesSecurity == ASSUME AccountsInv, NEW c \in Clients, SaveSecurity(c) PROVE AccountsInv'
<1> DEFINE row == request[c].row
<1>1. /\ last \in Nat /\ 1 <= last /\ now \in 0..LastTime /\ now \in Nat /\ gone \subseteq Nat
      /\ SessionsKept(sessions, last) /\ LinksKept(queue \cup mailed)
  BY AccountsAssumption DEF AccountsInv
<1>2. /\ request[c].op = "settings"
      /\ request' = [request EXCEPT ![c] = Idle]
      /\ UNCHANGED <<queue, mailed, now, last, gone>>
  BY DEF SaveSecurity, Done
<1>3. row \in User /\ RowKept(row, mailed, last) /\ row.active /\ ~row.legacy
  BY <1>2, HeldRow DEF Holding, AccountsInv, RequestKept
<1>4. PICK minutes \in Asked :
        LET w == [row EXCEPT !.window = Clamped(minutes)]
        IN  /\ users' = Saved(w)
            /\ sessions' = {IF s.id = request[c].session
                            THEN [s EXCEPT !.expires = now + w.window] ELSE s : s \in sessions}
  BY DEF SaveSecurity
<1> DEFINE w == [row EXCEPT !.window = Clamped(minutes)]
           After(s) == [s EXCEPT !.expires = now + w.window]
<1>5. /\ w \in User /\ w.id = row.id /\ w.name = row.name /\ w.exact = row.exact
      /\ w.active = row.active /\ w.verified = row.verified /\ w.legacy = row.legacy
      /\ w.login = row.login /\ w.hash = row.hash /\ w.password = row.password
  <2>1. Clamped(minutes) \in MinWindow..MaxWindow
    BY AccountsAssumption DEF Clamped
  <2> QED
    BY <1>3, <2>1 DEF User
<1>6. \A s \in Session : /\ After(s) \in Session /\ After(s).id = s.id
                         /\ After(s).hash = s.hash /\ After(s).user = s.user
  <2>1. w.window \in MinWindow..MaxWindow
    BY <1>5 DEF User
  <2>2. now + w.window \in Nat
    BY <1>1, <2>1, AccountsAssumption
  <2> HIDE DEF w
  <2> QED
    BY <2>2 DEF Session
<1>7. sessions' = {IF s.id = request[c].session THEN After(s) ELSE s : s \in sessions}
  BY <1>4
<1>8. users' = Saved(w)
  BY <1>4
<1> HIDE DEF w, After
<1>9. RowKept(w, mailed, last)
  BY <1>1, <1>3, <1>5 DEF RowKept
<1>10. RowsKept(users', Held, mailed', last', gone') /\ RowsFollow(users', users, gone')
  <2>1. RowsKept(Saved(w), Held, mailed, last, gone) /\ RowsFollow(Saved(w), users, gone)
    <3>1. last \in Nat /\ last <= last
      BY <1>1
    <3> QED
      BY <1>2, <1>3, <1>5, <1>9, <3>1, RowSaved
  <2> QED
    BY <1>2, <1>8, <2>1
<1>11. SessionsKept(sessions', last') /\ SessionsFollow(sessions', sessions, last)
  <2>1. \A s \in sessions : s \in Session /\ s.id <= last /\ s.hash <= last /\ s.hash # 1
    BY <1>1 DEF SessionsKept
  <2>2. \A s, t \in sessions : s.id = t.id => s = t
    BY <1>1 DEF SessionsKept
  <2>3. \A r \in sessions' : \E s \in sessions :
          r = IF s.id = request[c].session THEN After(s) ELSE s
    BY <1>7
  <2>4. \A r \in sessions' : r \in Session /\ \E s \in sessions :
          /\ r.id = s.id /\ r.user = s.user /\ r.hash = s.hash
          /\ r = IF s.id = request[c].session THEN After(s) ELSE s
    BY <1>6, <2>1, <2>3
  <2>5. \A r, q \in sessions' : r.id = q.id => r = q
    BY <2>2, <2>4
  <2>6. last' = last
    BY <1>2
  <2> QED
    BY <1>1, <2>1, <2>4, <2>5, <2>6 DEF SessionsKept, SessionsFollow
<1>12. TablesKeptAfter(Held)
  BY <1>1, <1>2, <1>10, <1>11 DEF TablesKeptAfter
<1> QED
  BY <1>2, <1>12, IdleKept, Moves

LEMMA AccountsStep == AccountsInv /\ [Next]_vars => AccountsInv'
<1> SUFFICES ASSUME AccountsInv, [Next]_vars PROVE AccountsInv'
  OBVIOUS
<1>1. CASE UNCHANGED vars
  <2>1. RowsKept(users, Held, mailed, last, gone) /\ last \in Nat
    BY DEF AccountsInv
  <2>2. UNCHANGED <<users, sessions, queue, mailed, request, now, last, gone>>
    BY <1>1 DEF vars
  <2>3. TablesKeptAfter(Held)
    BY <2>1, <2>2 DEF AccountsInv, TablesKeptAfter, RowsFollow, SessionsFollow
  <2> QED
    BY <2>2, <2>3, Stays
<1>2. ASSUME NEW c \in Clients, SavePassword(c) \/ RenewSession(c) \/ SaveSecurity(c)
      PROVE  AccountsInv'
  BY <1>2, SavesPassword, RenewsSession, SavesSecurity
<1>3. ASSUME NEW c \in Clients, ActivateSave(c) \/ LoginUpgrade(c) \/ LoginFinish(c)
      PROVE  AccountsInv'
  BY <1>3, Activates, LoginUpgrades, LoginFinishes
<1>4. ASSUME NEW c \in Clients, RegisterSave(c) PROVE AccountsInv'
  BY <1>4, RegisterSaves
<1>5. ASSUME NEW c \in Clients,
             RegisterRead(c) \/ RegisterAbort(c) \/ Resend(c) \/ ActivateRead(c) \/ LoginRead(c)
               \/ LoginRefused(c) \/ SettingsRead(c) \/ Crash(c)
      PROVE  AccountsInv'
  BY <1>5, ReadSteps
<1> QED
  BY <1>1, <1>2, <1>3, <1>4, <1>5, LinkSteps, TableSteps DEF Next

LEMMA AccountsStart == OfficeInit => AccountsInv
<1> SUFFICES ASSUME Init PROVE AccountsInv
  BY DEF OfficeInit
<1>1. /\ sessions = {} /\ queue = {} /\ mailed = {} /\ now = 0 /\ last = 1 /\ gone = {}
      /\ request = [c \in Clients |-> Idle]
  BY DEF Init
<1>2. Held = {}
  BY <1>1 DEF Held, Holding, Idle
<1>3. ASSUME NEW u \in users PROVE users = {u} /\ RowKept(u, {}, 1)
  <2>1. PICK name \in Names, exact \in BOOLEAN : users = {Imported(name, exact)}
    BY <1>3 DEF Init
  <2>2. /\ Imported(name, exact) \in User
        /\ Imported(name, exact).id = 1 /\ Imported(name, exact).hash = 1
        /\ Imported(name, exact).password = 1
        /\ Imported(name, exact).legacy = TRUE /\ Imported(name, exact).active = TRUE
        /\ Imported(name, exact).login = 0
    BY AccountsAssumption DEF Imported, User
  <2>3. u = Imported(name, exact)
    BY <1>3, <2>1
  <2> QED
    BY <2>1, <2>2, <2>3 DEF RowKept
<1>4. RowsKept(users, {}, {}, 1, {})
  BY <1>3 DEF RowsKept
<1>5. \A c \in Clients : request[c] = Idle
  BY <1>1
<1>6. request \in [Clients -> Request]
  BY <1>1, IdleKept
<1>7. \A c \in Clients : RequestKept(request[c], users, mailed, sessions, last, gone)
  BY <1>5, IdleKept
<1> QED
  BY <1>1, <1>2, <1>4, <1>6, <1>7, AccountsAssumption DEF AccountsInv, SessionsKept, LinksKept

\* Accounts, in every state: no two have one address but where a settings form brought one
\* back, nobody is active without having followed the link mailed to the address, links of
\* accounts that wait work, and no md5 hash outlives a login.  Whatever the requests in
\* flight have read.
THEOREM AccountsAreKept == OfficeSpec => []AccountsKept
<1>1. OfficeInit => AccountsInv
  BY AccountsStart
<1>2. AccountsInv /\ [OfficeNext]_office => AccountsInv'
  BY AccountSteps, AccountsStep
<1> QED
  BY <1>1, <1>2, AccountsHold, PTL DEF OfficeSpec

(***************************************************************************)
(* Accounts: a password that was changed.                                  *)
(***************************************************************************)

\* The passwords and hashes of stored accounts grow, or were in hand.
LEMMA HeldUndo == AccountsInv /\ [Next]_vars => [OnlyHeldUndo]_vars
<1> SUFFICES ASSUME AccountsInv, Next PROVE OnlyHeldUndo
  OBVIOUS
<1>1. /\ last \in Nat /\ users \subseteq User
      /\ \A u \in users : u.id \in 1..last /\ u.hash \in 1..last /\ u.password \in 1..last
      /\ \A u, v \in users : u.id = v.id => u = v
  BY DEF AccountsInv, RowsKept, RowKept
<1>3. ASSUME users' \subseteq users PROVE OnlyHeldUndo
  BY <1>1, <1>3 DEF OnlyHeldUndo
<1>4. ASSUME NEW c \in Clients, RegisterSave(c) PROVE OnlyHeldUndo
  <2>1. \A v \in users' : v \in users \/ v.id = last + 1
    BY <1>4 DEF RegisterSave, NewUser
  <2> QED
    BY <1>1, <2>1 DEF OnlyHeldUndo
<1>5. ASSUME \A v \in users' : \E t \in users : /\ v.id = t.id /\ v.hash \in {t.hash, last + 1}
                                            /\ v.password \in {t.password, last + 1}
      PROVE  OnlyHeldUndo
  <2> SUFFICES ASSUME NEW u \in users, NEW v \in users', u.id = v.id,
                      v.hash < u.hash \/ v.password < u.password
               PROVE  FALSE
    BY DEF OnlyHeldUndo
  <2>1. v.hash \in {u.hash, last + 1} /\ v.password \in {u.password, last + 1}
    BY <1>1, <1>5
  <2> QED
    BY <1>1, <2>1
<1>6. ASSUME NEW c \in Clients, ActivateSave(c) PROVE OnlyHeldUndo
  <2> DEFINE After(u) == [u EXCEPT !.active = TRUE, !.verified = TRUE]
  <2>1. users' = {IF u.id = request[c].row.id THEN After(u) ELSE u : u \in users}
    BY <1>6 DEF ActivateSave
  <2>2. \A u \in User : After(u).id = u.id /\ After(u).hash = u.hash /\ After(u).password = u.password
    BY DEF User
  <2> HIDE DEF After
  <2>4. \A v \in users' : \E t \in users : v = t \/ v = After(t)
    BY <2>1
  <2> QED
    BY <1>1, <1>5, <2>2, <2>4
<1>7. ASSUME NEW c \in Clients, LoginUpgrade(c) PROVE OnlyHeldUndo
  <2> DEFINE row == request[c].row
             After(u) == Upgraded(row, u, last + 1)
  <2>1. users' = {IF u.id = row.id THEN After(u) ELSE u : u \in users}
    BY <1>7 DEF LoginUpgrade
  <2>2. \A u \in User : /\ After(u).id = u.id /\ After(u).hash = last + 1
                        /\ After(u).password = row.password
    BY DEF User, Upgraded
  <2>3. row \in InUpgrades(row.id)
    BY <1>7 DEF LoginUpgrade, InUpgrades
  <2> HIDE DEF After
  <2> SUFFICES ASSUME NEW u \in users, NEW v \in users', u.id = v.id
               PROVE  /\ v.password < u.password =>
                           v.password \in {r.password : r \in InForms(v.id) \cup InUpgrades(v.id)}
                      /\ ~(v.hash < u.hash)
    BY DEF OnlyHeldUndo
  <2>4. PICK t \in users : v = IF t.id = row.id THEN After(t) ELSE t
    BY <2>1
  <2>5. v.id = t.id /\ t = u
    BY <1>1, <2>2, <2>4
  <2>6. CASE t.id = row.id
    <3>1. v.hash = last + 1 /\ v.password = row.password /\ v.id = row.id
      BY <1>1, <2>2, <2>4, <2>6
    <3> QED
      BY <1>1, <2>3, <3>1
  <2>7. CASE t.id # row.id
    BY <1>1, <2>4, <2>5, <2>7
  <2> QED
    BY <2>6, <2>7
<1>8. ASSUME NEW c \in Clients, LoginFinish(c) PROVE OnlyHeldUndo
  <2> DEFINE After(u) == LoggedIn(request[c].row, u, last + 1)
  <2>1. users' = {IF u.id = request[c].row.id THEN After(u) ELSE u : u \in users}
    BY <1>8 DEF LoginFinish
  <2>2. \A u \in User : After(u).id = u.id /\ After(u).hash = u.hash /\ After(u).password = u.password
    BY DEF User, LoggedIn
  <2> HIDE DEF After
  <2>4. \A v \in users' : \E t \in users : v = t \/ v = After(t)
    BY <2>1
  <2> QED
    BY <1>1, <1>5, <2>2, <2>4
<1>9. ASSUME NEW c \in Clients, SavePassword(c) PROVE OnlyHeldUndo
  <2>1. request[c].row \in User
    BY <1>9, HeldRow DEF SavePassword, Holding
  <2> DEFINE w == [request[c].row EXCEPT !.password = last + 1, !.hash = last + 1]
  <2>2. w.hash = last + 1 /\ w.password = last + 1
    BY <2>1 DEF User
  <2>3. users' = Saved(w)
    BY <1>9 DEF SavePassword
  <2> HIDE DEF w
  <2>4. \A v \in users' : v \in users \/ (v.hash = last + 1 /\ v.password = last + 1)
    BY <2>2, <2>3 DEF Saved
  <2> QED
    BY <1>1, <2>4 DEF OnlyHeldUndo
<1>10. ASSUME NEW c \in Clients, SaveSecurity(c) PROVE OnlyHeldUndo
  <2> DEFINE row == request[c].row
  <2>1. row \in User /\ request[c].op = "settings"
    BY <1>10, HeldRow DEF SaveSecurity, Holding
  <2>2. PICK minutes \in Asked : users' = Saved([row EXCEPT !.window = Clamped(minutes)])
    BY <1>10 DEF SaveSecurity
  <2> DEFINE w == [row EXCEPT !.window = Clamped(minutes)]
  <2>3. w.id = row.id /\ w.hash = row.hash /\ w.password = row.password
    BY <2>1 DEF User
  <2>4. row \in InForms(w.id)
    BY <2>1, <2>3 DEF InForms
  <2>5. users' = Saved(w)
    BY <2>2
  <2> HIDE DEF w
  <2>6. \A v \in users' : v \in users \/ v = w
    BY <2>5 DEF Saved
  <2>7. /\ w.hash \in {r.hash : r \in InForms(w.id)}
        /\ w.password \in {r.password : r \in InForms(w.id) \cup InUpgrades(w.id)}
    BY <2>3, <2>4
  <2> QED
    BY <1>1, <2>6, <2>7 DEF OnlyHeldUndo
<1>11. ASSUME NEW c \in Clients,
              \/ RegisterRead(c) \/ RegisterAbort(c) \/ Resend(c) \/ QueueLink(c)
              \/ ActivateRead(c) \/ LoginRead(c) \/ LoginRefused(c) \/ SettingsRead(c)
              \/ RenewSession(c) \/ Crash(c)
       PROVE  OnlyHeldUndo
  <2>1. users' = users
    BY <1>11 DEF RegisterRead, RegisterAbort, Resend, QueueLink, ActivateRead, LoginRead,
                 LoginRefused, SettingsRead, RenewSession, Crash
  <2> QED
    BY <1>3, <2>1
<1>12. ASSUME Deliver \/ LoseTask \/ Visit \/ Leave \/ DeleteAccount \/ Tick PROVE OnlyHeldUndo
  <2>1. users' \subseteq users
    BY <1>12 DEF Deliver, LoseTask, Visit, Leave, DeleteAccount, Tick
  <2> QED
    BY <1>3, <2>1
<1> QED
  BY <1>4, <1>6, <1>7, <1>8, <1>9, <1>10, <1>11, <1>12 DEF Next

\* No session has the hash that save_password wrote.
LEMMA OthersEnd ==
    ASSUME AccountsInv, NEW c \in Clients, SavePassword(c),
           NEW s \in sessions', s.user = request[c].row.id
    PROVE  Owners(s)' = {}
<1> DEFINE row == request[c].row
           w == [row EXCEPT !.password = last + 1, !.hash = last + 1]
<1>1. request[c].op = "settings" /\ users' = Saved(w) /\ sessions' = sessions
  BY DEF SavePassword
<1>2. row \in User
  BY <1>1, HeldRow DEF Holding
<1>3. last \in Nat /\ s \in Session /\ s.hash <= last /\ s.hash \in Nat
  BY <1>1 DEF AccountsInv, SessionsKept, Session
<1>4. w.id = row.id /\ w.hash = last + 1
  BY <1>2 DEF User
<1> HIDE DEF w
<1>5. \A u \in users' : u.id = row.id => u = w
  BY <1>1, <1>4 DEF Saved
<1>6. ASSUME NEW u \in users', u.id = row.id, s.hash = u.hash PROVE FALSE
  BY <1>3, <1>4, <1>5, <1>6
<1> QED
  BY <1>6 DEF Owners, ById

\* The renewed session works while the account has the hash written.
LEMMA RenewedWorks ==
    ASSUME AccountsInv, NEW c \in Clients, RenewSession(c), NEW s \in sessions' \ sessions
    PROVE  Owners(s)' # {} <=> \E u \in ById(request[c].row.id) : u.hash = request[c].row.hash
<1> DEFINE row == request[c].row
           open == [id |-> last + 1, user |-> row.id, hash |-> row.hash,
                    expires |-> now + row.window]
<1>1. request[c].op = "renew" /\ users' = users /\ now' = now /\ s = open
  BY DEF RenewSession
<1>2. row \in User /\ row.active /\ \A u \in users : u.id = row.id => Succeeds(u, row)
  BY <1>1, HeldRow DEF Holding, AccountsInv, RequestKept
<1>3. now \in Nat
  BY AccountsAssumption DEF AccountsInv
<1>4. s.user = row.id /\ s.hash = row.hash /\ now' < s.expires
  BY <1>1, <1>2, <1>3, AccountsAssumption DEF User
<1>5. \A u \in users' : u.id = row.id => u.active
  BY <1>1, <1>2 DEF Succeeds
<1>6. Owners(s)' = {u \in users : u.id = row.id /\ u.hash = row.hash}
  BY <1>1, <1>4, <1>5 DEF Owners, ById
<1> QED
  BY <1>6 DEF ById

\* What save_password does lasts: the old password is back only by a settings form that
\* read the account before, or by a login that read its md5 hash before; every session of
\* the account ends with the change, nothing but such a form lets one go on, and the one
\* that changed the password is renewed unless the hash was replaced again meanwhile.
THEOREM PasswordsAreKept == OfficeSpec => PasswordStands
<1>1. OfficeInit => AccountsInv
  BY AccountsStart
<1>2. AccountsInv /\ [OfficeNext]_office => AccountsInv'
  BY AccountSteps, AccountsStep
<1>3. AccountsInv => OthersLogOut
  BY OthersEnd, RenewedWorks DEF OthersLogOut
<1>4. AccountsInv /\ [OfficeNext]_office => [OnlyHeldUndo /\ OthersLogOut]_vars
  BY <1>3, AccountSteps, HeldUndo
<1> QED
  BY <1>1, <1>2, <1>4, PTL DEF OfficeSpec, PasswordStands

(***************************************************************************)
(* The office.                                                             *)
(***************************************************************************)

\* No more broadcasts are unlogged than processes were killed.
LEMMA SentLogged == SentInv => C!BroadcastsLogged
<1> SUFFICES ASSUME SentInv PROVE C!BroadcastsLogged
  OBVIOUS
<1>1. Cardinality({l \in C!Unlogged : l.template = None}) <= crashes
  BY DEF SentInv, Lost
<1>2. {l.template : l \in logs} \subseteq {None} \cup {t.id : t \in templates}
  BY DEF SentInv, RowsRefer
<1> QED
  BY <1>1, <1>2 DEF C!BroadcastsLogged, C!Cardinality, Cardinality

\* What Accounts, Correspondence, Wishlist and LegacyImport store is well typed, each
\* broadcast has its row in the audit log but for one with each process killed, and the
\* numbers an import leaves are free.
THEOREM OfficeKept == OfficeSpec => []OfficeInv
<1> DEFINE Inv == /\ part \in {"accounts", "correspondence", "wishlist", "import"}
                  /\ AccountsInv /\ W!TypeOK
                  /\ C!TypeOK /\ SentInv
                  /\ ImportTyped /\ Numbered
<1>1. OfficeInit => Inv
  <2>1. OfficeInit => AccountsInv /\ ImportTyped /\ Numbered
    BY AccountsStart, ImportStarts
  <2>2. OfficeInit => W!TypeOK
    BY DEF OfficeInit, W!Init, W!TypeOK, W!Request
  <2>3. OfficeInit => C!TypeOK
    BY DEF OfficeInit, C!Init, C!TypeOK, C!Request, C!Idle
  <2>4. ASSUME OfficeInit PROVE SentInv
    <3>1. sent = {} /\ logs = {} /\ crashes = 0
      BY <2>4 DEF OfficeInit, C!Init
    <3>2. Lost = {}
      BY <3>1 DEF Lost, C!Unlogged
    <3> QED
      BY <3>1, <3>2, FS_EmptySet DEF SentInv, RowsRefer
  <2> QED
    BY <2>1, <2>2, <2>3, <2>4 DEF OfficeInit
<1>2. Inv /\ [OfficeNext]_office => Inv'
  <2> SUFFICES ASSUME Inv, [OfficeNext]_office PROVE Inv'
    OBVIOUS
  <2>1. AccountsInv'
    BY AccountSteps, AccountsStep
  <2>2. W!TypeOK'
    BY WishSteps, WishTypeStep
  <2>3. C!TypeOK' /\ SentInv'
    BY MailSteps, MailTypeStep, SentStep
  <2>4. ImportTyped' /\ Numbered'
    BY ImportSteps, ImportTypeStep, NumberedStep
  <2>5. part' = part
    BY DEF OfficeNext, office
  <2> QED
    BY <2>1, <2>2, <2>3, <2>4, <2>5
<1>3. Inv => OfficeInv
  <2> SUFFICES ASSUME Inv PROVE OfficeInv
    OBVIOUS
  <2>1. TypeOK /\ C!TypeOK /\ W!TypeOK /\ L!TypeOK
    BY AccountsTyped DEF ImportTyped
  <2>2. C!BroadcastsLogged
    BY SentLogged
  <2>3. L!NextIdFree
    BY DEF Numbered, L!NextIdFree, L!Idle
  <2> QED
    BY <2>1, <2>2, <2>3 DEF OfficeInv, OfficeTypeOK
<1> QED
  BY <1>1, <1>2, <1>3, PTL DEF OfficeSpec

=============================================================================
