----------------------------- MODULE Correspondence -----------------------------
(***************************************************************************)
(* E-mail templates and the broadcasts a landlord sends to the tenants of  *)
(* a flat.  Whom an e-mail goes to in test mode is in SettlementMail.      *)
(*                                                                         *)
(* Every statement autocommits.  One landlord and one flat; the text of a  *)
(* template is the default of a kind or one of the landlord's.             *)
(***************************************************************************)
EXTENDS Naturals, FiniteSets

CONSTANTS
    Clients,        \* requests in flight, and workers
    Kinds,          \* kinds with a built-in text
    MaxWrites,      \* bound: serial of rows and stamps
    MaxMails,       \* bound: broadcasts sent
    None            \* SQL NULL

Own == "own"

\* EmailTemplate; text is Own or the kind whose default it has.
Template == [id : Nat, kind : Kinds \cup {"custom"}, text : Kinds \cup {Own},
             active : BOOLEAN, updated : Nat]

\* A broadcast, as EmailMessage and as EmailLog, and the template its row points at.
Letter == [id : Nat, template : Nat \cup {None}]

Idle == [op |-> "idle"]
Request ==
    {Idle}
    \cup [op : {"hub"}, todo : SUBSET Kinds]
    \cup [op : {"seed"}, todo : SUBSET Kinds, kind : Kinds, at : Nat]
    \cup [op : {"edit", "restore"}, row : Template]
    \cup [op : {"send", "log"}, letter : Letter]

VARIABLES
    templates,  \* EmailTemplate rows
    queue,      \* broadcasts on the broker: the template chosen, or None
    sent,       \* broadcasts the SMTP server took
    logs,       \* EmailLog rows with status sent
    request,    \* what each request or task has read or done
    crashes,    \* processes killed
    last        \* serial of rows and stamps

vars == <<templates, queue, sent, logs, request, crashes, last>>

TypeOK ==
    /\ templates \subseteq Template
    /\ queue \subseteq Nat \cup {None}
    /\ sent \subseteq Letter /\ logs \subseteq Letter
    /\ request \in [Clients -> Request]
    /\ crashes \in Nat /\ last \in Nat

Init ==
    /\ templates = {}
    /\ queue = {} /\ sent = {} /\ logs = {}
    /\ request = [c \in Clients |-> Idle]
    /\ crashes = 0 /\ last = 0

Go(c, r) == request' = [request EXCEPT ![c] = r]
Done(c) == Go(c, Idle)
Fresh == last < MaxWrites /\ last' = last + 1
mail == <<queue, sent, logs>>

-----------------------------------------------------------------------------
(* Templates *)

OfKind(kind) == {t \in templates : t.kind = kind}

\* communication: ensure_default_templates looks at one kind after the other ...
HubVisit(c) ==
    /\ request[c] = Idle
    /\ Go(c, [op |-> "hub", todo |-> Kinds])
    /\ UNCHANGED <<templates, mail, crashes, last>>

Lacks(kind) == OfKind(kind) = {}

\* ... finds a template, or none ...
SeedCheck(c) ==
    /\ request[c].op = "hub"
    /\ \E kind \in request[c].todo :
         LET rest == request[c].todo \ {kind}
         IN  Go(c, IF Lacks(kind)
                   THEN [op |-> "seed", todo |-> rest, kind |-> kind, at |-> last]
                   ELSE IF rest = {} THEN Idle ELSE [op |-> "hub", todo |-> rest])
    /\ UNCHANGED <<templates, mail, crashes, last>>

\* ... and creates it.
SeedCreate(c) ==
    /\ request[c].op = "seed"
    /\ Fresh
    /\ templates' = templates \cup {[id |-> last + 1, kind |-> request[c].kind,
            text |-> request[c].kind, active |-> TRUE, updated |-> last + 1]}
    /\ Go(c, IF request[c].todo = {} THEN Idle ELSE [op |-> "hub", todo |-> request[c].todo])
    /\ UNCHANGED <<mail, crashes>>

TemplateAdd(c) ==
    /\ request[c] = Idle
    /\ Fresh
    /\ \E kind \in Kinds \cup {"custom"}, active \in BOOLEAN :
         templates' = templates \cup {[id |-> last + 1, kind |-> kind, text |-> Own,
                                       active |-> active, updated |-> last + 1]}
    /\ UNCHANGED <<mail, request, crashes>>

\* email_template_edit and email_template_restore read a row ...
TemplateRead(c) ==
    /\ request[c] = Idle
    /\ \E t \in templates, op \in {"edit", "restore"} :
         Go(c, [op |-> op, row |-> t])
    /\ UNCHANGED <<templates, mail, crashes, last>>

Others(id) == {t \in templates : t.id # id}

\* auto_now.
Stamped(row, stamp) == [row EXCEPT !.updated = stamp]

\* ... the edit writes all of it, also when it was deleted meanwhile ...
TemplateEdit(c) ==
    /\ request[c].op = "edit"
    /\ Fresh
    /\ \E kind \in Kinds \cup {"custom"}, active \in BOOLEAN :
         LET row == [request[c].row EXCEPT !.kind = kind, !.active = active, !.text = Own]
         IN  templates' = Others(row.id) \cup {Stamped(row, last + 1)}
    /\ Done(c)
    /\ UNCHANGED <<mail, crashes>>

\* Mutant: every column that was read is written.
RestoredRow(read, t) == IF read.kind \in Kinds THEN [read EXCEPT !.text = read.kind] ELSE t

\* update_fields: the columns of the text, not even the stamp.
Restored(read, t) == IF read.kind \in Kinds THEN [t EXCEPT !.text = read.kind] ELSE t

\* ... and the other puts back the text of the kind it read, if that has one.
TemplateRestore(c) ==
    /\ request[c].op = "restore"
    /\ templates' = {IF t.id = request[c].row.id THEN Restored(request[c].row, t) ELSE t : t \in templates}
    /\ Done(c)
    /\ UNCHANGED <<mail, crashes, last>>

\* EmailLog.template, on_delete=SET_NULL.
TemplateDelete(c) ==
    /\ request[c] = Idle
    /\ \E t \in templates :
         /\ templates' = templates \ {t}
         /\ logs' = {IF l.template = t.id THEN [l EXCEPT !.template = None] ELSE l : l \in logs}
    /\ UNCHANGED <<queue, sent, request, crashes, last>>

\* get_template: the active template of the kind that was saved last, or the default.
Used(kind) ==
    LET active == {t \in OfKind(kind) : t.active}
    IN  IF active = {} THEN {kind}
        ELSE {t.text : t \in {u \in active : \A v \in active : v.updated <= u.updated}}

-----------------------------------------------------------------------------
(* Broadcasts *)

\* send_adhoc, with or without a template.
Queue(c) ==
    /\ request[c] = Idle
    /\ \E t \in {None} \cup {row.id : row \in templates} :
         t \notin queue /\ queue' = queue \cup {t}
    /\ UNCHANGED <<templates, sent, logs, request, crashes, last>>

\* EmailTemplate.objects.filter(...).first().
Found(t) == IF \E row \in templates : row.id = t THEN t ELSE None

\* send_flat_broadcast_task looks up the template and the tenants, of whom there may
\* be none ...
TakeBroadcast(c) ==
    /\ request[c] = Idle
    /\ Fresh
    /\ \E t \in queue :
         /\ queue' = queue \ {t}
         /\ \E r \in {Idle, [op |-> "send", letter |-> [id |-> last + 1, template |-> Found(t)]]} :
              Go(c, r)
    /\ UNCHANGED <<templates, sent, logs, crashes>>

\* ... hands the e-mail to the SMTP server ...
SendBroadcast(c) ==
    /\ request[c].op = "send"
    /\ Cardinality(sent) < MaxMails
    /\ sent' = sent \cup {request[c].letter}
    /\ Go(c, [op |-> "log", letter |-> request[c].letter])
    /\ UNCHANGED <<templates, queue, logs, crashes, last>>

\* The foreign key of the row.
Refers(letter) == letter.template = None \/ \E t \in templates : t.id = letter.template

\* ... and records it, or fails on a template deleted meanwhile.
LogBroadcast(c) ==
    /\ request[c].op = "log"
    /\ logs' = IF Refers(request[c].letter) THEN logs \cup {request[c].letter} ELSE logs
    /\ Done(c)
    /\ UNCHANGED <<templates, queue, sent, crashes, last>>

\* A process is killed between two statements, or the SMTP server refuses, which a
\* row with another status records.
Crash(c) ==
    /\ request[c] # Idle
    /\ crashes' = crashes + (IF request[c].op = "log" THEN 1 ELSE 0)
    /\ Done(c)
    /\ UNCHANGED <<templates, mail, last>>

-----------------------------------------------------------------------------
Next == \E c \in Clients :
    \/ HubVisit(c) \/ SeedCheck(c) \/ SeedCreate(c)
    \/ TemplateAdd(c) \/ TemplateRead(c) \/ TemplateEdit(c) \/ TemplateRestore(c) \/ TemplateDelete(c)
    \/ Queue(c) \/ TakeBroadcast(c) \/ SendBroadcast(c) \/ LogBroadcast(c)
    \/ Crash(c)

Spec == Init /\ [][Next]_vars
-----------------------------------------------------------------------------
(* Properties *)

\* ensure_default_templates adds a standard template beside another of its kind only
\* if that one was saved after it looked.
SeededOnce == \A c \in Clients : SeedCreate(c) =>
    \A t \in OfKind(request[c].kind) : t.updated > request[c].at

\* What the landlord edited last is what is sent: a template saved as active goes before
\* every other of its kind, and before the default.
EditedIsUsed == \A c \in Clients : TemplateEdit(c) =>
    \A t \in templates' \ templates : t.active /\ t.kind \in Kinds => Used(t.kind)' = {t.text}

\* Putting back a text takes that of whoever saved one meanwhile, as it should, but
\* changes neither which template is used nor its kind and whether it is active.
RestoresText == \A c \in Clients : TemplateRestore(c) =>
    {<<t.id, t.kind, t.active, t.updated>> : t \in templates'} =
    {<<t.id, t.kind, t.active, t.updated>> : t \in templates}

\* A template that was deleted is back only by an edit that read it before: no restore,
\* visit or broadcast in flight writes it again.
DeletedStay == \A t \in templates' :
    \/ t.id > last \/ \E u \in templates : u.id = t.id
    \/ \E c \in Clients : TemplateEdit(c) /\ request[c].row.id = t.id

\* What requests in flight may do to templates others saved or deleted: a visit that looked
\* before adds a second one of a kind, an edit that read before brings a deleted one back,
\* a restore takes another text; nothing else.
TemplatesStand == SeededOnce /\ EditedIsUsed /\ RestoresText /\ DeletedStay

Unlogged == {l \in sent : \A row \in logs : row.id # l.id} \
            {request[c].letter : c \in {d \in Clients : request[d].op = "log"}}

\* Every broadcast sent without a template has its row, but for one with each process
\* killed in between, and no row names a template that was deleted meanwhile.
BroadcastsLogged ==
    /\ Cardinality({l \in Unlogged : l.template = None}) <= crashes
    /\ {l.template : l \in logs} \subseteq {None} \cup {t.id : t \in templates}

=============================================================================
