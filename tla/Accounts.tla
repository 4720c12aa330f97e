-------------------------------- MODULE Accounts --------------------------------
(***************************************************************************)
(* Accounts: self-registration, the links that activate them, logging in,  *)
(* sessions that end after a time of inactivity, and the settings page.    *)
(*                                                                         *)
(* Every statement autocommits.  Registration, login and the settings page *)
(* read and write in different statements, and the settings forms write    *)
(* back every column of the user they read.  What a tenant's registration  *)
(* does with its invite and contract is in Tenancies.  Refused requests (a *)
(* wrong password, a closed registration) change nothing and are left out, *)
(* as is what an administrator edits of an account.                        *)
(***************************************************************************)
EXTENDS Naturals, FiniteSets

CONSTANTS
    Clients,    \* requests that can be in flight together
    Names,      \* e-mail addresses, regardless of case
    LastTime,   \* bound: time is 0..LastTime
    LinkLife,   \* how long an activation link is good
    DefaultAge, \* age of the session of a login
    MinWindow,  \* inactivity windows the settings page allows
    MaxWindow,
    Asked,      \* windows users ask for
    MaxWrites,  \* bound: rows and stamps written
    MaxLinks    \* bound: links on their way or delivered

ASSUME AccountsAssumption ==
    /\ LastTime \in Nat /\ LinkLife \in Nat
    /\ MinWindow \in Nat \ {0} /\ MaxWindow \in Nat /\ MinWindow <= MaxWindow
    /\ DefaultAge \in MinWindow..MaxWindow
    /\ Asked \subseteq Nat

\* User.  exact: its address is written as the forms write it, in lower case.  password
\* numbers the passwords chosen, hash the hashes made of them, login the logins; none is
\* used again.
User == [id : Nat, name : Names, exact : BOOLEAN, active : BOOLEAN, verified : BOOLEAN,
         password : Nat, hash : Nat, legacy : BOOLEAN, login : Nat,
         window : MinWindow..MaxWindow]

\* What the token of a link is made of.
Link == [user : Nat, hash : Nat, login : Nat, made : Nat]

Session == [id : Nat, user : Nat, hash : Nat, expires : Nat]

Idle == [op |-> "idle"]
Request ==
    {Idle}
    \cup [op : {"register"}, name : Names]
    \cup [op : {"queue", "activate", "login"}, row : User]
    \cup [op : {"settings", "renew"}, row : User, session : Nat]

VARIABLES
    users,     \* User rows
    sessions,  \* django_session
    queue,     \* activation tasks on the broker
    mailed,    \* links delivered
    request,   \* what each in-flight request has read
    now,
    last,      \* serial of rows, hashes and logins
    gone       \* accounts ever deleted

vars == <<users, sessions, queue, mailed, request, now, last, gone>>

TypeOK ==
    /\ users \subseteq User
    /\ sessions \subseteq Session
    /\ queue \subseteq Link /\ mailed \subseteq Link
    /\ request \in [Clients -> Request]
    /\ now \in 0..LastTime
    /\ last \in Nat
    /\ gone \subseteq Nat

\* No account, or one that load_legacy imported: active, with an md5 hash.
Imported(name, exact) ==
    [id |-> 1, name |-> name, exact |-> exact, active |-> TRUE, verified |-> FALSE,
     password |-> 1, hash |-> 1, legacy |-> TRUE, login |-> 0, window |-> DefaultAge]

Init ==
    /\ users \in {{}} \cup {{Imported(name, exact)} : name \in Names, exact \in BOOLEAN}
    /\ sessions = {} /\ queue = {} /\ mailed = {}
    /\ request = [c \in Clients |-> Idle]
    /\ now = 0
    /\ last = 1
    /\ gone = {}

Done(c) == request' = [request EXCEPT ![c] = Idle]

\* A number for a row, a hash or a login.
Fresh == last < MaxWrites /\ last' = last + 1

ById(id) == {u \in users : u.id = id}

\* User.username is unique, upper case and lower case apart.
Taken(name, exact) == \E u \in users : u.name = name /\ u.exact = exact

Tick ==
    /\ now < LastTime
    /\ now' = now + 1
    /\ UNCHANGED <<users, sessions, queue, mailed, request, last, gone>>

-----------------------------------------------------------------------------
(* Registration *)

\* Mutant: the form looks for the address as it is written.
KnownAsWritten(name) == Taken(name, TRUE)

\* clean_email: username__iexact, email__iexact.
Known(name) == \E u \in users : u.name = name

\* The form is valid ...
RegisterRead(c) ==
    /\ request[c] = Idle
    /\ \E name \in Names :
         /\ ~Known(name)
         /\ request' = [request EXCEPT ![c] = [op |-> "register", name |-> name]]
    /\ UNCHANGED <<users, sessions, queue, mailed, now, last, gone>>

NewUser(id, name) ==
    [id |-> id, name |-> name, exact |-> TRUE, active |-> FALSE, verified |-> FALSE,
     password |-> id, hash |-> id, legacy |-> FALSE, login |-> 0, window |-> DefaultAge]

\* ... create_user saves it, unless another request was first ...
RegisterSave(c) ==
    /\ request[c].op = "register"
    /\ ~Taken(request[c].name, TRUE)
    /\ Fresh
    /\ LET row == NewUser(last + 1, request[c].name)
       IN  /\ users' = users \cup {row}
           /\ request' = [request EXCEPT ![c] = [op |-> "queue", row |-> row]]
    /\ UNCHANGED <<sessions, queue, mailed, now, gone>>

RegisterAbort(c) ==
    /\ request[c].op = "register"
    /\ Taken(request[c].name, TRUE)
    /\ Done(c)
    /\ UNCHANGED <<users, sessions, queue, mailed, now, last, gone>>

\* resend_activation finds an account that waits ...
Resend(c) ==
    /\ request[c] = Idle
    /\ \E u \in users :
         /\ ~u.active
         /\ request' = [request EXCEPT ![c] = [op |-> "queue", row |-> u]]
    /\ UNCHANGED <<users, sessions, queue, mailed, now, last, gone>>

\* ... and either goes on with _send_activation_email.
QueueLink(c) ==
    /\ request[c].op = "queue"
    /\ Cardinality(queue \cup mailed) < MaxLinks
    /\ LET row == request[c].row
       IN  queue' = queue \cup {[user |-> row.id, hash |-> row.hash, login |-> row.login,
                                 made |-> now]}
    /\ Done(c)
    /\ UNCHANGED <<users, sessions, mailed, now, last, gone>>

\* send_activation_email_task: without the account it returns in silence.
Deliver ==
    /\ \E link \in queue :
         /\ queue' = queue \ {link}
         /\ mailed' = IF ById(link.user) = {} THEN mailed ELSE mailed \cup {link}
    /\ UNCHANGED <<users, sessions, request, now, last, gone>>

\* The SMTP server refuses, or the worker is killed: nobody runs the task again.
LoseTask ==
    /\ \E link \in queue : queue' = queue \ {link}
    /\ UNCHANGED <<users, sessions, mailed, request, now, last, gone>>

-----------------------------------------------------------------------------
(* Activation *)

\* default_token_generator.check_token.
Fits(link, u) ==
    /\ link.user = u.id /\ link.hash = u.hash /\ link.login = u.login
    /\ now <= link.made + LinkLife

\* activate: of an active account it only says so.
ActivateRead(c) ==
    /\ request[c] = Idle
    /\ \E link \in mailed, u \in users :
         /\ Fits(link, u) /\ ~u.active
         /\ request' = [request EXCEPT ![c] = [op |-> "activate", row |-> u]]
    /\ UNCHANGED <<users, sessions, queue, mailed, now, last, gone>>

\* save(update_fields): an account that is gone is an error and stays gone.
ActivateSave(c) ==
    /\ request[c].op = "activate"
    /\ users' = {IF u.id = request[c].row.id THEN [u EXCEPT !.active = TRUE, !.verified = TRUE]
                 ELSE u : u \in users}
    /\ Done(c)
    /\ UNCHANGED <<sessions, queue, mailed, now, last, gone>>

-----------------------------------------------------------------------------
(* Sessions *)

\* ModelBackend.user_can_authenticate.
MayEnter(u) == u.active

\* authenticate reads the account of a right password ...
LoginRead(c) ==
    /\ request[c] = Idle
    /\ \E u \in users :
         request' = [request EXCEPT ![c] = [op |-> "login", row |-> u]]
    /\ UNCHANGED <<users, sessions, queue, mailed, now, last, gone>>

\* LegacyMD5PasswordHasher.must_update.
MustUpdate(row) == row.legacy

\* setter in check_password: the password that was typed gets another hash, which is all
\* that is saved.
Upgraded(read, u, stamp) ==
    [u EXCEPT !.password = read.password, !.hash = stamp, !.legacy = FALSE]

\* ... replaces an md5 hash ...
LoginUpgrade(c) ==
    /\ request[c].op = "login"
    /\ MustUpdate(request[c].row)
    /\ Fresh
    /\ users' = {IF u.id = request[c].row.id THEN Upgraded(request[c].row, u, last + 1)
                 ELSE u : u \in users}
    /\ request' = [request EXCEPT ![c].row.hash = last + 1, ![c].row.legacy = FALSE]
    /\ UNCHANGED <<sessions, queue, mailed, now, gone>>

\* Mutant: every column that was read is written.
LoggedInRow(read, u, stamp) == [read EXCEPT !.login = stamp]

\* update_last_login saves one column.
LoggedIn(read, u, stamp) == [u EXCEPT !.login = stamp]

\* ... and login opens a session with the hash in memory.
LoginFinish(c) ==
    /\ request[c].op = "login"
    /\ ~MustUpdate(request[c].row)
    /\ MayEnter(request[c].row)
    /\ ById(request[c].row.id) # {}
    /\ Fresh
    /\ users' = {IF u.id = request[c].row.id THEN LoggedIn(request[c].row, u, last + 1)
                 ELSE u : u \in users}
    /\ sessions' = sessions \cup {[id |-> last + 1, user |-> request[c].row.id,
                                   hash |-> request[c].row.hash, expires |-> now + DefaultAge]}
    /\ Done(c)
    /\ UNCHANGED <<queue, mailed, now, gone>>

\* An account that waits for its link, or one deleted meanwhile.
LoginRefused(c) ==
    /\ request[c].op = "login"
    /\ ~MustUpdate(request[c].row)
    /\ ~MayEnter(request[c].row) \/ ById(request[c].row.id) = {}
    /\ Done(c)
    /\ UNCHANGED <<users, sessions, queue, mailed, now, last, gone>>

\* The user of a request with this session: get_user, SESSION_COOKIE_AGE.
Owners(s) == {u \in ById(s.user) : now < s.expires /\ s.hash = u.hash /\ u.active}

\* SessionTimeoutMiddleware: each request starts the user's window afresh.
Visit ==
    /\ \E s \in sessions, u \in users :
         /\ u \in Owners(s)
         /\ sessions' = (sessions \ {s}) \cup {[s EXCEPT !.expires = now + u.window]}
    /\ UNCHANGED <<users, queue, mailed, request, now, last, gone>>

\* LogoutView, or get_user flushing a session whose hash is not the account's.
Leave ==
    /\ \E s \in sessions : sessions' = sessions \ {s}
    /\ UNCHANGED <<users, queue, mailed, request, now, last, gone>>

-----------------------------------------------------------------------------
(* Settings *)

\* user_settings reads the user of a session ...
SettingsRead(c) ==
    /\ request[c] = Idle
    /\ \E s \in sessions, u \in users :
         /\ u \in Owners(s)
         /\ request' = [request EXCEPT ![c] = [op |-> "settings", row |-> u, session |-> s.id]]
    /\ UNCHANGED <<users, sessions, queue, mailed, now, last, gone>>

\* Model.save: all columns, for a row that is gone an INSERT, which the unique
\* username may refuse.
Saved(row) == {u \in users : u.id # row.id} \cup {row}
MaySave(row) == \A u \in users : u.id # row.id => u.name # row.name \/ u.exact # row.exact

\* ... save_password writes it with another hash ...
SavePassword(c) ==
    /\ request[c].op = "settings"
    /\ MaySave(request[c].row)
    /\ Fresh
    /\ LET row == [request[c].row EXCEPT !.password = last + 1, !.hash = last + 1]
       IN  /\ users' = Saved(row)
           /\ request' = [request EXCEPT ![c].op = "renew", ![c].row = row]
    /\ UNCHANGED <<sessions, queue, mailed, now, gone>>

\* update_session_auth_hash: the session gets a new key and the new hash, also when it
\* was logged out meanwhile.
RenewSession(c) ==
    /\ request[c].op = "renew"
    /\ Fresh
    /\ LET row == request[c].row
       IN  sessions' = {s \in sessions : s.id # request[c].session} \cup
               {[id |-> last + 1, user |-> row.id, hash |-> row.hash, expires |-> now + row.window]}
    /\ Done(c)
    /\ UNCHANGED <<users, queue, mailed, now, gone>>

\* SecuritySettingsForm.clean_session_timeout_minutes.
Clamped(minutes) ==
    IF minutes < MinWindow THEN MinWindow ELSE IF minutes > MaxWindow THEN MaxWindow ELSE minutes

\* ... or save_security with another window, which counts at once ...
SaveSecurity(c) ==
    /\ request[c].op = "settings"
    /\ MaySave(request[c].row)
    /\ \E minutes \in Asked :
         LET row == [request[c].row EXCEPT !.window = Clamped(minutes)]
         IN  /\ users' = Saved(row)
             /\ sessions' = {IF s.id = request[c].session
                             THEN [s EXCEPT !.expires = now + row.window] ELSE s : s \in sessions}
    /\ Done(c)
    /\ UNCHANGED <<queue, mailed, now, last, gone>>

\* ... or the unique username refuses the row; a process may also die between any
\* two statements.
Crash(c) ==
    /\ request[c] # Idle
    /\ Done(c)
    /\ UNCHANGED <<users, sessions, queue, mailed, now, last, gone>>

\* In the admin.
DeleteAccount ==
    /\ \E u \in users : users' = users \ {u} /\ gone' = gone \cup {u.id}
    /\ UNCHANGED <<sessions, queue, mailed, request, now, last>>

-----------------------------------------------------------------------------
Next ==
    \/ \E c \in Clients :
         \/ RegisterRead(c) \/ RegisterSave(c) \/ RegisterAbort(c) \/ Resend(c) \/ QueueLink(c)
         \/ ActivateRead(c) \/ ActivateSave(c)
         \/ LoginRead(c) \/ LoginUpgrade(c) \/ LoginFinish(c) \/ LoginRefused(c)
         \/ SettingsRead(c) \/ SavePassword(c) \/ RenewSession(c) \/ SaveSecurity(c)
         \/ Crash(c)
    \/ Deliver \/ LoseTask \/ Visit \/ Leave \/ DeleteAccount \/ Tick

Spec == Init /\ [][Next]_vars

-----------------------------------------------------------------------------
(* Properties *)

\* No two accounts have one address, however requests race and whatever case the
\* addresses of imported accounts are in, unless a settings form brought one back
\* that was deleted and had made way for another.
OneAccountPerAddress == \A u, v \in users : u.name = v.name => u = v \/ {u.id, v.id} \cap gone # {}

\* An account that registered itself is active only after the link sent to its
\* address was followed: nothing else activates it, not even a stale save.
ActivatedByLink == \A u \in users :
    u.active /\ u.id # 1 => u.verified /\ \E link \in mailed : link.user = u.id

\* Every link mailed to an account that waits, the first and those asked for again,
\* works until it is too old: attempts to log in meanwhile do not spoil it.
LinksWork == \A link \in mailed : \A u \in ById(link.user) :
    ~u.active /\ now <= link.made + LinkLife => Fits(link, u)

\* Nobody is logged in, or was, with an md5 hash still stored: login replaces it and
\* no form brings it back.
UpgradedOnLogin == \A u \in users : u.login # 0 => ~u.legacy

\* Addresses, activation links and logins of accounts hold what the forms promise.
AccountsKept == OneAccountPerAddress /\ ActivatedByLink /\ LinksWork /\ UpgradedOnLogin

\* The versions of an account that its settings forms hold, and its logins with an md5 hash.
InForms(id) == {request[c].row : c \in {d \in Clients : request[d].op = "settings" /\
                                                        request[d].row.id = id}}
InUpgrades(id) == {request[c].row : c \in {d \in Clients : request[d].op = "login" /\
                                                           MustUpdate(request[d].row) /\
                                                           request[d].row.id = id}}

\* A password that was changed is the old one again only by a settings form read before
\* the change, or by a login that read the md5 hash before it; a session that it ended
\* can go on only by such a form.
OnlyHeldUndo == \A u \in users : \A v \in users' : u.id = v.id =>
    /\ v.password < u.password =>
         v.password \in {row.password : row \in InForms(v.id) \cup InUpgrades(v.id)}
    /\ v.hash < u.hash => v.hash \in {row.hash : row \in InForms(v.id)}

\* With the password every session of the account ends, and the one that changed it goes
\* on, unless the hash was replaced again or the account deleted before it is renewed.
OthersLogOut == \A c \in Clients :
    /\ SavePassword(c) => \A s \in sessions' : s.user = request[c].row.id => Owners(s)' = {}
    /\ RenewSession(c) => \A s \in sessions' \ sessions :
         Owners(s)' # {} <=> \E u \in ById(request[c].row.id) : u.hash = request[c].row.hash

\* What save_password does lasts, but for what was read before it: the new password, and
\* that the other sessions of the account are over.
PasswordStands == [][OnlyHeldUndo /\ OthersLogOut]_vars

=============================================================================
