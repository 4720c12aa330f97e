------------------------------ MODULE Tenancies ------------------------------
(***************************************************************************)
(* Contracts from signing to their end: the contract CRUD views, renewal   *)
(* proposals, hard stops, tenant invites and the registration of tenants.  *)
(*                                                                         *)
(* Every statement autocommits, so a request that reads a row, sends mail  *)
(* or saves several rows is several actions.  save(update_fields=...)      *)
(* writes only the columns it names; a ModelForm writes the whole row it   *)
(* read.  Refused requests (no e-mail address, an unreadable date, a used  *)
(* code, an address that has an account) change nothing and are left out.  *)
(***************************************************************************)
EXTENDS Naturals

CONSTANTS
    Clients,    \* requests that can be in flight together
    Contracts,  \* primary keys of contracts
    Users,      \* primary keys of tenant accounts
    Invites,    \* primary keys of invites
    Dates,      \* dates a tenancy can end on
    Terms,      \* bound: those that requests about each contract ask for
    None        \* SQL NULL, and the row that does not exist

Contract == [contract_end : Dates \cup {None}, hard_stop : BOOLEAN,
             renewal_proposed_until : Dates \cup {None},
             tenant_user : Users \cup {None}, is_deleted : BOOLEAN]

Invite == [contract : Contracts, accepted_by : Users \cup {None}]

ASSUME NoneAssumption ==
    None \notin Users \cup Invites \cup Dates \cup Contract \cup Invite \cup {"tenant", "owner"}

ASSUME TermsAssumption == Terms \in [Contracts -> SUBSET Dates]

\* To whom the owner's mail goes: in test mode to the owner, with a notice.
Recipient(test) == IF test THEN "owner" ELSE "tenant"

Idle == [op |-> "idle"]
Request ==
    {Idle}
    \cup [op : {"propose"}, contract : Contracts, until : Dates]
    \cup [op : {"confirm", "stop"}, contract : Contracts, end : Dates]
    \cup [op : {"update"}, contract : Contracts, row : Contract]
    \cup [op : {"signup"}, invite : Invites]
    \cup [op : {"accept", "link"}, invite : Invites, user : Users]

VARIABLES
    contracts,  \* Contract rows by primary key
    invites,    \* ContractInvite rows by primary key
    accounts,   \* the tenant accounts there are
    code,       \* the invite each account ever created signed up with
    mailed,     \* to whom the last proposal of a contract until a date was e-mailed
    request     \* what each in-flight request has read or done

vars == <<contracts, invites, accounts, code, mailed, request>>

TypeOK ==
    /\ contracts \in [Contracts -> Contract \cup {None}]
    /\ invites \in [Invites -> Invite \cup {None}]
    /\ accounts \subseteq Users
    /\ code \in [Users -> Invites \cup {None}]
    /\ mailed \in [Contracts -> [Dates -> {"tenant", "owner", None}]]
    /\ request \in [Clients -> Request]

Init ==
    /\ contracts = [k \in Contracts |-> None]
    /\ invites = [i \in Invites |-> None]
    /\ accounts = {}
    /\ code = [u \in Users |-> None]
    /\ mailed = [k \in Contracts |-> [d \in Dates |-> None]]
    /\ request = [c \in Clients |-> Idle]

\* What the default manager shows: the rows that are not soft-deleted.
Visible == {k \in Contracts : contracts[k] # None /\ ~contracts[k].is_deleted}

Done(c) == request' = [request EXCEPT ![c] = Idle]

-----------------------------------------------------------------------------
(* Contract rows *)

NewContract(end) ==
    [contract_end |-> end, hard_stop |-> FALSE, renewal_proposed_until |-> None,
     tenant_user |-> None, is_deleted |-> FALSE]

ContractCreate(c) ==
    /\ request[c] = Idle
    /\ \E k \in Contracts : \E end \in Terms[k] \cup {None} :
         /\ contracts[k] = None
         /\ contracts' = [contracts EXCEPT ![k] = NewContract(end)]
    /\ UNCHANGED <<invites, accounts, code, mailed, request>>

\* The edit form reads the row ...
UpdateRead(c) ==
    /\ request[c] = Idle
    /\ \E k \in Visible :
         request' = [request EXCEPT ![c] =
                       [op |-> "update", contract |-> k, row |-> contracts[k]]]
    /\ UNCHANGED <<contracts, invites, accounts, code, mailed>>

\* Mutant: the columns the form does not show are reset.
EditedAfresh(row, end) == NewContract(end)

\* ContractForm changes contract_end; the columns it does not show keep what was read.
Edited(row, end) == [row EXCEPT !.contract_end = end]

\* ... and writes all of it back, if the account in tenant_user still exists.
UpdateWrite(c) ==
    /\ request[c].op = "update"
    /\ request[c].row.tenant_user \in accounts \cup {None}
    /\ \E end \in Terms[request[c].contract] \cup {None} :
         contracts' = [contracts EXCEPT ![request[c].contract] = Edited(request[c].row, end)]
    /\ Done(c)
    /\ UNCHANGED <<invites, accounts, code, mailed>>

\* The tenant's account was deleted meanwhile: the foreign key fails.
UpdateAbort(c) ==
    /\ request[c].op = "update"
    /\ request[c].row.tenant_user \notin accounts \cup {None}
    /\ Done(c)
    /\ UNCHANGED <<contracts, invites, accounts, code, mailed>>

ContractDelete(c) ==
    /\ request[c] = Idle
    /\ \E k \in Visible : contracts' = [contracts EXCEPT ![k].is_deleted = TRUE]
    /\ UNCHANGED <<invites, accounts, code, mailed, request>>

-----------------------------------------------------------------------------
(* Renewals.  The 404 check shows the rows that are not deleted; what is saved *)
(* later may be deleted by then.                                               *)

\* Mutant: nothing is recorded of the e-mail.
MailedLater(k, until, test) == mailed

Mailed(k, until, test) == [mailed EXCEPT ![k][until] = Recipient(test)]

\* contract_send_renewal: the e-mail goes out first, under the mail settings the
\* owner has then; without a date it proposes nothing, and a failed e-mail ends
\* the request.
SendRenewal(c) ==
    /\ request[c] = Idle
    /\ \E k \in Visible, test \in BOOLEAN : \E until \in Terms[k] :
         /\ mailed' = Mailed(k, until, test)
         /\ request' = [request EXCEPT ![c] =
                          [op |-> "propose", contract |-> k, until |-> until]]
    /\ UNCHANGED <<contracts, invites, accounts, code>>

\* ... and then the proposal is marked pending, in test mode too.
SaveProposal(c) ==
    /\ request[c].op = "propose"
    /\ contracts' = [contracts EXCEPT
                       ![request[c].contract].renewal_proposed_until = request[c].until]
    /\ Done(c)
    /\ UNCHANGED <<invites, accounts, code, mailed>>

\* contract_confirm_renewal and contract_hard_stop find the contract ...
EndRead(c) ==
    /\ request[c] = Idle
    /\ \E op \in {"confirm", "stop"}, k \in Visible : \E end \in Terms[k] :
         request' = [request EXCEPT ![c] = [op |-> op, contract |-> k, end |-> end]]
    /\ UNCHANGED <<contracts, invites, accounts, code, mailed>>

\* ... and save.  A confirmation checks neither hard_stop nor a pending proposal.
ConfirmRenewal(c) ==
    /\ request[c].op = "confirm"
    /\ contracts' = [contracts EXCEPT
                       ![request[c].contract].contract_end = request[c].end,
                       ![request[c].contract].renewal_proposed_until = None]
    /\ Done(c)
    /\ UNCHANGED <<invites, accounts, code, mailed>>

\* A hard stop leaves a pending proposal pending.
HardStop(c) ==
    /\ request[c].op = "stop"
    /\ contracts' = [contracts EXCEPT ![request[c].contract].contract_end = request[c].end,
                                      ![request[c].contract].hard_stop = TRUE]
    /\ Done(c)
    /\ UNCHANGED <<invites, accounts, code, mailed>>

-----------------------------------------------------------------------------
(* Invites and registration *)

CreateInvite(c) ==
    /\ request[c] = Idle
    /\ \E k \in Visible, i \in Invites :
         /\ invites[i] = None
         /\ invites' = [invites EXCEPT ![i] = [contract |-> k, accepted_by |-> None]]
    /\ UNCHANGED <<contracts, accounts, code, mailed, request>>

IsUsed(i) == invites[i].accepted_by # None

\* TenantSignupForm.clean_invite_code: the code exists and is not used.
SignUp(c) ==
    /\ request[c] = Idle
    /\ \E i \in Invites :
         /\ invites[i] # None
         /\ ~IsUsed(i)
         /\ request' = [request EXCEPT ![c] = [op |-> "signup", invite |-> i]]
    /\ UNCHANGED <<contracts, invites, accounts, code, mailed>>

\* create_user, first save: the account.
CreateAccount(c) ==
    /\ request[c].op = "signup"
    /\ \E u \in Users :
         /\ code[u] = None
         /\ code' = [code EXCEPT ![u] = request[c].invite]
         /\ accounts' = accounts \cup {u}
         /\ request' = [request EXCEPT ![c] =
                          [op |-> "accept", invite |-> request[c].invite, user |-> u]]
    /\ UNCHANGED <<contracts, invites, mailed>>

\* Mutant: the contract is linked and the invite left open.
Accepted(i, u) == invites

Consumed(i, u) == [invites EXCEPT ![i].accepted_by = u]

\* Second save: the invite.
AcceptInvite(c) ==
    /\ request[c].op = "accept"
    /\ request[c].user \in accounts
    /\ invites' = Consumed(request[c].invite, request[c].user)
    /\ request' = [request EXCEPT ![c] =
                     [op |-> "link", invite |-> request[c].invite, user |-> request[c].user]]
    /\ UNCHANGED <<contracts, accounts, code, mailed>>

\* Mutant: the account is linked to any contract the landlord shows.
AnyContract(i) == CHOOSE k \in Contracts : contracts[k] # None

\* invite.contract: a foreign key lookup, which sees soft-deleted rows too.
InvitedTo(i) == invites[i].contract

\* Third save: the contract.
LinkContract(c) ==
    /\ request[c].op = "link"
    /\ request[c].user \in accounts
    /\ contracts' = [contracts EXCEPT
                       ![InvitedTo(request[c].invite)].tenant_user = request[c].user]
    /\ Done(c)
    /\ UNCHANGED <<invites, accounts, code, mailed>>

\* The account was deleted between two of the saves: the foreign key fails.
SignUpAbort(c) ==
    /\ request[c].op \in {"accept", "link"}
    /\ request[c].user \notin accounts
    /\ Done(c)
    /\ UNCHANGED <<contracts, invites, accounts, code, mailed>>

\* Mutant: the invite keeps naming the deleted account.
KeepAcceptor(invite, u) == invite

ForgetAcceptor(invite, u) ==
    IF invite # None /\ invite.accepted_by = u
    THEN [invite EXCEPT !.accepted_by = None] ELSE invite

\* An account is deleted in the admin: SET_NULL on the invites and contracts.
DeleteAccount(u) ==
    /\ u \in accounts
    /\ accounts' = accounts \ {u}
    /\ invites' = [i \in Invites |-> ForgetAcceptor(invites[i], u)]
    /\ contracts' = [k \in Contracts |->
                       IF contracts[k] # None /\ contracts[k].tenant_user = u
                       THEN [contracts[k] EXCEPT !.tenant_user = None] ELSE contracts[k]]
    /\ UNCHANGED <<code, mailed, request>>

\* A worker is killed between two statements of a request.
Crash(c) ==
    /\ request[c] # Idle
    /\ Done(c)
    /\ UNCHANGED <<contracts, invites, accounts, code, mailed>>

-----------------------------------------------------------------------------
Next ==
    \/ \E c \in Clients :
         \/ ContractCreate(c) \/ UpdateRead(c) \/ UpdateWrite(c) \/ UpdateAbort(c)
         \/ ContractDelete(c)
         \/ SendRenewal(c) \/ SaveProposal(c) \/ EndRead(c) \/ ConfirmRenewal(c) \/ HardStop(c)
         \/ CreateInvite(c) \/ SignUp(c) \/ CreateAccount(c) \/ AcceptInvite(c)
         \/ LinkContract(c) \/ SignUpAbort(c) \/ Crash(c)
    \/ \E u \in Users : DeleteAccount(u)

Spec == Init /\ [][Next]_vars

-----------------------------------------------------------------------------
(* Properties *)

\* The versions of contract k around: the row and the copies edits hold.
Copies(k) == ({contracts[k]} \ {None}) \cup
             {request[c].row : c \in {d \in Clients : /\ request[d].op = "update"
                                                      /\ request[d].contract = k}}

\* A pending proposal was e-mailed: contracts never show a renewal as proposed until
\* a date no e-mail named, not even after an edit that read the row before the
\* proposal, the confirmation or the deletion.  The e-mail went to the tenant or,
\* sent in test mode, to the owner alone: models.py:164 says to the tenant.
ProposalWasMailed == \A k \in Contracts : \A row \in Copies(k) :
    row.renewal_proposed_until # None => mailed[k][row.renewal_proposed_until] # None

\* A tenant account sees a contract only if its registration typed the code of an
\* invite to that contract; used invites name the account that typed their code.
LinkedByInvitation ==
    /\ \A k \in Contracts : \A row \in Copies(k) :
         row.tenant_user # None =>
            LET i == code[row.tenant_user]
            IN i # None /\ invites[i] # None /\ invites[i].contract = k
    /\ \A i \in Invites : invites[i] # None /\ IsUsed(i) => code[invites[i].accepted_by] = i

\* No row names a deleted account, whatever the deletion met in flight.
NoGhostTenant ==
    /\ \A k \in Contracts : contracts[k] # None => contracts[k].tenant_user \in accounts \cup {None}
    /\ \A i \in Invites : invites[i] # None => invites[i].accepted_by \in accounts \cup {None}

\* The inductive invariant behind the three.
Underway == \A c \in Clients :
    /\ request[c].op = "propose" =>
         /\ contracts[request[c].contract] # None
         /\ mailed[request[c].contract][request[c].until] # None
    /\ request[c].op \in {"update", "confirm", "stop"} => contracts[request[c].contract] # None
    /\ request[c].op \in {"signup", "accept", "link"} => invites[request[c].invite] # None
    /\ request[c].op \in {"accept", "link"} => code[request[c].user] = request[c].invite
InvitesLive == \A i \in Invites : invites[i] # None => contracts[invites[i].contract] # None
TenancyInv == TypeOK /\ ProposalWasMailed /\ LinkedByInvitation /\ NoGhostTenant
              /\ Underway /\ InvitesLive

\* Requests that found contract k and have yet to save it.
Saving(k, ops) == {c \in Clients : request[c].op \in ops /\ request[c].contract = k}

EndStands(k) ==
    /\ contracts[k] # None
    /\ contracts[k].hard_stop \/ contracts[k].is_deleted
    =>  /\ contracts[k].hard_stop /\ ~contracts'[k].hard_stop
           => \E c \in Saving(k, {"update"}) : ~request[c].row.hard_stop
        /\ contracts[k].is_deleted /\ ~contracts'[k].is_deleted
           => \E c \in Saving(k, {"update"}) : ~request[c].row.is_deleted
        /\ contracts'[k].contract_end # contracts[k].contract_end
           => \/ Saving(k, {"update"}) # {}
              \/ \E c \in Saving(k, {"confirm", "stop"}) :
                   contracts'[k].contract_end = request[c].end

\* The end of a stopped or deleted contract is what was last asked for.  Its flags
\* are undone only by an edit form opened before they were set.  Its last day is
\* moved by an edit, by another hard stop or, whatever the docstring of the hard
\* stop says (views.py:1605, "final end"), by a confirmed renewal; never by a
\* proposal whose e-mail took long, a registration or the end of an account.
EndsStand == [][\A k \in Contracts : EndStands(k)]_vars

KeepsLink(k) ==
    /\ contracts[k] # None /\ contracts[k].tenant_user # None
    /\ contracts[k].tenant_user \in accounts'
    /\ contracts'[k].tenant_user # contracts[k].tenant_user
    => \/ \E c \in Saving(k, {"update"}) : request[c].row.tenant_user = contracts'[k].tenant_user
       \/ \E c \in Clients : /\ request[c].op = "link"
                             /\ invites[request[c].invite].contract = k
                             /\ request[c].user = contracts'[k].tenant_user

\* A linked tenant whose account stands is taken off the contract in two ways only:
\* by a registration with an invite to this contract, which takes his place (the
\* same code typed twice at once, or a second invite), or by an edit that read the
\* row before he was linked and writes back the link it read.
LinkKept == [][\A k \in Contracts : KeepsLink(k)]_vars

\* The invite a linked account typed is used up, also when its registration died
\* half-way or met another: only the deletion of an account that used it reopens it.
TenantUsedInvite == \A k \in Contracts :
    contracts[k] # None /\ contracts[k].tenant_user # None =>
        LET i == code[contracts[k].tenant_user]
        IN  IsUsed(i) \/ \E u \in Users \ accounts : code[u] = i

=============================================================================
