--------------------------- MODULE TenanciesProofs ---------------------------
(* Safety of Tenancies for any number of clients, contracts, invites and     *)
(* accounts: TenancyInv is inductive, and everything follows from it.        *)
EXTENDS Tenancies, TLAPS

USE NoneAssumption, TermsAssumption
    DEF Done, Visible, Edited, Recipient, Mailed, Consumed, InvitedTo, IsUsed

\* What TenancyInv says of one version of the row of contract k.
MailedRow(k, row) ==
    row.renewal_proposed_until # None => mailed[k][row.renewal_proposed_until] # None
InvitedRow(k, row) ==
    row.tenant_user # None =>
        LET i == code[row.tenant_user]
        IN i # None /\ invites[i] # None /\ invites[i].contract = k

\* What a request holds, by what it does.
LEMMA RequestTyped ==
    ASSUME TypeOK, NEW c \in Clients
    PROVE  /\ request[c].op = "propose" => /\ request[c].contract \in Contracts
                                          /\ request[c].until \in Dates
           /\ request[c].op \in {"confirm", "stop"} => /\ request[c].contract \in Contracts
                                                       /\ request[c].end \in Dates
           /\ request[c].op = "update" => /\ request[c].contract \in Contracts
                                         /\ request[c].row \in Contract
           /\ request[c].op = "signup" => request[c].invite \in Invites
           /\ request[c].op \in {"accept", "link"} => /\ request[c].invite \in Invites
                                                     /\ request[c].user \in Users
<1>1. request[c] \in Request
    BY DEF TypeOK
<1>2. QED
    BY <1>1 DEF Request, Idle

\* TenancyInv, row by row and request by request, as the steps below use it.
LEMMA Unfolded ==
    ASSUME TenancyInv
    PROVE  /\ TypeOK
           /\ \A k \in Contracts : contracts[k] # None =>
                /\ contracts[k] \in Contract
                /\ MailedRow(k, contracts[k])
                /\ InvitedRow(k, contracts[k])
                /\ contracts[k].tenant_user \in accounts \cup {None}
           /\ \A c \in Clients : request[c].op = "update" =>
                /\ request[c].contract \in Contracts
                /\ contracts[request[c].contract] # None
                /\ request[c].row \in Contract
                /\ MailedRow(request[c].contract, request[c].row)
                /\ InvitedRow(request[c].contract, request[c].row)
<1>1. TypeOK
    BY DEF TenancyInv
<1>2. ASSUME NEW k \in Contracts, contracts[k] # None
      PROVE  contracts[k] \in Contract /\ contracts[k] \in Copies(k)
    BY <1>1, <1>2 DEF TypeOK, Copies
<1>3. ASSUME NEW c \in Clients, request[c].op = "update"
      PROVE  request[c].row \in Copies(request[c].contract)
    BY <1>3 DEF Copies
<1>4. \A k \in Contracts : \A row \in Copies(k) : MailedRow(k, row)
    BY DEF TenancyInv, ProposalWasMailed, MailedRow
<1>5. \A k \in Contracts : \A row \in Copies(k) : InvitedRow(k, row)
    BY DEF TenancyInv, LinkedByInvitation, InvitedRow
<1>6. QED
    BY <1>1, <1>2, <1>3, <1>4, <1>5, RequestTyped DEF TenancyInv, NoGhostTenant, Underway

\* A step that writes one version of one contract row, mailed and invited as the
\* invariant asks, and starts no request, keeps the invariant.
LEMMA RowWritten ==
    ASSUME TenancyInv, NEW k \in Contracts, NEW row \in Contract,
           contracts[k] # None,
           contracts' = [contracts EXCEPT ![k] = row],
           MailedRow(k, row), InvitedRow(k, row),
           row.tenant_user \in accounts \cup {None},
           UNCHANGED <<invites, accounts, code, mailed>>,
           \A c \in Clients : request'[c] \in {request[c], Idle},
           request' \in [Clients -> Request]
    PROVE  TenancyInv'
<1>t. TypeOK /\ TypeOK'
    <2>1. TypeOK
        BY DEF TenancyInv
    <2>2. QED
        BY <2>1 DEF TypeOK
<1>r. row # None /\ \A j \in Contracts : contracts[j] # None <=> contracts'[j] # None
    BY <1>t DEF TypeOK, Contract, TenancyInv
<1>1. (ProposalWasMailed)'
    BY <1>t DEF TenancyInv, ProposalWasMailed, Copies, TypeOK, Idle, MailedRow
<1>2. (LinkedByInvitation)'
    BY <1>t DEF TenancyInv, LinkedByInvitation, Copies, TypeOK, Idle, InvitedRow
<1>3. (NoGhostTenant)'
    BY <1>t DEF TenancyInv, NoGhostTenant, TypeOK
<1>4. (Underway /\ InvitesLive)'
    BY <1>t, <1>r DEF TenancyInv, Underway, InvitesLive, TypeOK, Idle, Request, Invite
<1>5. QED
    BY <1>t, <1>1, <1>2, <1>3, <1>4 DEF TenancyInv

\* Every action keeps the invariant.
LEMMA InvStep == TenancyInv /\ [Next]_vars => TenancyInv'
<1> SUFFICES ASSUME TenancyInv, [Next]_vars PROVE TenancyInv'
    OBVIOUS
<1>u. /\ TypeOK
      /\ \A k \in Contracts : contracts[k] # None =>
           /\ contracts[k] \in Contract
           /\ MailedRow(k, contracts[k])
           /\ InvitedRow(k, contracts[k])
           /\ contracts[k].tenant_user \in accounts \cup {None}
      /\ \A c \in Clients : request[c].op = "update" =>
           /\ request[c].contract \in Contracts
           /\ contracts[request[c].contract] # None
           /\ request[c].row \in Contract
           /\ MailedRow(request[c].contract, request[c].row)
           /\ InvitedRow(request[c].contract, request[c].row)
    BY Unfolded
<1>i. Idle \in Request
    BY DEF Request
<1>1. ASSUME NEW c \in Clients, ContractCreate(c) PROVE TenancyInv'
    BY <1>1 DEF ContractCreate, NewContract, TenancyInv, TypeOK, Request, Idle, Contract, Invite,
        ProposalWasMailed, LinkedByInvitation, NoGhostTenant, Underway, InvitesLive, Copies
<1>2. ASSUME NEW c \in Clients, UpdateRead(c) PROVE TenancyInv'
    BY <1>2 DEF UpdateRead, TenancyInv, TypeOK, Request, Idle, Contract, Invite,
        ProposalWasMailed, LinkedByInvitation, NoGhostTenant, Underway, InvitesLive, Copies
<1>3. ASSUME NEW c \in Clients, UpdateWrite(c) PROVE TenancyInv'
    <2>0. Terms[request[c].contract] \subseteq Dates
        BY <1>3, <1>u DEF UpdateWrite
    <2>1. PICK end \in Dates \cup {None} :
             contracts' = [contracts EXCEPT ![request[c].contract] =
                             [request[c].row EXCEPT !.contract_end = end]]
        BY <1>3, <2>0 DEF UpdateWrite
    <2> DEFINE row == [request[c].row EXCEPT !.contract_end = end]
    <2>2. /\ row \in Contract
          /\ row.renewal_proposed_until = request[c].row.renewal_proposed_until
          /\ row.tenant_user = request[c].row.tenant_user
        BY <1>3, <1>u DEF UpdateWrite, Contract
    <2>3. MailedRow(request[c].contract, row) /\ InvitedRow(request[c].contract, row)
        BY <1>3, <1>u, <2>2 DEF UpdateWrite, MailedRow, InvitedRow
    <2>4. /\ row.tenant_user \in accounts \cup {None}
          /\ \A d \in Clients : request'[d] \in {request[d], Idle}
          /\ request' \in [Clients -> Request]
          /\ UNCHANGED <<invites, accounts, code, mailed>>
          /\ request[c].contract \in Contracts /\ contracts[request[c].contract] # None
        BY <1>3, <1>u, <1>i, <2>2 DEF UpdateWrite, TypeOK
    <2>5. QED
        BY <2>1, <2>2, <2>3, <2>4, RowWritten
<1>4. ASSUME NEW c \in Clients, UpdateAbort(c) \/ SignUpAbort(c) \/ Crash(c) PROVE TenancyInv'
    <2>1. /\ request' = [request EXCEPT ![c] = Idle]
          /\ UNCHANGED <<contracts, invites, accounts, code, mailed>>
        BY <1>4 DEF UpdateAbort, SignUpAbort, Crash
    <2>2. TypeOK'
        BY <1>u, <1>i, <2>1 DEF TypeOK
    <2>3. \A d \in Clients : request'[d] = request[d] \/ request'[d] = Idle
        BY <1>u, <2>1 DEF TypeOK
    <2>4. (ProposalWasMailed /\ LinkedByInvitation)'
        BY <2>1, <2>3 DEF TenancyInv, ProposalWasMailed, LinkedByInvitation, Copies, Idle
    <2>5. (NoGhostTenant /\ InvitesLive)'
        BY <2>1 DEF TenancyInv, NoGhostTenant, InvitesLive
    <2>6. Underway'
        BY <2>1, <2>3 DEF TenancyInv, Underway, Idle
    <2>7. QED
        BY <2>2, <2>4, <2>5, <2>6 DEF TenancyInv
<1>w. ASSUME NEW k \in Contracts, NEW row \in Contract,
             contracts[k] # None, contracts' = [contracts EXCEPT ![k] = row],
             row.renewal_proposed_until = contracts[k].renewal_proposed_until
               \/ row.renewal_proposed_until = None,
             row.tenant_user = contracts[k].tenant_user,
             UNCHANGED <<invites, accounts, code, mailed>>,
             \A d \in Clients : request'[d] \in {request[d], Idle},
             request' \in [Clients -> Request]
      PROVE  TenancyInv'
    <2>1. MailedRow(k, row) /\ InvitedRow(k, row) /\ row.tenant_user \in accounts \cup {None}
        BY <1>u, <1>w DEF MailedRow, InvitedRow
    <2>2. QED
        BY <1>w, <2>1, RowWritten
<1>5. ASSUME NEW c \in Clients, ContractDelete(c) PROVE TenancyInv'
    <2>1. PICK k \in Contracts : /\ contracts[k] # None
                                 /\ contracts' = [contracts EXCEPT ![k].is_deleted = TRUE]
        BY <1>5 DEF ContractDelete
    <2> DEFINE row == [contracts[k] EXCEPT !.is_deleted = TRUE]
    <2>2. /\ row \in Contract
          /\ row.renewal_proposed_until = contracts[k].renewal_proposed_until
          /\ row.tenant_user = contracts[k].tenant_user
        BY <1>u, <2>1 DEF Contract
    <2>3. /\ UNCHANGED <<invites, accounts, code, mailed>>
          /\ \A d \in Clients : request'[d] \in {request[d], Idle}
          /\ request' \in [Clients -> Request]
        BY <1>5, <1>u DEF ContractDelete, TypeOK
    <2>4. contracts' = [contracts EXCEPT ![k] = row]
        BY <2>1
    <2>5. QED
        BY <1>w, <2>1, <2>2, <2>3, <2>4
<1>6. ASSUME NEW c \in Clients, SendRenewal(c) PROVE TenancyInv'
    <2>1. PICK k \in Contracts, test \in BOOLEAN, until \in Dates :
             /\ contracts[k] # None
             /\ mailed' = Mailed(k, until, test)
             /\ request' = [request EXCEPT ![c] =
                              [op |-> "propose", contract |-> k, until |-> until]]
        BY <1>6 DEF SendRenewal
    <2>2. UNCHANGED <<contracts, invites, accounts, code>>
        BY <1>6 DEF SendRenewal
    <2>3. mailed' \in [Contracts -> [Dates -> {"tenant", "owner", None}]]
        BY <1>u, <2>1 DEF TypeOK
    <2>4. /\ mailed'[k][until] # None
          /\ \A j \in Contracts, d \in Dates : mailed[j][d] # None => mailed'[j][d] # None
        BY <1>u, <2>1 DEF TypeOK
    <2> DEFINE ask == [op |-> "propose", contract |-> k, until |-> until]
    <2>5. ask \in Request /\ ask.op = "propose" /\ ask.contract = k /\ ask.until = until
        BY DEF Request
    <2>6. request' \in [Clients -> Request] /\ \A d \in Clients : request'[d] \in {request[d], ask}
        BY <1>u, <2>1, <2>5 DEF TypeOK
    <2> HIDE DEF ask
    <2>7. TypeOK'
        BY <1>u, <2>2, <2>3, <2>6 DEF TypeOK
    <2>8. \A j \in Contracts : Copies(j)' \subseteq Copies(j)
        BY <2>2, <2>5, <2>6 DEF Copies
    <2>9. ProposalWasMailed'
        <3>1. \A j \in Contracts : \A row \in Copies(j) :
                 row.renewal_proposed_until # None => row.renewal_proposed_until \in Dates
            BY <1>u DEF Copies, Contract
        <3>2. QED
            BY <2>4, <2>8, <3>1 DEF TenancyInv, ProposalWasMailed
    <2>10. (LinkedByInvitation /\ NoGhostTenant /\ InvitesLive)'
        BY <2>2, <2>8 DEF TenancyInv, LinkedByInvitation, NoGhostTenant, InvitesLive
    <2>11. Underway'
        <3>1. \A d \in Clients : request[d].op = "propose" =>
                 request[d].contract \in Contracts /\ request[d].until \in Dates
            BY <1>u, RequestTyped
        <3>2. QED
            BY <2>1, <2>2, <2>4, <2>5, <2>6, <3>1 DEF TenancyInv, Underway
    <2>12. QED
        BY <2>7, <2>9, <2>10, <2>11 DEF TenancyInv
<1>7. ASSUME NEW c \in Clients, SaveProposal(c) PROVE TenancyInv'
    <2> DEFINE k == request[c].contract
               row == [contracts[k] EXCEPT !.renewal_proposed_until = request[c].until]
    <2>1. /\ k \in Contracts /\ contracts[k] # None
          /\ request[c].until \in Dates /\ mailed[k][request[c].until] # None
        BY <1>7, <1>u, RequestTyped DEF SaveProposal, TenancyInv, Underway
    <2>2. /\ row \in Contract
          /\ row.renewal_proposed_until = request[c].until
          /\ row.tenant_user = contracts[k].tenant_user
        BY <1>u, <2>1 DEF Contract
    <2>3. MailedRow(k, row) /\ InvitedRow(k, row) /\ row.tenant_user \in accounts \cup {None}
        BY <1>u, <2>1, <2>2 DEF MailedRow, InvitedRow
    <2>4. /\ contracts' = [contracts EXCEPT ![k] = row]
          /\ UNCHANGED <<invites, accounts, code, mailed>>
          /\ \A d \in Clients : request'[d] \in {request[d], Idle}
          /\ request' \in [Clients -> Request]
        BY <1>7, <1>u, <1>i DEF SaveProposal, TypeOK
    <2>5. QED
        BY <2>1, <2>2, <2>3, <2>4, RowWritten
<1>8. ASSUME NEW c \in Clients, ConfirmRenewal(c) \/ HardStop(c) PROVE TenancyInv'
    <2> DEFINE k == request[c].contract
               moved == [contracts[k] EXCEPT !.contract_end = request[c].end,
                                             !.renewal_proposed_until = None]
               stopped == [contracts[k] EXCEPT !.contract_end = request[c].end,
                                               !.hard_stop = TRUE]
    <2>1. k \in Contracts /\ contracts[k] # None /\ request[c].end \in Dates
        BY <1>8, <1>u, RequestTyped DEF ConfirmRenewal, HardStop, TenancyInv, Underway
    <2>2. /\ UNCHANGED <<invites, accounts, code, mailed>>
          /\ \A d \in Clients : request'[d] \in {request[d], Idle}
          /\ request' \in [Clients -> Request]
        BY <1>8, <1>u, <1>i DEF ConfirmRenewal, HardStop, TypeOK
    <2>3. /\ moved \in Contract
          /\ moved.renewal_proposed_until = None
          /\ moved.tenant_user = contracts[k].tenant_user
        BY <1>u, <2>1 DEF Contract
    <2>4. /\ stopped \in Contract
          /\ stopped.renewal_proposed_until = contracts[k].renewal_proposed_until
          /\ stopped.tenant_user = contracts[k].tenant_user
        BY <1>u, <2>1 DEF Contract
    <2>5. ConfirmRenewal(c) => contracts' = [contracts EXCEPT ![k] = moved]
        BY <1>u, <2>1 DEF ConfirmRenewal, TypeOK
    <2>6. HardStop(c) => contracts' = [contracts EXCEPT ![k] = stopped]
        BY <1>u, <2>1 DEF HardStop, TypeOK
    <2> HIDE DEF k, moved, stopped
    <2>7. CASE ConfirmRenewal(c)
        BY <1>w, <2>1, <2>2, <2>3, <2>5, <2>7
    <2>8. CASE HardStop(c)
        BY <1>w, <2>1, <2>2, <2>4, <2>6, <2>8
    <2>9. QED
        BY <1>8, <2>7, <2>8
<1>9. ASSUME NEW c \in Clients, EndRead(c) PROVE TenancyInv'
    <2>1. PICK ask \in Request :
             /\ ask.op \in {"confirm", "stop"}
             /\ contracts[ask.contract] # None
             /\ request' = [request EXCEPT ![c] = ask]
        <3>1. PICK op \in {"confirm", "stop"}, k \in Contracts, end \in Dates :
                 /\ contracts[k] # None
                 /\ request' = [request EXCEPT ![c] = [op |-> op, contract |-> k, end |-> end]]
            BY <1>9 DEF EndRead
        <3> DEFINE ask == [op |-> op, contract |-> k, end |-> end]
        <3>2. ask \in Request /\ ask.op = op /\ ask.contract = k
            BY DEF Request
        <3>3. QED
            BY <3>1, <3>2
    <2>2. UNCHANGED <<contracts, invites, accounts, code, mailed>>
        BY <1>9 DEF EndRead
    <2>3. request' \in [Clients -> Request] /\ \A d \in Clients : request'[d] \in {request[d], ask}
        BY <1>u, <2>1 DEF TypeOK
    <2>4. TypeOK'
        BY <1>u, <2>2, <2>3 DEF TypeOK
    <2>5. \A j \in Contracts : Copies(j)' \subseteq Copies(j)
        BY <2>1, <2>2, <2>3 DEF Copies
    <2>6. (ProposalWasMailed /\ LinkedByInvitation /\ NoGhostTenant /\ InvitesLive)'
        BY <2>2, <2>5 DEF TenancyInv, ProposalWasMailed, LinkedByInvitation, NoGhostTenant, InvitesLive
    <2>7. Underway'
        BY <2>1, <2>2, <2>3 DEF TenancyInv, Underway
    <2>8. QED
        BY <2>4, <2>6, <2>7 DEF TenancyInv
<1>10. ASSUME NEW c \in Clients, CreateInvite(c) PROVE TenancyInv'
    BY <1>10 DEF CreateInvite, TenancyInv, TypeOK, Request, Idle, Contract, Invite,
        ProposalWasMailed, LinkedByInvitation, NoGhostTenant, Underway, InvitesLive, Copies
<1>11. ASSUME NEW c \in Clients, SignUp(c) PROVE TenancyInv'
    BY <1>11 DEF SignUp, TenancyInv, TypeOK, Request, Idle, Contract, Invite,
        ProposalWasMailed, LinkedByInvitation, NoGhostTenant, Underway, InvitesLive, Copies
<1>12. ASSUME NEW c \in Clients, CreateAccount(c) PROVE TenancyInv'
    BY <1>12 DEF CreateAccount, TenancyInv, TypeOK, Request, Idle, Contract, Invite,
        ProposalWasMailed, LinkedByInvitation, NoGhostTenant, Underway, InvitesLive, Copies
<1>13. ASSUME NEW c \in Clients, AcceptInvite(c) PROVE TenancyInv'
    <2> DEFINE i == request[c].invite
               u == request[c].user
    <2>1. /\ i \in Invites /\ u \in accounts /\ u \in Users
          /\ invites[i] # None /\ invites[i] \in Invite /\ code[u] = i
        BY <1>13, <1>u, RequestTyped DEF AcceptInvite, TenancyInv, Underway, TypeOK
    <2> DEFINE new == [invites[i] EXCEPT !.accepted_by = u]
    <2>2. new \in Invite /\ new # None /\ new.contract = invites[i].contract /\ new.accepted_by = u
        BY <2>1 DEF Invite
    <2>3. /\ invites' = [invites EXCEPT ![i] = new]
          /\ request' = [request EXCEPT ![c] = [op |-> "link", invite |-> i, user |-> u]]
          /\ UNCHANGED <<contracts, accounts, code, mailed>>
        BY <1>13 DEF AcceptInvite
    <2> HIDE DEF i, u, new
    <2>4. TypeOK'
        BY <1>u, <2>1, <2>2, <2>3 DEF TypeOK, Request
    <2>5. \A j \in Invites : /\ invites'[j] # None <=> invites[j] # None
                             /\ invites'[j] # None => invites'[j].contract = invites[j].contract
        BY <1>u, <2>1, <2>2, <2>3 DEF TypeOK
    <2>6. \A d \in Clients : request'[d] = request[d] \/ request'[d].op = "link"
        BY <1>u, <2>3 DEF TypeOK
    <2>7. (ProposalWasMailed /\ LinkedByInvitation)'
        <3>1. \A k \in Contracts : Copies(k)' \subseteq Copies(k)
            BY <2>3, <2>6 DEF Copies
        <3>2. \A v \in Users : code[v] = None \/ code[v] \in Invites
            BY <1>u DEF TypeOK
        <3>3. \A k \in Contracts : \A row \in Copies(k) :
                 row.tenant_user # None => row.tenant_user \in Users
            BY <1>u DEF Copies, TypeOK, Contract, Request, Idle
        <3>4. \A k \in Contracts : \A row \in Copies(k)' :
                 row.tenant_user # None =>
                   /\ code'[row.tenant_user] # None /\ invites'[code'[row.tenant_user]] # None
                   /\ invites'[code'[row.tenant_user]].contract = k
            BY <2>3, <2>5, <3>1, <3>2, <3>3 DEF TenancyInv, LinkedByInvitation
        <3>5. \A j \in Invites : invites'[j] # None /\ invites'[j].accepted_by # None
                                   => code'[invites'[j].accepted_by] = j
            BY <1>u, <2>1, <2>2, <2>3 DEF TenancyInv, LinkedByInvitation, TypeOK
        <3>6. ProposalWasMailed'
            BY <2>3, <3>1 DEF TenancyInv, ProposalWasMailed
        <3>7. QED
            BY <3>4, <3>5, <3>6 DEF LinkedByInvitation
    <2>8. NoGhostTenant'
        BY <1>u, <2>1, <2>2, <2>3 DEF TenancyInv, NoGhostTenant, TypeOK
    <2>9. (Underway /\ InvitesLive)'
        BY <1>u, <2>1, <2>3, <2>5 DEF TenancyInv, Underway, InvitesLive, TypeOK, Request, Idle
    <2>10. QED
        BY <2>4, <2>7, <2>8, <2>9 DEF TenancyInv
<1>14. ASSUME NEW c \in Clients, LinkContract(c) PROVE TenancyInv'
    <2> DEFINE i == request[c].invite
               u == request[c].user
               k == invites[i].contract
               row == [contracts[k] EXCEPT !.tenant_user = u]
    <2>1. /\ i \in Invites /\ u \in accounts /\ u \in Users /\ invites[i] # None
          /\ code[u] = i /\ k \in Contracts /\ contracts[k] # None
        <3>1. i \in Invites /\ u \in Users /\ u \in accounts /\ invites[i] # None /\ code[u] = i
            BY <1>14, <1>u, RequestTyped DEF LinkContract, TenancyInv, Underway
        <3>2. invites[i] \in Invite /\ contracts[k] # None
            BY <1>u, <3>1 DEF TypeOK, TenancyInv, InvitesLive
        <3>3. QED
            BY <3>1, <3>2 DEF Invite
    <2>2. /\ row \in Contract /\ row.tenant_user = u
          /\ row.renewal_proposed_until = contracts[k].renewal_proposed_until
        BY <1>u, <2>1 DEF Contract
    <2>3. MailedRow(k, row) /\ InvitedRow(k, row) /\ row.tenant_user \in accounts \cup {None}
        BY <1>u, <2>1, <2>2 DEF MailedRow, InvitedRow
    <2>4. /\ contracts' = [contracts EXCEPT ![k] = row]
          /\ UNCHANGED <<invites, accounts, code, mailed>>
          /\ \A d \in Clients : request'[d] \in {request[d], Idle}
          /\ request' \in [Clients -> Request]
        BY <1>14, <1>u, <1>i DEF LinkContract, TypeOK
    <2>5. QED
        BY <2>1, <2>2, <2>3, <2>4, RowWritten
<1>15. ASSUME NEW u \in Users, DeleteAccount(u) PROVE TenancyInv'
    <2>1. \A k \in Contracts :
            /\ contracts'[k] # None <=> contracts[k] # None
            /\ contracts[k] # None =>
                 /\ contracts'[k] \in Contract
                 /\ contracts'[k].renewal_proposed_until = contracts[k].renewal_proposed_until
                 /\ contracts'[k].tenant_user \in {contracts[k].tenant_user, None} \ {u}
        <3>1. ASSUME NEW k \in Contracts
              PROVE  contracts'[k] = IF contracts[k] # None /\ contracts[k].tenant_user = u
                                     THEN [contracts[k] EXCEPT !.tenant_user = None]
                                     ELSE contracts[k]
            BY <1>15 DEF DeleteAccount
        <3>2. ASSUME NEW k \in Contracts, contracts[k] # None
              PROVE  LET new == [contracts[k] EXCEPT !.tenant_user = None]
                     IN  /\ new \in Contract /\ new.tenant_user = None
                         /\ new.renewal_proposed_until = contracts[k].renewal_proposed_until
            BY <1>u, <3>2 DEF Contract
        <3>3. u # None /\ None \notin Contract
            OBVIOUS
        <3>4. QED
            BY <1>u, <3>1, <3>2, <3>3
    <2>2. \A i \in Invites :
            /\ invites'[i] # None <=> invites[i] # None
            /\ invites[i] # None =>
                 /\ invites'[i] \in Invite
                 /\ invites'[i].contract = invites[i].contract
                 /\ invites'[i].accepted_by \in {invites[i].accepted_by, None} \ {u}
        BY <1>15, <1>u DEF DeleteAccount, ForgetAcceptor, TypeOK, Invite
    <2>3. accounts' = accounts \ {u} /\ UNCHANGED <<code, mailed, request>>
        BY <1>15 DEF DeleteAccount
    <2>4. contracts' = [k \in Contracts |-> contracts'[k]] /\ invites' = [i \in Invites |-> invites'[i]]
        BY <1>15 DEF DeleteAccount
    <2>5. TypeOK'
        BY <1>u, <2>1, <2>2, <2>3, <2>4 DEF TypeOK
    <2>6. (NoGhostTenant /\ InvitesLive)'
        BY <1>u, <2>1, <2>2, <2>3 DEF TenancyInv, NoGhostTenant, InvitesLive, TypeOK, Invite
    <2>7. Underway'
        BY <1>u, <2>1, <2>2, <2>3 DEF TenancyInv, Underway, TypeOK, Request, Idle
    <2>8. ProposalWasMailed'
        BY <1>u, <2>1, <2>3 DEF TenancyInv, ProposalWasMailed, Copies, TypeOK
    <2>9. LinkedByInvitation'
        <3>1. \A k \in Contracts : \A row \in Copies(k)' :
                 row.tenant_user # None =>
                   \E old \in Copies(k) : old.tenant_user = row.tenant_user
            BY <2>1, <2>3 DEF Copies
        <3>2. \A k \in Contracts : \A row \in Copies(k) :
                 row.tenant_user # None => row.tenant_user \in Users
            BY <1>u DEF Copies, TypeOK, Contract, Request, Idle
        <3>3. \A k \in Contracts : \A row \in Copies(k)' :
                 row.tenant_user # None =>
                   /\ code[row.tenant_user] # None
                   /\ invites'[code[row.tenant_user]] # None
                   /\ invites'[code[row.tenant_user]].contract = k
            BY <1>u, <2>2, <3>1, <3>2 DEF TenancyInv, LinkedByInvitation, TypeOK
        <3>4. \A i \in Invites : invites'[i] # None /\ invites'[i].accepted_by # None
                                   => code[invites'[i].accepted_by] = i
            BY <2>2 DEF TenancyInv, LinkedByInvitation
        <3>5. QED
            BY <2>3, <3>3, <3>4 DEF LinkedByInvitation
    <2>10. QED
        BY <2>5, <2>6, <2>7, <2>8, <2>9 DEF TenancyInv
<1>16. CASE UNCHANGED vars
    BY <1>16 DEF vars, TenancyInv, TypeOK, ProposalWasMailed, LinkedByInvitation, NoGhostTenant,
        Underway, InvitesLive, Copies
<1>17. QED
    BY <1>1, <1>2, <1>3, <1>4, <1>5, <1>6, <1>7, <1>8, <1>9, <1>10, <1>11, <1>12, <1>13,
       <1>14, <1>15, <1>16 DEF Next

\* The inductive invariant of contracts, renewals and registrations.
THEOREM TenancyInvHolds == Spec => []TenancyInv
<1>1. Init => TenancyInv
    BY DEF Init, TenancyInv, TypeOK, ProposalWasMailed, LinkedByInvitation, NoGhostTenant,
           Underway, InvitesLive, Copies, Request, Idle
<1>2. QED
    BY <1>1, InvStep, PTL DEF Spec

\* Every column and every request keeps its type (TypeOK).
THEOREM TypeCorrect == Spec => []TypeOK
<1>1. TenancyInv => TypeOK
    BY DEF TenancyInv
<1>2. QED
    BY <1>1, TenancyInvHolds, PTL

\* A renewal shown as pending was e-mailed with that date, to the tenant or, in test
\* mode, to the owner alone, however proposals, confirmations and edits interleave.
THEOREM PendingWasProposed == Spec => []ProposalWasMailed
<1>1. TenancyInv => ProposalWasMailed
    BY DEF TenancyInv
<1>2. QED
    BY <1>1, TenancyInvHolds, PTL

\* No interleaving of registrations, edits and deletions links an account to a
\* contract it held no invite to.
THEOREM TenantsWereInvited == Spec => []LinkedByInvitation
<1>1. TenancyInv => LinkedByInvitation
    BY DEF TenancyInv
<1>2. QED
    BY <1>1, TenancyInvHolds, PTL
\* No row names a deleted account, whatever the deletion met in flight.
THEOREM NoGhosts == Spec => []NoGhostTenant
<1>1. TenancyInv => NoGhostTenant
    BY DEF TenancyInv
<1>2. QED
    BY <1>1, TenancyInvHolds, PTL

-----------------------------------------------------------------------------
(* What edits write back *)

\* The steps that change a contract row other than by an edit keep what ended it, but
\* for the last day, which a confirmed renewal or another hard stop moves.
LEMMA OnlyEditsRevive ==
    ASSUME TypeOK, Next, NEW k \in Contracts, contracts[k] # None,
           \A c \in Clients : ~(UpdateWrite(c) /\ request[c].contract = k)
    PROVE  /\ contracts[k].hard_stop => contracts'[k].hard_stop
           /\ contracts[k].is_deleted => contracts'[k].is_deleted
           /\ contracts'[k].contract_end # contracts[k].contract_end
                => \E c \in Saving(k, {"confirm", "stop"}) :
                     contracts'[k].contract_end = request[c].end
<1>k. contracts \in [Contracts -> Contract \cup {None}] /\ contracts[k] \in Contract
    BY DEF TypeOK
<1>1. ASSUME NEW c \in Clients, ContractCreate(c)
      PROVE  contracts'[k] = contracts[k]
    BY <1>k, <1>1 DEF ContractCreate
<1>2. ASSUME NEW c \in Clients, UpdateWrite(c)
      PROVE  contracts'[k] = contracts[k]
    <2>1. request[c].contract \in Contracts /\ request[c].contract # k
        BY <1>2, RequestTyped DEF UpdateWrite
    <2>2. QED
        BY <1>k, <1>2, <2>1 DEF UpdateWrite
<1>3. ASSUME NEW c \in Clients, ContractDelete(c)
      PROVE  /\ contracts'[k].hard_stop = contracts[k].hard_stop
             /\ contracts[k].is_deleted => contracts'[k].is_deleted
             /\ contracts'[k].contract_end = contracts[k].contract_end
    BY <1>k, <1>3 DEF ContractDelete, Contract
<1>4. ASSUME NEW c \in Clients, SaveProposal(c)
      PROVE  /\ contracts'[k].hard_stop = contracts[k].hard_stop
             /\ contracts'[k].is_deleted = contracts[k].is_deleted
             /\ contracts'[k].contract_end = contracts[k].contract_end
    BY <1>k, <1>4, RequestTyped DEF SaveProposal, Contract
<1>5. ASSUME NEW c \in Clients, ConfirmRenewal(c) \/ HardStop(c)
      PROVE  /\ contracts[k].hard_stop => contracts'[k].hard_stop
             /\ contracts'[k].is_deleted = contracts[k].is_deleted
             /\ contracts'[k].contract_end # contracts[k].contract_end
                  => /\ c \in Saving(k, {"confirm", "stop"})
                     /\ contracts'[k].contract_end = request[c].end
    <2>1. request[c].op \in {"confirm", "stop"} /\ request[c].contract \in Contracts
        BY <1>5, RequestTyped DEF ConfirmRenewal, HardStop
    <2>2. request[c].contract # k => contracts'[k] = contracts[k]
        BY <1>k, <1>5, <2>1 DEF ConfirmRenewal, HardStop
    <2>3. CASE request[c].contract = k /\ ConfirmRenewal(c)
        BY <1>k, <2>1, <2>3 DEF ConfirmRenewal, Contract, Saving
    <2>4. CASE request[c].contract = k /\ HardStop(c)
        BY <1>k, <2>1, <2>4 DEF HardStop, Contract, Saving
    <2>5. QED
        BY <1>5, <2>2, <2>3, <2>4
<1>7. ASSUME NEW c \in Clients, LinkContract(c)
      PROVE  /\ contracts'[k].hard_stop = contracts[k].hard_stop
             /\ contracts'[k].is_deleted = contracts[k].is_deleted
             /\ contracts'[k].contract_end = contracts[k].contract_end
    BY <1>k, <1>7 DEF LinkContract, Contract
<1>8. ASSUME NEW u \in Users, DeleteAccount(u)
      PROVE  /\ contracts'[k].hard_stop = contracts[k].hard_stop
             /\ contracts'[k].is_deleted = contracts[k].is_deleted
             /\ contracts'[k].contract_end = contracts[k].contract_end
    BY <1>k, <1>8 DEF DeleteAccount, Contract
<1>9. ASSUME NEW c \in Clients,
             \/ UpdateRead(c) \/ UpdateAbort(c) \/ SendRenewal(c) \/ EndRead(c) \/ CreateInvite(c) \/ SignUp(c)
             \/ CreateAccount(c) \/ AcceptInvite(c) \/ SignUpAbort(c) \/ Crash(c)
      PROVE  contracts'[k] = contracts[k]
    BY <1>9 DEF UpdateRead, UpdateAbort, SendRenewal, EndRead, CreateInvite, SignUp, CreateAccount,
        AcceptInvite, SignUpAbort, Crash
<1>10. CASE contracts'[k].contract_end = contracts[k].contract_end
    BY <1>1, <1>2, <1>3, <1>4, <1>5, <1>7, <1>8, <1>9, <1>10 DEF Next
<1>11. CASE contracts'[k].contract_end # contracts[k].contract_end
    BY <1>1, <1>2, <1>3, <1>4, <1>5, <1>7, <1>8, <1>9, <1>11 DEF Next
<1>12. QED
    BY <1>10, <1>11

\* What the edit of a row writes in the columns its form does not show.
LEMMA EditWritesBack ==
    ASSUME TypeOK, NEW c \in Clients, UpdateWrite(c), NEW k \in Contracts, request[c].contract = k
    PROVE  /\ request[c].op = "update"
           /\ contracts'[k].hard_stop = request[c].row.hard_stop
           /\ contracts'[k].is_deleted = request[c].row.is_deleted
           /\ contracts'[k].tenant_user = request[c].row.tenant_user
<1>1. request[c].op = "update" /\ request[c].row \in Contract
    BY RequestTyped DEF UpdateWrite
<1>2. PICK end \in Dates \cup {None} :
        contracts' = [contracts EXCEPT ![k] = [request[c].row EXCEPT !.contract_end = end]]
    BY DEF UpdateWrite
<1>3. contracts'[k] = [request[c].row EXCEPT !.contract_end = end]
    BY <1>2 DEF TypeOK
<1>4. QED
    BY <1>1, <1>3 DEF Contract

\* The flag of a hard stop and the deletion of a contract are undone only by an edit
\* form opened before them; the last day of such a contract is moved by an edit,
\* another hard stop or a confirmed renewal, and by nothing else.
THEOREM StopsAndDeletionsStand == Spec => EndsStand
<1>1. ASSUME TypeOK, [Next]_vars, NEW k \in Contracts
      PROVE  EndStands(k)
    <2>1. ASSUME NEW c \in Clients, UpdateWrite(c), request[c].contract = k
          PROVE  EndStands(k)
        <3>1. /\ c \in Saving(k, {"update"})
              /\ contracts'[k].hard_stop = request[c].row.hard_stop
              /\ contracts'[k].is_deleted = request[c].row.is_deleted
            BY <1>1, <2>1, EditWritesBack DEF Saving
        <3>2. QED
            BY <3>1 DEF EndStands
    <2>2. CASE Next /\ \A c \in Clients : ~(UpdateWrite(c) /\ request[c].contract = k)
        <3>1. contracts[k] # None =>
                /\ contracts[k].hard_stop => contracts'[k].hard_stop
                /\ contracts[k].is_deleted => contracts'[k].is_deleted
                /\ contracts'[k].contract_end # contracts[k].contract_end
                     => \E c \in Saving(k, {"confirm", "stop"}) :
                          contracts'[k].contract_end = request[c].end
            BY <1>1, <2>2, OnlyEditsRevive
        <3>2. QED
            BY <3>1 DEF EndStands
    <2>3. CASE UNCHANGED vars
        BY <2>3 DEF vars, EndStands
    <2>4. QED
        BY <1>1, <2>1, <2>2, <2>3
<1>2. TypeOK /\ [Next]_vars => [\A k \in Contracts : EndStands(k)]_vars
    BY <1>1
<1>3. QED
    BY <1>2, TypeCorrect, PTL DEF Spec, EndsStand

\* The steps other than edits and the deletion of its account leave the linked tenant,
\* but for a registration that takes his place.
LEMMA OnlyEditsUnlink ==
    ASSUME TypeOK, Next, NEW k \in Contracts, contracts[k] # None,
           contracts[k].tenant_user # None, contracts[k].tenant_user \in accounts',
           \A c \in Clients : ~(UpdateWrite(c) /\ request[c].contract = k)
    PROVE  contracts'[k].tenant_user # contracts[k].tenant_user
             => \E c \in Clients : /\ request[c].op = "link"
                                   /\ invites[request[c].invite].contract = k
                                   /\ request[c].user = contracts'[k].tenant_user
<1>k. contracts \in [Contracts -> Contract \cup {None}] /\ contracts[k] \in Contract
    BY DEF TypeOK
<1>1. ASSUME NEW c \in Clients, ContractCreate(c)
      PROVE  contracts'[k] = contracts[k]
    BY <1>k, <1>1 DEF ContractCreate
<1>2. ASSUME NEW c \in Clients, UpdateWrite(c)
      PROVE  contracts'[k] = contracts[k]
    <2>1. request[c].contract \in Contracts /\ request[c].contract # k
        BY <1>2, RequestTyped DEF UpdateWrite
    <2>2. QED
        BY <1>k, <1>2, <2>1 DEF UpdateWrite
<1>3. ASSUME NEW c \in Clients, ContractDelete(c)
      PROVE  contracts'[k].tenant_user = contracts[k].tenant_user
    BY <1>k, <1>3 DEF ContractDelete, Contract
<1>4. ASSUME NEW c \in Clients, SaveProposal(c)
      PROVE  contracts'[k].tenant_user = contracts[k].tenant_user
    BY <1>k, <1>4, RequestTyped DEF SaveProposal, Contract
<1>5. ASSUME NEW c \in Clients, ConfirmRenewal(c) \/ HardStop(c)
      PROVE  contracts'[k].tenant_user = contracts[k].tenant_user
    <2>1. request[c].contract \in Contracts
        BY <1>5, RequestTyped DEF ConfirmRenewal, HardStop
    <2>2. ConfirmRenewal(c) => contracts'[k].tenant_user = contracts[k].tenant_user
        BY <1>k, <2>1 DEF ConfirmRenewal, Contract
    <2>3. HardStop(c) => contracts'[k].tenant_user = contracts[k].tenant_user
        BY <1>k, <2>1 DEF HardStop, Contract
    <2>4. QED
        BY <1>5, <2>2, <2>3
<1>7. ASSUME NEW c \in Clients, LinkContract(c), contracts'[k].tenant_user # contracts[k].tenant_user
      PROVE  /\ request[c].op = "link"
             /\ invites[request[c].invite].contract = k
             /\ request[c].user = contracts'[k].tenant_user
    <2>1. invites[request[c].invite].contract = k
        BY <1>k, <1>7 DEF LinkContract
    <2>2. contracts'[k] = [contracts[k] EXCEPT !.tenant_user = request[c].user]
        BY <1>k, <1>7, <2>1 DEF LinkContract
    <2>3. contracts'[k].tenant_user = request[c].user
        BY <1>k, <2>2 DEF Contract
    <2>4. QED
        BY <1>7, <2>1, <2>3 DEF LinkContract
<1>8. ASSUME NEW u \in Users, DeleteAccount(u)
      PROVE  contracts'[k] = contracts[k]
    BY <1>k, <1>8 DEF DeleteAccount
<1>9. ASSUME NEW c \in Clients,
             \/ UpdateRead(c) \/ UpdateAbort(c) \/ SendRenewal(c) \/ EndRead(c) \/ CreateInvite(c) \/ SignUp(c)
             \/ CreateAccount(c) \/ AcceptInvite(c) \/ SignUpAbort(c) \/ Crash(c)
      PROVE  contracts'[k] = contracts[k]
    BY <1>9 DEF UpdateRead, UpdateAbort, SendRenewal, EndRead, CreateInvite, SignUp, CreateAccount,
        AcceptInvite, SignUpAbort, Crash
<1>10. QED
    BY <1>1, <1>2, <1>3, <1>4, <1>5, <1>7, <1>8, <1>9 DEF Next

\* A linked tenant whose account stays is replaced by a registration with an invite to
\* this contract, or by what an edit form read before he was linked; nothing else
\* takes him off the contract.
THEOREM LinksAreKept == Spec => LinkKept
<1>1. ASSUME TypeOK, [Next]_vars, NEW k \in Contracts
      PROVE  KeepsLink(k)
    <2>1. ASSUME NEW c \in Clients, UpdateWrite(c), request[c].contract = k
          PROVE  KeepsLink(k)
        <3>1. /\ c \in Saving(k, {"update"})
              /\ contracts'[k].tenant_user = request[c].row.tenant_user
            BY <1>1, <2>1, EditWritesBack DEF Saving
        <3>2. QED
            BY <3>1 DEF KeepsLink
    <2>2. CASE Next /\ \A c \in Clients : ~(UpdateWrite(c) /\ request[c].contract = k)
        BY <1>1, <2>2, OnlyEditsUnlink DEF KeepsLink
    <2>3. CASE UNCHANGED vars
        BY <2>3 DEF vars, KeepsLink
    <2>4. QED
        BY <1>1, <2>1, <2>2, <2>3
<1>2. TypeOK /\ [Next]_vars => [\A k \in Contracts : KeepsLink(k)]_vars
    BY <1>1
<1>3. QED
    BY <1>2, TypeCorrect, PTL DEF Spec, LinkKept

-----------------------------------------------------------------------------
(* Used invites *)

\* The invite is used up, or was by an account that is deleted.
Spent(i) == IsUsed(i) \/ \E u \in Users \ accounts : code[u] = i

\* Linked tenants, also those of a row an edit holds, and requests about to link one
\* have used up an invite.
SpentInv ==
    /\ \A k \in Contracts : contracts[k] # None /\ contracts[k].tenant_user # None
                              => Spent(code[contracts[k].tenant_user])
    /\ \A c \in Clients : request[c].op = "update" /\ request[c].row.tenant_user # None
                              => Spent(code[request[c].row.tenant_user])
    /\ \A c \in Clients : request[c].op = "link" => Spent(request[c].invite)

\* An invite that was used up stays so.
LEMMA SpentStays ==
    ASSUME TenancyInv, [Next]_vars, NEW i \in Invites, invites[i] # None, Spent(i)
    PROVE  Spent(i)'
<1>t. TypeOK
    BY DEF TenancyInv
<1>1. ASSUME NEW c \in Clients, CreateInvite(c)
      PROVE  Spent(i)'
    BY <1>t, <1>1 DEF CreateInvite, Spent, TypeOK
<1>2. ASSUME NEW c \in Clients, CreateAccount(c)
      PROVE  Spent(i)'
    <2>1. PICK u \in Users : /\ code[u] = None
                             /\ code' = [code EXCEPT ![u] = request[c].invite]
                             /\ accounts' = accounts \cup {u}
        BY <1>2 DEF CreateAccount
    <2>2. i # None
        OBVIOUS
    <2>3. \A v \in Users : code[v] = i => v # u /\ code'[v] = i
        BY <1>t, <2>1, <2>2 DEF TypeOK
    <2>4. invites' = invites
        BY <1>2 DEF CreateAccount
    <2>5. QED
        BY <2>1, <2>3, <2>4 DEF Spent
<1>3. ASSUME NEW c \in Clients, AcceptInvite(c)
      PROVE  Spent(i)'
    <2>1. request[c].user \in Users /\ request[c].invite \in Invites
        BY <1>t, <1>3, RequestTyped DEF AcceptInvite
    <2>2. request[c].user # None
        BY <2>1
    <2>3. IsUsed(i) => invites'[i].accepted_by # None
        BY <1>t, <1>3, <2>1, <2>2 DEF AcceptInvite, TypeOK, Invite
    <2>4. accounts' = accounts /\ code' = code
        BY <1>3 DEF AcceptInvite
    <2>5. QED
        BY <2>3, <2>4 DEF Spent
<1>4. ASSUME NEW u \in Users, DeleteAccount(u)
      PROVE  Spent(i)'
    <2>1. accounts' = accounts \ {u} /\ code' = code
        BY <1>4 DEF DeleteAccount
    <2>2. CASE invites[i].accepted_by = u
        <3>1. code[u] = i
            BY <2>2 DEF TenancyInv, LinkedByInvitation
        <3>2. QED
            BY <2>1, <3>1 DEF Spent
    <2>3. CASE invites[i].accepted_by # u
        <3>1. invites'[i] = invites[i]
            BY <1>4, <2>3 DEF DeleteAccount, ForgetAcceptor
        <3>2. QED
            BY <2>1, <3>1 DEF Spent
    <2>4. QED
        BY <2>2, <2>3
<1>5. ASSUME UNCHANGED <<invites, accounts, code>>
      PROVE  Spent(i)'
    BY <1>5 DEF Spent
<1>6. QED
    BY <1>1, <1>2, <1>3, <1>4, <1>5
       DEF Next, vars, ContractCreate, UpdateRead, UpdateWrite, UpdateAbort, ContractDelete,
           SendRenewal, SaveProposal, EndRead, ConfirmRenewal, HardStop, SignUp, LinkContract,
           SignUpAbort, Crash

\* An account keeps the code it typed, and whoever is linked typed one.
LEMMA CodeStays ==
    ASSUME TenancyInv, [Next]_vars, NEW u \in Users, code[u] # None
    PROVE  code'[u] = code[u]
<1>1. ASSUME NEW c \in Clients, CreateAccount(c)
      PROVE  code'[u] = code[u]
    BY <1>1 DEF CreateAccount, TenancyInv, TypeOK
<1>2. QED
    BY <1>1 DEF Next, vars, ContractCreate, UpdateRead, UpdateWrite, UpdateAbort, ContractDelete,
        SendRenewal, SaveProposal, EndRead, ConfirmRenewal, HardStop, CreateInvite, SignUp, AcceptInvite,
        LinkContract, SignUpAbort, DeleteAccount, Crash

\* The account in a row some request or table holds has spent its invite for good.
LEMMA TenantsStaySpent ==
    ASSUME TenancyInv, SpentInv, [Next]_vars, NEW k \in Contracts, NEW row \in Copies(k),
           row.tenant_user # None
    PROVE  /\ row \in Contract
           /\ Spent(code[row.tenant_user])'
<1>1. row \in Contract
    BY Unfolded DEF Copies
<1>2. row.tenant_user \in Users
    BY <1>1 DEF Contract
<1>3. /\ code[row.tenant_user] # None
      /\ code[row.tenant_user] \in Invites
      /\ invites[code[row.tenant_user]] # None
    BY <1>2 DEF TenancyInv, TypeOK, LinkedByInvitation
<1>4. Spent(code[row.tenant_user])
    BY DEF SpentInv, Copies
<1>5. code'[row.tenant_user] = code[row.tenant_user]
    BY <1>2, <1>3, CodeStays
<1>6. ASSUME NEW i \in Invites, i = code[row.tenant_user]
      PROVE  Spent(i)'
    BY <1>3, <1>4, <1>6, SpentStays
<1>7. (\E i \in Invites : i = code'[row.tenant_user] /\ Spent(i)') => Spent(code[row.tenant_user])'
    BY DEF Spent
<1>8. QED
    BY <1>1, <1>3, <1>5, <1>6, <1>7
\* Only the edit form takes a row, as it is, and only the accepted invite is linked.
LEMMA ReadByEdits ==
    ASSUME TypeOK, [Next]_vars, NEW b \in Clients, request'[b] # request[b]
    PROVE  /\ request'[b].op = "update" =>
                /\ request'[b].contract \in Contracts
                /\ contracts[request'[b].contract] # None
                /\ request'[b].row = contracts[request'[b].contract]
           /\ request'[b].op = "link" => AcceptInvite(b)
<1>t. request \in [Clients -> Request]
    BY DEF TypeOK
<1>1. ASSUME NEW c \in Clients, UpdateRead(c)
      PROVE  /\ request'[b].contract \in Contracts
             /\ contracts[request'[b].contract] # None
             /\ request'[b].row = contracts[request'[b].contract]
             /\ request'[b].op = "update"
    BY <1>t, <1>1 DEF UpdateRead
<1>2. ASSUME NEW c \in Clients, SendRenewal(c)
      PROVE  request'[b].op = "propose"
    BY <1>t, <1>2 DEF SendRenewal
<1>3. ASSUME NEW c \in Clients, SignUp(c)
      PROVE  request'[b].op = "signup"
    BY <1>t, <1>3 DEF SignUp
<1>4. ASSUME NEW c \in Clients, CreateAccount(c)
      PROVE  request'[b].op = "accept"
    BY <1>t, <1>4 DEF CreateAccount
<1>5. ASSUME NEW c \in Clients, AcceptInvite(c)
      PROVE  AcceptInvite(b) /\ request'[b].op = "link"
    BY <1>t, <1>5 DEF AcceptInvite
<1>6. ASSUME NEW c \in Clients, request' = [request EXCEPT ![c] = Idle]
      PROVE  request'[b].op = "idle"
    BY <1>t, <1>6 DEF Idle
<1>7. ASSUME NEW c \in Clients, EndRead(c)
      PROVE  request'[b].op \in {"confirm", "stop"}
    BY <1>t, <1>7 DEF EndRead
<1>8. QED
    BY <1>1, <1>2, <1>3, <1>4, <1>5, <1>6, <1>7
       DEF Next, vars, ContractCreate, UpdateWrite, UpdateAbort, ContractDelete, SaveProposal,
           ConfirmRenewal, HardStop, CreateInvite, LinkContract, SignUpAbort, DeleteAccount, Crash

\* Where the tenant of a row, in the table or in the hands of a request, comes from.
LEMMA TenantsComeFrom ==
    ASSUME TenancyInv, [Next]_vars, NEW k \in Contracts, NEW row \in Copies(k)',
           row.tenant_user # None
    PROVE  \/ \E old \in Copies(k) : old.tenant_user = row.tenant_user
           \/ \E c \in Clients : /\ request[c].op = "link"
                                 /\ row.tenant_user = request[c].user
                                 /\ UNCHANGED <<invites, accounts, code>>
<1> DEFINE Old == \E old \in Copies(k) : old.tenant_user = row.tenant_user
<1>t. TypeOK /\ contracts \in [Contracts -> Contract \cup {None}]
    BY DEF TenancyInv, TypeOK
<1>u. \A c \in Clients : request[c].op = "update" =>
        request[c].contract \in Contracts /\ request[c].row \in Contract
    BY <1>t, RequestTyped
<1>c. \A b \in Clients : request'[b].op = "update" =>
        \/ request'[b] = request[b]
        \/ /\ request'[b].contract \in Contracts
           /\ contracts[request'[b].contract] # None
           /\ request'[b].row = contracts[request'[b].contract]
    BY <1>t, ReadByEdits
<1>1. CASE row = contracts'[k] /\ contracts'[k] # None
    <2>1. ASSUME NEW c \in Clients, ContractCreate(c)
          PROVE  Old
        <3>1. PICK j \in Contracts, end \in Dates \cup {None} :
                contracts[j] = None /\ contracts' = [contracts EXCEPT ![j] = NewContract(end)]
            BY <2>1 DEF ContractCreate
        <3>2. j # k
            BY <1>t, <1>1, <3>1 DEF NewContract
        <3>3. row = contracts[k] /\ contracts[k] # None
            BY <1>t, <1>1, <3>1, <3>2
        <3>4. QED
            BY <3>3 DEF Copies
    <2>2. ASSUME NEW c \in Clients, UpdateWrite(c)
          PROVE  Old
        <3>1. request[c].op = "update" /\ request[c].contract \in Contracts
            BY <1>u, <2>2 DEF UpdateWrite
        <3>2. CASE request[c].contract = k
            <4>1. row.tenant_user = request[c].row.tenant_user
                BY <1>t, <1>1, <2>2, <3>2, EditWritesBack
            <4>2. request[c].row \in Copies(k)
                BY <3>1, <3>2 DEF Copies
            <4>3. QED
                BY <4>1, <4>2
        <3>3. CASE request[c].contract # k
            <4>1. row = contracts[k] /\ contracts[k] # None
                BY <1>t, <1>1, <2>2, <3>1, <3>3 DEF UpdateWrite
            <4>2. QED
                BY <4>1 DEF Copies
        <3>4. QED
            BY <3>2, <3>3
    <2>3. ASSUME NEW c \in Clients,
                 ContractDelete(c) \/ SaveProposal(c) \/ ConfirmRenewal(c) \/ HardStop(c),
                 contracts[k] # None
          PROVE  Old
        <3>k. contracts[k] \in Contract
            BY <1>t, <2>3
        <3>o. row.tenant_user = contracts[k].tenant_user => Old
            BY <2>3 DEF Copies
        <3>1. ContractDelete(c) => row.tenant_user = contracts[k].tenant_user
            BY <1>t, <1>1, <3>k DEF ContractDelete, Contract
        <3>2. SaveProposal(c) => row.tenant_user = contracts[k].tenant_user
            BY <1>t, <1>1, <3>k, RequestTyped DEF SaveProposal, Contract
        <3>3. ConfirmRenewal(c) => row.tenant_user = contracts[k].tenant_user
            BY <1>t, <1>1, <3>k DEF ConfirmRenewal, Contract
        <3>4. HardStop(c) => row.tenant_user = contracts[k].tenant_user
            BY <1>t, <1>1, <3>k DEF HardStop, Contract
        <3>5. QED
            BY <2>3, <3>o, <3>1, <3>2, <3>3, <3>4
    <2>4. ASSUME NEW c \in Clients,
                 ContractDelete(c) \/ SaveProposal(c) \/ ConfirmRenewal(c) \/ HardStop(c)
          PROVE  contracts[k] # None
        <3>1. PICK j \in Contracts : contracts[j] # None /\ \A x \in Contracts \ {j} : contracts'[x] = contracts[x]
            BY <1>t, <2>4, RequestTyped
               DEF ContractDelete, SaveProposal, ConfirmRenewal, HardStop, TenancyInv, Underway
        <3>2. QED
            BY <1>1, <3>1
    <2>5. ASSUME NEW c \in Clients, LinkContract(c)
          PROVE  Old \/ \E b \in Clients : /\ request[b].op = "link"
                                           /\ row.tenant_user = request[b].user
                                           /\ UNCHANGED <<invites, accounts, code>>
        <3>1. request[c].invite \in Invites /\ invites[request[c].invite] # None
            BY <1>t, <2>5, RequestTyped DEF LinkContract, TenancyInv, Underway
        <3>2. invites[request[c].invite].contract \in Contracts
              /\ contracts[invites[request[c].invite].contract] # None
            BY <1>t, <3>1 DEF TypeOK, Invite, TenancyInv, InvitesLive
        <3>3. CASE invites[request[c].invite].contract = k
            <4>1. row.tenant_user = request[c].user
                BY <1>t, <1>1, <2>5, <3>2, <3>3 DEF LinkContract, Contract
            <4>2. QED
                BY <2>5, <4>1 DEF LinkContract
        <3>4. CASE invites[request[c].invite].contract # k
            <4>1. row = contracts[k] /\ contracts[k] # None
                BY <1>t, <1>1, <2>5, <3>4 DEF LinkContract
            <4>2. QED
                BY <4>1 DEF Copies
        <3>5. QED
            BY <3>3, <3>4
    <2>6. ASSUME NEW u \in Users, DeleteAccount(u)
          PROVE  Old
        <3>1. row = contracts[k] /\ contracts[k] # None
            BY <1>t, <1>1, <2>6 DEF DeleteAccount, Contract
        <3>2. QED
            BY <3>1 DEF Copies
    <2>7. ASSUME UNCHANGED contracts
          PROVE  Old
        BY <1>1, <2>7 DEF Copies
    <2>8. QED
        BY <2>1, <2>2, <2>3, <2>4, <2>5, <2>6, <2>7
           DEF Next, vars, UpdateRead, UpdateAbort, SendRenewal, EndRead, CreateInvite, SignUp,
               CreateAccount, AcceptInvite, SignUpAbort, Crash
<1>2. ASSUME NEW b \in Clients, request'[b].op = "update", request'[b].contract = k,
             row = request'[b].row
      PROVE  Old
    BY <1>c, <1>2 DEF Copies
<1>3. QED
    BY <1>1, <1>2 DEF Copies

\* SpentInv is kept by every step of a system in which TenancyInv holds.
LEMMA SpentStep == TenancyInv /\ SpentInv /\ [Next]_vars => SpentInv'
<1> SUFFICES ASSUME TenancyInv, SpentInv, [Next]_vars
             PROVE  SpentInv'
    OBVIOUS
<1>t. TypeOK /\ TypeOK'
    BY InvStep DEF TenancyInv
<1>1. ASSUME NEW k \in Contracts, NEW row \in Copies(k)', row.tenant_user # None
      PROVE  Spent(code[row.tenant_user])'
    <2>1. CASE \E old \in Copies(k) : old.tenant_user = row.tenant_user
        BY <1>1, <2>1, TenantsStaySpent
    <2>2. ASSUME NEW c \in Clients, request[c].op = "link", row.tenant_user = request[c].user,
                 UNCHANGED <<invites, accounts, code>>
          PROVE  Spent(code[row.tenant_user])'
        <3>1. code[request[c].user] = request[c].invite /\ Spent(request[c].invite)
            BY <2>2 DEF TenancyInv, Underway, SpentInv
        <3>2. QED
            BY <2>2, <3>1 DEF Spent
    <2>3. QED
        BY <1>1, <2>1, <2>2, TenantsComeFrom
<1>2. ASSUME NEW c \in Clients, request'[c].op = "link"
      PROVE  Spent(request[c].invite)'
    <2>1. CASE request'[c] = request[c]
        <3>1. request[c].invite \in Invites /\ invites[request[c].invite] # None
            BY <1>2, <1>t, <2>1, RequestTyped DEF TenancyInv, Underway
        <3>2. \A i \in Invites : i = request[c].invite => Spent(i)'
            BY <1>2, <2>1, <3>1, SpentStays DEF SpentInv
        <3>3. QED
            BY <2>1, <3>1, <3>2 DEF Spent
    <2>2. CASE request'[c] # request[c]
        <3>1. AcceptInvite(c)
            BY <1>2, <1>t, <2>2, ReadByEdits
        <3>2. request[c].invite \in Invites /\ request[c].user \in Users
              /\ invites[request[c].invite] # None
            BY <1>t, <3>1, RequestTyped DEF AcceptInvite, TenancyInv, Underway
        <3>3. request'[c].invite = request[c].invite
              /\ invites'[request[c].invite].accepted_by = request[c].user
            BY <1>t, <3>1, <3>2 DEF AcceptInvite, TypeOK, Invite
        <3>4. QED
            BY <3>2, <3>3 DEF Spent
    <2>3. QED
        BY <2>1, <2>2
<1>3. \A k \in Contracts : contracts'[k] # None => contracts'[k] \in Copies(k)'
    BY DEF Copies
<1>4. \A c \in Clients : request'[c].op = "update" =>
        request'[c].contract \in Contracts /\ request'[c].row \in Copies(request[c].contract)'
    <2>1. \A c \in Clients : request'[c].op = "update" => request'[c].contract \in Contracts
        BY <1>t DEF TypeOK, Request, Idle
    <2>2. QED
        BY <2>1 DEF Copies
<1>5. QED
    BY <1>1, <1>2, <1>3, <1>4 DEF SpentInv, Spent

\* The invite a linked account typed is used up, whatever died or raced half-way, but
\* for one that an account used which is deleted.
THEOREM TenantsUsedTheirInvite == Spec => []TenantUsedInvite
<1>1. Init => SpentInv
    BY DEF Init, SpentInv, Idle
<1>2. TenancyInv /\ SpentInv => TenantUsedInvite
    BY DEF SpentInv, TenantUsedInvite, Spent
<1>3. QED
    BY <1>1, <1>2, SpentStep, TenancyInvHolds, PTL DEF Spec
=============================================================================
