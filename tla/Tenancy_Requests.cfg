SPECIFICATION Spec
CONSTANTS
    c1 = c1
    c2 = c2
    k1 = k1
    k2 = k2
    u1 = u1
    u2 = u2
    i1 = i1
    d1 = d1
    d2 = d2
    None = None
    Clients <- TwoClients
    Contracts <- TwoContracts
    Users <- TwoUsers
    Invites <- OneInvite
    Dates <- TwoDates
    Terms <- FirstHasTerms
SYMMETRY Symmetry
INVARIANTS ProposalWasMailed LinkedByInvitation NoGhostTenant TenantUsedInvite
PROPERTIES EndsStand LinkKept
CHECK_DEADLOCK FALSE
