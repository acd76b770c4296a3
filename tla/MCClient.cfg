SPECIFICATION RunSpec
CONSTANTS
    Me = me
    Other = other
    Extra = extra
    Memberships <- MCMemberships
    Assigned <- MCAssigned
    Droppable = {extra}
    Doubtful = {other}
    LastStep = 4
    MaxEpochs = 2
    MaxIncidents = 1
    Subscriptions = {sub1, sub2}
    MaxNonce = 4
    ChannelCapacity = 2
    SendRetries = 2
    MaxReconnects = 1
    NodeLag = 0
    Users = {u1, u2}
    MaxPoints = 3
    MaxTopUp = 5
    Lenders = {l1, l2}
    MaxCollateral = 4
    MaxRewards = 3
    Grantees = {grantee}
    Delegates = {k1, k2}
    Anyone = anyone
    CloseDelay = 2
    MaxClock = 6
    MaxDelegates = 2
CHECK_DEADLOCK FALSE
INVARIANTS
    StepsInv
    AppliesAgreement
    FollowsAccount
    TreasurerInv
    PoolSolvent
PROPERTIES
    AuthorizerCorrect
