CONSTANTS
    annsPC = annsPC
    bobsPC = bobsPC
    cydsPC = cydsPC
    ann = ann
    bob = bob
    cyd = cyd
    t1 = t1
    t2 = t2
    t3 = t3
    NoId = NoId
    Clients = {annsPC, bobsPC}
    Logins = {ann, bob, cyd}
    TempIds = {}
    CoarseClock = FALSE
    MembershipKey = FALSE
    MaxWindows = 1
    Registered <- MCRegistered
    LoggedIn <- MCLoggedIn
    Session <- MCSession
    Drawn = 3
    InviteSets <- MCInviteTwo
    Limit <- LimitDevices
SPECIFICATION FairSpec
INVARIANTS HeardByMembers InvitesReachTheirUser
PROPERTIES ImplementsSharedRooms LoginCompletes AcceptedInviteJoins 
CHECK_DEADLOCK FALSE
