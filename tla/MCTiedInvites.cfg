CONSTANTS
    annsPC = annsPC
    bobsPC = bobsPC
    cydsPC = cydsPC
    ann = ann
    bob = bob
    cyd = cyd
    t1 = t1
    t2 = t2
    t3 = t3
    NoId = NoId
    Clients = {annsPC, bobsPC, cydsPC}
    Logins = {ann, bob, cyd}
    TempIds = {}
    CoarseClock = TRUE
    MembershipKey = FALSE
    MaxWindows = 1
    Registered <- MCRegistered
    LoggedIn <- MCLoggedIn
    Session <- MCSession
    Drawn = 3
    InviteSets <- MCInviteAll
    Limit <- LimitTies
SPECIFICATION Spec
INVARIANT InvitesNameTheirRow
CHECK_DEADLOCK FALSE
