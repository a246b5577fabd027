CONSTANTS
    annsPC = annsPC
    bobsPC = bobsPC
    cydsPC = cydsPC
    ann = ann
    bob = bob
    cyd = cyd
    t1 = t1
    t2 = t2
    t3 = t3
    NoId = NoId
    Clients = {annsPC, bobsPC}
    Logins = {ann, bob}
    TempIds = {t1, t2}
    CoarseClock = FALSE
    MembershipKey = TRUE
    MaxWindows = 2
    Registered <- MCRegistered
    LoggedIn <- MCLoggedIn
    Session <- MCSession
    Drawn = 3
    InviteSets <- MCInviteAll
    Limit <- LimitCrash
SPECIFICATION Spec
INVARIANT NewChatIsDurable
PROPERTY ImplementsRooms
CHECK_DEADLOCK FALSE
