CONSTANTS
    annsPC = annsPC
    bobsPC = bobsPC
    cydsPC = cydsPC
    ann = ann
    bob = bob
    cyd = cyd
    t1 = t1
    t2 = t2
    t3 = t3
    NoId = NoId
    Clients = {annsPC, bobsPC}
    Logins = {ann, bob}
    TempIds = {t1, t2, t3}
    CoarseClock = FALSE
    MembershipKey = FALSE
    MaxWindows = 1
    Registered <- MCOnlyAnn
    LoggedIn <- MCAnnRuns
    Session <- MCSession
    Drawn = 3
    InviteSets <- MCInviteAll
    Limit <- LimitSessions
SPECIFICATION Spec
INVARIANTS IdentityIsEarned 
 
CHECK_DEADLOCK FALSE
