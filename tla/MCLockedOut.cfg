CONSTANTS
    annsPC = annsPC
    bobsPC = bobsPC
    cydsPC = cydsPC
    ann = ann
    bob = bob
    cyd = cyd
    t1 = t1
    t2 = t2
    t3 = t3
    NoId = NoId
    Clients = {annsPC}
    Logins = {ann, bob}
    TempIds = {t1}
    CoarseClock = FALSE
    MembershipKey = FALSE
    MaxWindows = 1
    Registered <- MCRegistered
    LoggedIn <- MCNobody
    Session <- MCSession
    Drawn = 3
    InviteSets <- MCInviteAll
    Limit <- LimitAccounts
SPECIFICATION Spec
INVARIANT NeverLockedOut
CHECK_DEADLOCK FALSE
