------------------------------- MODULE MCChat -------------------------------
(***************************************************************************)
(* Instances of ChatSystem for TLC: the values of its constants.  Which of *)
(* them a run takes is said in its .cfg.                                   *)
(***************************************************************************)
EXTENDS ChatProperties

CONSTANTS annsPC, bobsPC, cydsPC, ann, bob, cyd, t1, t2, t3

\* Every user is logged in on a device of their own.
MCRegistered == Logins
MCLoggedIn ==
    [p \in Clients |-> CASE p = annsPC -> ann [] p = bobsPC -> bob [] p = cydsPC -> cyd]
MCSession ==
    [p \in Clients |-> CASE p = annsPC -> 1 [] p = bobsPC -> 2 [] p = cydsPC -> 3]

\* Kinds that are not listed are not taken.
Budget(b) == b @@ [k \in Kinds |-> 0]

MCInviteAll == {Logins}
MCInviteTwo == {{ann, bob}}

LimitInvites  == Budget("create" :> 1 @@ "update" :> 2 @@ "crash" :> 1)
LimitCrash    == Budget("create" :> 1 @@ "update" :> 1 @@ "halt" :> 1 @@ "quit" :> 1 @@ "crash" :> 1 @@ "start" :> 1)
LimitMessages == Budget("create" :> 1 @@ "popup" :> 2 @@ "select" :> 3 @@ "send" :> 2 @@ "line" :> 1)
LimitTies     == Budget("create" :> 2 @@ "line" :> 1)
LimitSessions == Budget("start" :> 1 @@ "quit" :> 1 @@ "page" :> 1 @@ "register" :> 1
                        @@ "authorize" :> 1 @@ "logout" :> 1 @@ "changeName" :> 1)
LimitDevices  == Budget("create" :> 1 @@ "logout" :> 1 @@ "authorize" :> 1
                        @@ "popup" :> 1 @@ "select" :> 1 @@ "send" :> 1)
LimitJoins    == Budget("create" :> 1 @@ "update" :> 1 @@ "crash" :> 1)
LimitAccounts == Budget("start" :> 1 @@ "authorize" :> 2 @@ "changeName" :> 1)

\* Nobody is logged in and no client runs.
MCNobody == [p \in Clients |-> NoId]
MCAnnRuns == [p \in Clients |-> IF p = annsPC THEN ann ELSE NoId]
MCOnlyAnn == {ann}
=============================================================================
