-------------------------- MODULE ChatMemberProofs --------------------------
(***************************************************************************)
(* Sessions and memberships: a session id is drawn once, and the table of  *)
(* memberships only grows; messages go to the user they are about.         *)
(***************************************************************************)
EXTENDS ChatInviteProofs

\* granted remembers every session, and the ids given out do not run ahead of
\* the number drawn.
SessionInv ==
    /\ TypeInv
    /\ sessions \subseteq granted
    /\ \A g \in granted : g.id <= issued

-----------------------------------------------------------------------------
\* What the server may do to its sessions: nothing, close some (HandleLogout), or
\* open one whose id comes next (HandleAuthorize).
SessionsClosed == sessions' \subseteq sessions /\ issued' = issued
SessionOpened  ==
    /\ issued' = issued + 1
    /\ \A s \in sessions' : s \in sessions \/ s.id = issued'

LEMMA RequestLeavesSessions ==
    ASSUME NEW p \in Clients,
           \/ RefuseWithoutSession(p) \/ HandleConnection(p) \/ HandleRegister(p)
           \/ PrepareNewChatSession(p) \/ HandleResponseForInvite(p) \/ AcceptFails(p)
           \/ HandleClientChatsInfoRequest(p) \/ HandleClientNotifications(p)
           \/ RefuseMessage(p) \/ HandleSendMessage(p)
    PROVE  SessionsClosed
BY DEF SessionsClosed, RefuseWithoutSession, HandleConnection, HandleRegister,
       PrepareNewChatSession, HandleResponseForInvite, AcceptFails,
       HandleClientChatsInfoRequest, HandleClientNotifications, RefuseMessage,
       HandleSendMessage, serverVars, tableVars, accountVars

LEMMA ServerSessions ==
    ASSUME TypeInv, ServerStep
    PROVE  SessionsClosed \/ SessionOpened
<1>1. ASSUME NEW p \in Clients, HandleAuthorize(p) PROVE SessionsClosed \/ SessionOpened
    <2>1. CASE Current(p).body.valid /\ Current(p).body.login \in users
        BY <1>1, <2>1 DEF HandleAuthorize, FreshSessionId, SessionOpened
    <2>2. CASE ~(Current(p).body.valid /\ Current(p).body.login \in users)
        BY <1>1, <2>2 DEF HandleAuthorize, SessionsClosed
    <2> QED
        BY <2>1, <2>2
<1>2. ASSUME NEW p \in Clients, HandleLogout(p) PROVE SessionsClosed
    BY <1>2 DEF HandleLogout, SessionsClosed
<1>3. CASE \E u \in Logins : AskClient(u)
    BY <1>3 DEF AskClient, accountVars, SessionsClosed
<1>4. CASE FinishNewChat \/ FinishNewChatFails \/ SetNotificationChecked \/ DispatchMessage
    BY <1>4 DEF FinishNewChat, FinishNewChatFails, SetNotificationChecked, DispatchMessage,
                tableVars, accountVars, SessionsClosed
<1> QED
    BY <1>1, <1>2, <1>3, <1>4, RequestLeavesSessions DEF ServerStep

LEMMA SessionsOfOthers ==
    ASSUME [Next]_vars, ~RunServer
    PROVE  UNCHANGED <<sessions, issued, granted>>
BY DEF Next, StartClient, QuitClient, OrphanCrash, EndClient, AcceptConnection, UseAccount,
       UsePane, UseBox, AnswerInvite, Receive, HaltServer, Halt, RestartServer, Restart, Spend,
       vars, serverVars, tableVars, accountVars, systemVars

LEMMA SessionStep ==
    ASSUME SessionInv, [Next]_vars
    PROVE  SessionInv' /\ \A g \in granted \ sessions : g \notin sessions'
<1>1. TypeInv'
    BY StepTyped DEF SessionInv
<1>2. issued \in Nat /\ \A g \in granted : g.id \in Nat /\ g.id <= issued
    BY DEF SessionInv, TypeInv, TypeOK, ServerTypeOK
<1>3. CASE RunServer
    <2>1. granted' = granted \cup sessions' /\ (SessionsClosed \/ SessionOpened)
        BY <1>3, ServerSessions DEF RunServer, SessionInv
    <2>2. CASE SessionsClosed
        BY <1>1, <2>1, <2>2 DEF SessionsClosed, SessionInv
    <2>3. CASE SessionOpened
        <3>1. \A s \in sessions' : s \in granted \/ s.id = issued + 1
            BY <2>3 DEF SessionOpened, SessionInv
        <3>2. \A g \in granted' : g.id <= issued'
            BY <1>2, <2>1, <2>3, <3>1 DEF SessionOpened
        <3>3. \A g \in granted \ sessions : g \notin sessions'
            BY <1>2, <2>3 DEF SessionOpened
        <3> QED
            BY <1>1, <2>1, <3>2, <3>3 DEF SessionInv
    <2> QED
        BY <2>1, <2>2, <2>3
<1>4. CASE ~RunServer
    BY <1>1, <1>4, SessionsOfOthers DEF SessionInv
<1> QED
    BY <1>3, <1>4

\* A session closed by a logout never becomes valid again, whatever logins,
\* logouts and restarts follow: no id is drawn twice.
THEOREM ClosedForGood == Spec => SessionsStayClosed
<1>1. Init => SessionInv
    <2> SUFFICES ASSUME Init PROVE SessionInv
        OBVIOUS
    <2>1. \A g \in granted : g.id <= issued
        BY SystemAssumption DEF Init, ServerInit
    <2> QED
        BY <2>1, InitTyped DEF Init, SessionInv
<1>2. SessionInv /\ [Next]_vars => SessionInv'
    BY SessionStep
<1>3. SessionInv /\ [Next]_vars => [\A g \in granted \ sessions : g \notin sessions']_vars
    BY SessionStep
<1> QED
    BY <1>1, <1>2, <1>3, PTL DEF Spec, SessionsStayClosed

-----------------------------------------------------------------------------
(***************************************************************************)
(* Memberships: whoever is told of a chat is in the table.                 *)
(***************************************************************************)
\* The server knows a client by the id its socket has now, or not at all, and
\* nothing is on its way to a process that does not run.
KnownByIdentity ==
    \A p \in Clients : /\ peer[p] \in {NoId, identity[p]}
                       /\ ~Running(p) => replies[p] = <<>>

DurableInv == TypeInv /\ KnownByIdentity /\ NewChatIsDurable

LEMMA MembersStay ==
    ASSUME [Next]_vars
    PROVE  userChats \subseteq userChats'
BY MembersAfterStep DEF AddClientToChat

LEMMA EmptyPrefix ==
    ASSUME NEW r \in Arrived(<<>>)
    PROVE  r = <<>>
BY DEF Arrived

\* What the server sends goes to connections it has admitted.
LEMMA NothingToStrangers ==
    ASSUME TypeInv, ServerStep, NEW q \in Clients, peer[q] = NoId, replies[q] = <<>>
    PROVE  replies'[q] = <<>>
<1>1. WireTypeOK /\ ServerTypeOK /\ NoId \notin Ids /\ Logins \subseteq Ids
    BY IdsAssumption DEF TypeInv, TypeOK, Ids
<1>2. ASSUME NEW ids, NoId \notin ids, NEW ms, Dispatch(ids, ms) PROVE replies'[q] = <<>>
    BY <1>2 DEF Dispatch
<1>3. ASSUME NEW p \in Clients, Reads(p), NEW ms, Reply(p, ms) PROVE replies'[q] = <<>>
    <2>1. Current(p).from \in Ids
        BY <1>1, <1>3, CurrentTyped
    <2> QED
        BY <1>1, <1>2, <1>3, <2>1 DEF Reply
<1>4. ASSUME UNCHANGED replies PROVE replies'[q] = <<>>
    BY <1>4
<1>5. ASSUME NEW unread, BreakConnections(unread) PROVE replies'[q] = <<>>
    BY <1>5, EmptyPrefix DEF BreakConnections
<1>6. ASSUME NEW p \in Clients,
             \/ RefuseWithoutSession(p) \/ HandleRegister(p) \/ HandleLogout(p)
             \/ HandleClientChatsInfoRequest(p) \/ HandleClientNotifications(p)
      PROVE  replies'[q] = <<>>
    BY <1>3, <1>6 DEF RefuseWithoutSession, HandleRegister, HandleLogout,
        HandleClientChatsInfoRequest, HandleClientNotifications, Serves
<1>7. ASSUME NEW p \in Clients, HandleConnection(p) \/ HandleAuthorize(p)
      PROVE  replies'[q] = <<>>
    <2>1. Reads(p) /\ \E ms : Reply(p, ms)
        BY <1>7 DEF HandleConnection, HandleAuthorize, Serves
    <2> QED
        BY <1>3, <2>1
<1>8. ASSUME NEW p \in Clients, HandleResponseForInvite(p) PROVE replies'[q] = <<>>
    BY <1>3, <1>4, <1>8 DEF HandleResponseForInvite, Serves
<1>9. ASSUME NEW p \in Clients,
             PrepareNewChatSession(p) \/ RefuseMessage(p) \/ HandleSendMessage(p)
      PROVE  replies'[q] = <<>>
    BY <1>4, <1>9 DEF PrepareNewChatSession, RefuseMessage, HandleSendMessage
<1>10. ASSUME NEW u \in Logins, AskClient(u) PROVE replies'[q] = <<>>
    BY <1>1, <1>2, <1>4, <1>10 DEF AskClient
<1>11. CASE FinishNewChat
    BY <1>1, <1>2, <1>11, AskingJob DEF FinishNewChat
<1>12. CASE SetNotificationChecked
    BY <1>4, <1>12 DEF SetNotificationChecked, wireVars
<1>13. CASE DispatchMessage
    <2>1. GetChatClients(job.chat) \subseteq Logins
        BY <1>1 DEF GetChatClients, ServerTypeOK, Memberships
    <2> QED
        BY <1>1, <1>2, <1>13, <2>1 DEF DispatchMessage
<1>14. CASE FinishNewChatFails \/ \E p \in Clients : AcceptFails(p)
    BY <1>5, <1>14 DEF FinishNewChatFails, AcceptFails, GoDown
<1> QED
    BY <1>6, <1>7, <1>8, <1>9, <1>10, <1>11, <1>12, <1>13, <1>14 DEF ServerStep

LEMMA ServerLeavesIds ==
    ASSUME ServerStep
    PROVE  /\ UNCHANGED identity
           /\ \A q \in Clients : peer'[q] \in {NoId, peer[q]}
<1>1. ASSUME NEW p \in Clients,
             \/ RefuseWithoutSession(p) \/ HandleConnection(p) \/ HandleRegister(p)
             \/ HandleAuthorize(p) \/ HandleLogout(p) \/ PrepareNewChatSession(p)
             \/ HandleResponseForInvite(p) \/ HandleClientChatsInfoRequest(p)
             \/ HandleClientNotifications(p) \/ RefuseMessage(p) \/ HandleSendMessage(p)
      PROVE  UNCHANGED <<identity, peer>>
    BY <1>1 DEF RefuseWithoutSession, HandleConnection, HandleRegister, HandleAuthorize,
        HandleLogout, PrepareNewChatSession, HandleResponseForInvite,
        HandleClientChatsInfoRequest, HandleClientNotifications, RefuseMessage,
        HandleSendMessage, Take
<1>2. CASE FinishNewChat \/ SetNotificationChecked \/ DispatchMessage
           \/ \E u \in Logins : AskClient(u)
    BY <1>2 DEF FinishNewChat, SetNotificationChecked, DispatchMessage, AskClient, wireVars
<1>3. CASE FinishNewChatFails \/ \E p \in Clients : AcceptFails(p)
    BY <1>3 DEF FinishNewChatFails, AcceptFails, GoDown, BreakConnections
<1> QED
    BY <1>1, <1>2, <1>3 DEF ServerStep

\* A client takes another id only with a new connection, which nothing of the old
\* one reaches.
IdsChanged ==
    \A q \in Clients : /\ identity'[q] = identity[q] \/ replies'[q] = <<>>
                       /\ peer'[q] \in {NoId, identity'[q]}
                       /\ identity'[q] = NoId => replies'[q] = <<>>

LEMMA ReconnectIds ==
    ASSUME WireTypeOK, KnownByIdentity, NEW p \in Clients, NEW id, Reconnect(p, id)
    PROVE  IdsChanged
BY DEF Reconnect, IdsChanged, KnownByIdentity, Running, WireTypeOK

LEMMA SameIds ==
    ASSUME KnownByIdentity, UNCHANGED <<replies, identity, peer>>
    PROVE  IdsChanged
BY DEF IdsChanged, KnownByIdentity, Running

LEMMA ConsumeIds ==
    ASSUME WireTypeOK, KnownByIdentity, NEW p \in Clients, Running(p), Consume(p)
    PROVE  IdsChanged
BY DEF Consume, IdsChanged, KnownByIdentity, Running, WireTypeOK

LEMMA IdsAfterStep ==
    ASSUME TypeInv, KnownByIdentity, [Next]_vars
    PROVE  IdsChanged
<1>1. WireTypeOK
    BY DEF TypeInv, TypeOK
<1>2. ASSUME NEW p \in Clients, StartClient(p) PROVE IdsChanged
    <2>1. ~Running(p) /\ UNCHANGED <<replies, peer>>
          /\ \E t \in FreshTempIds : identity' = [identity EXCEPT ![p] = t]
        BY <1>2 DEF StartClient, Start
    <2>2. NoId \notin FreshTempIds
        BY IdsAssumption DEF FreshTempIds
    <2> QED
        BY <1>1, <2>1, <2>2 DEF IdsChanged, KnownByIdentity, Running, WireTypeOK
<1>3. ASSUME NEW p \in Clients, QuitClient(p) \/ OrphanCrash(p) PROVE IdsChanged
    BY <1>1, <1>3, ReconnectIds DEF QuitClient, OrphanCrash, EndClient, CloseClient
<1>4. ASSUME NEW p \in Clients, AcceptConnection(p) PROVE IdsChanged
    BY <1>1, <1>4 DEF AcceptConnection, Accept, IdsChanged, KnownByIdentity, Running, WireTypeOK
<1>5. ASSUME NEW p \in Clients, UseAccount(p) PROVE IdsChanged
    BY <1>5, SameIds DEF UseAccount, SwitchPage, RequestRegister, RequestAuthorize,
        RequestLogout, RequestChangeIdentity, SendRequest, wireVars
<1>6. ASSUME NEW p \in Clients, UsePane(p) PROVE IdsChanged
    BY <1>6, SameIds DEF UsePane, RequestToCreateChat, PopUp, SelectChat, SendText, SendLine,
        SendRequest, wireVars
<1>7. ASSUME NEW p \in Clients, UseBox(p) PROVE IdsChanged
    BY <1>7, SameIds DEF UseBox, FetchAllNotifications, OnClick, AnswerInvite, Answer,
        AnswerOrphan, SendRequest, wireVars
<1>8. ASSUME NEW p \in Clients, Receive(p) PROVE IdsChanged
    <2>1. (Running(p) /\ Consume(p)) \/ \E id : Reconnect(p, id)
        BY <1>8 DEF Receive, ReceiveRegister, ReceiveAuthorize, ReceiveAlreadyAuthorized,
            ReceiveNotAuthorized, ReceiveNewClientName, ReceiveNewChat, ReceiveCreateChat,
            ReceiveNotifications, ReceiveClientChats, ReceiveIncomingMessage, Receives
    <2> QED
        BY <1>1, <2>1, ConsumeIds, ReconnectIds
<1>9. CASE HaltServer
    <2>1. BreakConnections(requests)
        BY <1>9 DEF HaltServer, Halt, GoDown
    <2>2. \A q \in Clients : replies[q] = <<>> => replies'[q] = <<>>
        BY <2>1, EmptyPrefix DEF BreakConnections
    <2> QED
        BY <2>1, <2>2 DEF BreakConnections, IdsChanged, KnownByIdentity, Running
<1>10. CASE RestartServer \/ UNCHANGED vars
    BY <1>10, SameIds DEF RestartServer, Restart, vars, wireVars
<1>11. CASE RunServer
    BY <1>11, NothingToStrangers, ServerLeavesIds DEF RunServer, IdsChanged, KnownByIdentity, Running
<1> QED
    BY <1>2, <1>3, <1>4, <1>5, <1>6, <1>7, <1>8, <1>9, <1>10, <1>11 DEF Next

LEMMA DurableStep ==
    ASSUME DurableInv, [Next]_vars
    PROVE  DurableInv'
<1>1. TypeInv /\ TypeInv' /\ KnownByIdentity /\ IdsChanged
    BY StepTyped, IdsAfterStep DEF DurableInv
<1>2. KnownByIdentity'
    BY <1>1 DEF IdsChanged, KnownByIdentity, Running
<1>3. ASSUME NEW q \in Clients, NEW k \in DOMAIN replies'[q], replies'[q][k].kind = "NewChat"
      PROVE  [chat |-> replies'[q][k].chat, user |-> identity'[q]] \in userChats'
    <2>1. identity'[q] = identity[q]
        <3>1. replies'[q] # <<>>
            BY <1>3
        <3> QED
            BY <1>1, <3>1 DEF IdsChanged
    <2>2. CASE Was(replies'[q][k], q)
        BY <1>3, <2>1, <2>2, MembersStay DEF Was, DurableInv, NewChatIsDurable
    <2>3. CASE JustSent(replies'[q][k], q)
        <3>1. peer[q] \in Logins /\ [chat |-> replies'[q][k].chat, user |-> peer[q]] \in userChats'
            BY <1>3, <2>3 DEF JustSent, TellingKinds
        <3>2. peer[q] = identity[q]
            BY <1>1, <3>1, IdsAssumption DEF KnownByIdentity
        <3> QED
            BY <2>1, <3>1, <3>2
    <2> QED
        BY <1>1, <2>2, <2>3, MessageFlow
<1> QED
    BY <1>1, <1>2, <1>3 DEF DurableInv, NewChatIsDurable

\* Whoever is told of a new chat is a member of it in the table, and stays one: no
\* crash, reconnection or change of name in between makes the message false.
THEOREM ToldIsMember == Spec => []NewChatIsDurable
<1>1. Init => DurableInv
    <2>1. Init => KnownByIdentity /\ NewChatIsDurable
        BY DEF Init, WireInit, KnownByIdentity, NewChatIsDurable
    <2> QED
        BY <2>1, InitTyped DEF DurableInv
<1>2. DurableInv /\ [Next]_vars => DurableInv'
    BY DurableStep
<1>3. DurableInv => NewChatIsDurable
    BY DEF DurableInv
<1> QED
    BY <1>1, <1>2, <1>3, PTL DEF Spec

-----------------------------------------------------------------------------
(***************************************************************************)
(* Messages go to members.                                                 *)
(***************************************************************************)
HeardInv == TypeInv /\ KnownByIdentity /\ HeardByMembers

LEMMA HeardStep ==
    ASSUME HeardInv, [Next]_vars
    PROVE  HeardInv'
<1>1. TypeInv /\ TypeInv' /\ KnownByIdentity /\ IdsChanged
    BY StepTyped, IdsAfterStep DEF HeardInv
<1>2. KnownByIdentity'
    BY <1>1 DEF IdsChanged, KnownByIdentity, Running
<1>3. ASSUME NEW q \in Clients, NEW k \in DOMAIN replies'[q],
             replies'[q][k].kind = "IncomingMessage"
      PROVE  [chat |-> replies'[q][k].chat, user |-> identity'[q]] \in userChats'
    <2>1. identity'[q] = identity[q]
        <3>1. replies'[q] # <<>>
            BY <1>3
        <3> QED
            BY <1>1, <3>1 DEF IdsChanged
    <2>2. CASE Was(replies'[q][k], q)
        BY <1>3, <2>1, <2>2, MembersStay DEF Was, HeardInv, HeardByMembers
    <2>3. CASE JustSent(replies'[q][k], q)
        <3>1. peer[q] \in GetChatClients(job.chat) /\ replies'[q][k].chat = job.chat
            BY <1>3, <2>3 DEF JustSent, TellingKinds
        <3>2. PICK m \in userChats : m.chat = job.chat /\ m.user = peer[q]
            BY <3>1 DEF GetChatClients
        <3>3. m \in Memberships
            BY <1>1, <3>2 DEF TypeInv, TypeOK, ServerTypeOK
        <3>4. m = [chat |-> job.chat, user |-> peer[q]] /\ peer[q] \in Logins
            BY <3>2, <3>3 DEF Memberships
        <3>5. peer[q] = identity[q]
            BY <1>1, <3>4, IdsAssumption DEF KnownByIdentity
        <3> QED
            BY <2>1, <3>1, <3>2, <3>4, <3>5, MembersStay
    <2> QED
        BY <1>1, <1>3, <2>2, <2>3, MessageFlow
<1> QED
    BY <1>1, <1>2, <1>3 DEF HeardInv, HeardByMembers

\* A message is only ever on its way to members of its chat, whoever used their
\* windows before and whatever connection held their id when it was stored.
THEOREM OnlyMembersHear == Spec => []HeardByMembers
<1>1. Init => HeardInv
    <2>1. Init => KnownByIdentity /\ HeardByMembers
        BY DEF Init, WireInit, KnownByIdentity, HeardByMembers
    <2> QED
        BY <2>1, InitTyped DEF HeardInv
<1>2. HeardInv /\ [Next]_vars => HeardInv'
    BY HeardStep
<1>3. HeardInv => HeardByMembers
    BY DEF HeardInv
<1> QED
    BY <1>1, <1>2, <1>3, PTL DEF Spec

-----------------------------------------------------------------------------
(***************************************************************************)
(* Invitations reach the user they are for.                                *)
(***************************************************************************)
AddressInv == TypeInv /\ KnownByIdentity /\ InvitesReachTheirUser

IsFor(nid, u) == nid \in DOMAIN notifications /\ notifications[nid].to = u

\* A row keeps its addressee.
LEMMA AddresseeStays ==
    ASSUME TypeInv, [Next]_vars, NEW n, NEW u, IsFor(n, u)
    PROVE  IsFor(n, u)'
<1>1. /\ DOMAIN notifications = 1 .. Len(notifications) /\ Len(notifications) \in Nat
      /\ \A i \in DOMAIN notifications : notifications[i] \in Notifications
    BY LenProperties, ElementOfSeq DEF TypeInv, TypeOK, ServerTypeOK
<1>2. n \in DOMAIN notifications /\ notifications[n].to = u /\ notifications[n] \in Notifications
    BY <1>1 DEF IsFor
<1>3. CASE UNCHANGED notifications
    BY <1>2, <1>3 DEF IsFor
<1>4. CASE RowChecked
    <2>1. notifications'[n] = notifications[n]
          \/ notifications'[n] = [notifications[n] EXCEPT !.checked = TRUE]
        BY <1>2, <1>4 DEF RowChecked
    <2> QED
        BY <1>2, <1>4, <2>1 DEF IsFor, RowChecked, Notifications
<1>5. ASSUME NEW row, RowAdded(row) PROVE IsFor(n, u)'
    BY <1>1, <1>2, <1>5 DEF RowAdded, IsFor
<1> QED
    BY <1>3, <1>4, <1>5, RowsAfterStep

\* All invitations of m are for u.
Addressed(m, u) ==
    /\ m.kind = "CreateChat" => IsFor(m.invite.nid, u)
    /\ m.kind = "Notifications" => \A i \in m.invites : IsFor(i.nid, u)

LEMMA JustSentIsAddressed ==
    ASSUME TypeInv, KnownByIdentity, ~CoarseClock, [Next]_vars, NEW q \in Clients, NEW m,
           identity'[q] = identity[q], JustSent(m, q)
    PROVE  Addressed(m, identity[q])'
<1>1. peer[q] # NoId => peer[q] = identity[q]
    BY DEF KnownByIdentity
<1>2. CASE m.kind = "CreateChat"
    <2>1. PICK u \in Logins, n \in newestNotifications' :
            /\ AskClient(u) /\ u \in users /\ peer[q] = u
            /\ m.invite = [nid |-> n, author |-> job.creator, chat |-> job.chat]
        BY <1>2 DEF JustSent, TellingKinds
    <2>2. /\ n \in DOMAIN notifications'
          /\ notifications'[n] = [from |-> job.creator, to |-> u, chat |-> job.chat,
                                  checked |-> FALSE]
        BY <2>1, NewestIsTheRow
    <2>3. m.invite.nid = n /\ u = identity[q]
        BY <1>1, <2>1, IdsAssumption
    <2> QED
        BY <1>2, <2>2, <2>3 DEF Addressed, IsFor
<1>3. CASE m.kind = "Notifications"
    <2>1. PICK p \in Clients : /\ HandleClientNotifications(p) /\ peer[q] = Current(p).from
                               /\ m.invites = GetClientNotifications(Current(p).from)
        BY <1>3 DEF JustSent, TellingKinds
    <2>2. Current(p).from \in Ids
        BY <2>1, CurrentTyped DEF HandleClientNotifications, Serves, TypeInv, TypeOK
    <2>3. identity[q] = Current(p).from
        BY <1>1, <2>1, <2>2, IdsAssumption DEF Ids
    <2>4. \A i \in m.invites : IsFor(i.nid, identity[q])
        BY <2>1, <2>3 DEF GetClientNotifications, IsFor
    <2>5. \A i \in m.invites : IsFor(i.nid, identity[q])'
        BY <2>4, AddresseeStays
    <2> QED
        BY <1>3, <2>5 DEF Addressed
<1> QED
    BY <1>2, <1>3 DEF Addressed

LEMMA AddressStep ==
    ASSUME AddressInv, ~CoarseClock, [Next]_vars
    PROVE  AddressInv'
<1>1. TypeInv /\ TypeInv' /\ KnownByIdentity /\ IdsChanged
    BY StepTyped, IdsAfterStep DEF AddressInv
<1>2. KnownByIdentity'
    BY <1>1 DEF IdsChanged, KnownByIdentity, Running
<1>3. ASSUME NEW q \in Clients, NEW k \in DOMAIN replies'[q], NEW m, m = replies'[q][k]
      PROVE  Addressed(m, identity[q])'
    <2>1. identity'[q] = identity[q]
        <3>1. replies'[q] # <<>>
            BY <1>3
        <3> QED
            BY <1>1, <3>1 DEF IdsChanged
    <2>2. CASE Was(m, q)
        <3>1. Addressed(m, identity[q])
            BY <2>2 DEF Was, AddressInv, InvitesReachTheirUser, Addressed, IsFor
        <3> QED
            BY <1>1, <2>1, <3>1, AddresseeStays DEF Addressed
    <2>3. CASE JustSent(m, q)
        BY <1>1, <2>1, <2>3, JustSentIsAddressed
    <2> QED
        BY <1>1, <1>3, <2>2, <2>3, MessageFlow
<1>4. InvitesReachTheirUser'
    BY <1>3 DEF InvitesReachTheirUser, Addressed, IsFor
<1> QED
    BY <1>1, <1>2, <1>4 DEF AddressInv

\* An invitation is only ever under way to the user it was stored for, through
\* reconnections, changes of name, crashes and restarts, as long as no two
\* notifications share their created_at.
THEOREM InvitesAreAddressed ==
    ASSUME CoarseClock = FALSE
    PROVE  Spec => []InvitesReachTheirUser
<1>1. Init => AddressInv
    <2>1. Init => KnownByIdentity /\ InvitesReachTheirUser
        BY DEF Init, WireInit, KnownByIdentity, InvitesReachTheirUser
    <2> QED
        BY <2>1, InitTyped DEF AddressInv
<1>2. AddressInv /\ [Next]_vars => AddressInv'
    BY AddressStep
<1>3. AddressInv => InvitesReachTheirUser
    BY DEF AddressInv
<1> QED
    BY <1>1, <1>2, <1>3, PTL DEF Spec

-----------------------------------------------------------------------------
(***************************************************************************)
(* Connections: which requests and answers belong to which of them.        *)
(***************************************************************************)
\* No id is held by two clients.
PeersDiffer == \A p, q \in Clients : p # q /\ peer[p] = peer[q] => peer[p] = NoId

\* A request is one of the connection there is, or of one that is closed: then no
\* connection gets its id before the request is read.
SentIsOld ==
    \A p \in Clients : \A k \in DOMAIN requests[p] :
        IF requests[p][k].sent THEN \A q \in Clients : peer[q] # requests[p][k].from
                               ELSE requests[p][k].from = identity[p]

\* Those of closed connections are read first.
SentFirst ==
    \A p \in Clients : \A j, k \in DOMAIN requests[p] :
        j < k /\ requests[p][k].sent => requests[p][j].sent

ConnectionInv == PeersDiffer /\ SentIsOld /\ SentFirst

\* What a step may do to requests and ids.
LEMMA ConnectionsAfterStep ==
    ASSUME TypeInv, [Next]_vars
    PROVE  \/ UNCHANGED <<requests, identity, peer>>
           \/ \E p \in Clients, s \in Nat, b \in RequestBodies :
                Running(p) /\ Post(p, s, b) /\ UNCHANGED <<identity, peer>>
           \/ \E p \in Clients, self \in Logins : Start(p, self)
           \/ \E p \in Clients : Accept(p)
           \/ \E p \in Clients : \E id \in (Ids \cup {NoId}) \ {identity[p]} : Reconnect(p, id)
           \/ \E p \in Clients : Reads(p) /\ Take(p)
           \/ BreakConnections(requests)
           \/ \E p \in Clients : Reads(p) /\ BreakConnections(Taken(p))
<1> DEFINE Posts == \E p \in Clients, s \in Nat, b \in RequestBodies :
                        Running(p) /\ Post(p, s, b) /\ UNCHANGED <<identity, peer>>
<1>1. /\ WireTypeOK /\ ClientTypeOK /\ BoxTypeOK
      /\ \A p \in Clients : chatId[p] \in Int /\ current[p] \in Int
    BY DEF TypeInv, TypeOK, ClientTypeOK, PaneTypeOK
<1>2. ASSUME NEW p \in Clients, NEW b \in RequestBodies, SendRequest(p, b) PROVE Posts
    BY <1>1, <1>2 DEF SendRequest, ClientTypeOK
<1> HIDE DEF Posts
<1>3. ASSUME NEW p \in Clients, UseAccount(p)
      PROVE  Posts \/ UNCHANGED <<requests, identity, peer>>
    <2>1. [kind |-> "Logout"] \in RequestBodies
        BY DEF RequestBodies
    <2> QED
        BY <1>2, <1>3, <2>1, AccountBodies DEF UseAccount, SwitchPage, RequestRegister,
            RequestAuthorize, RequestLogout, RequestChangeIdentity, wireVars
<1>4. ASSUME NEW p \in Clients, UsePane(p)
      PROVE  Posts \/ UNCHANGED <<requests, identity, peer>>
    <2>1. [kind |-> "ClientChats"] \in RequestBodies
        BY DEF RequestBodies
    <2>2. InviteSets \subseteq SUBSET Logins
        BY SystemAssumption
    <2>3. ASSUME NEW invited \in InviteSets
          PROVE  [kind |-> "CreateChat", invited |-> invited] \in RequestBodies
        <3>1. invited \in SUBSET Logins
            BY <2>2
        <3> QED
            BY <3>1 DEF RequestBodies
    <2> QED
        BY <1>1, <1>2, <1>4, <2>1, <2>3, PaneBodies DEF UsePane, RequestToCreateChat, PopUp,
            SelectChat, SendText, SendLine, wireVars
<1>5. ASSUME NEW p \in Clients, UseBox(p)
      PROVE  Posts \/ UNCHANGED <<requests, identity, peer>>
    <2>1. [kind |-> "Notifications"] \in RequestBodies
        BY DEF RequestBodies
    <2>2. ASSUME NEW i \in DOMAIN notices[p], NEW accept \in BOOLEAN, Answer(p, i, accept)
          PROVE  Posts
        <3> DEFINE b == [kind |-> IF accept THEN "AcceptCreateChat" ELSE "DeclineCreateChat",
                         nid |-> notices[p][i].nid, chat |-> notices[p][i].chat]
        <3>1. notices[p][i] \in Entries
            BY <1>1, ElementOfSeq, LenProperties DEF BoxTypeOK
        <3>2. b \in RequestBodies
            BY <3>1 DEF RequestBodies, Entries
        <3>3. SendRequest(p, b)
            BY <2>2 DEF Answer
        <3> HIDE DEF b
        <3> QED
            BY <1>2, <3>2, <3>3
    <2> QED
        BY <1>2, <1>5, <2>1, <2>2 DEF UseBox, FetchAllNotifications, OnClick, AnswerInvite,
            AnswerOrphan, wireVars
<1>6. ASSUME NEW p \in Clients, Receive(p)
      PROVE  \/ UNCHANGED <<requests, identity, peer>>
             \/ \E id \in (Ids \cup {NoId}) \ {identity[p]} : Reconnect(p, id)
    <2>1. ASSUME ReceiveNewClientName(p) PROVE Received(p).login \in Ids
        BY <1>1, <2>1, HeadReplyTyped, ReplyFields DEF ReceiveNewClientName, Receives, Received,
            WireTypeOK, Ids
    <2> QED
        BY <1>6, <2>1 DEF Receive, ReceiveRegister, ReceiveAuthorize, ReceiveAlreadyAuthorized,
            ReceiveNotAuthorized, ReceiveNewClientName, ReceiveNewChat, ReceiveCreateChat,
            ReceiveNotifications, ReceiveClientChats, ReceiveIncomingMessage, Consume
<1>7. CASE RunServer
    <2>1. ASSUME NEW p \in Clients,
                 \/ RefuseWithoutSession(p) \/ HandleConnection(p) \/ HandleRegister(p)
                 \/ HandleAuthorize(p) \/ HandleLogout(p) \/ PrepareNewChatSession(p)
                 \/ HandleResponseForInvite(p) \/ HandleClientChatsInfoRequest(p)
                 \/ HandleClientNotifications(p) \/ RefuseMessage(p) \/ HandleSendMessage(p)
          PROVE  Reads(p) /\ Take(p)
        BY <2>1 DEF RefuseWithoutSession, HandleConnection, HandleRegister, HandleAuthorize,
            HandleLogout, PrepareNewChatSession, HandleResponseForInvite,
            HandleClientChatsInfoRequest, HandleClientNotifications, RefuseMessage,
            HandleSendMessage, Serves
    <2>2. ASSUME NEW p \in Clients, AcceptFails(p)
          PROVE  Reads(p) /\ BreakConnections(Taken(p))
        BY <2>2 DEF AcceptFails, Serves, GoDown
    <2>3. ASSUME \/ FinishNewChat \/ SetNotificationChecked \/ DispatchMessage
                 \/ \E u \in Logins : AskClient(u)
          PROVE  UNCHANGED <<requests, identity, peer>>
        BY <2>3 DEF FinishNewChat, SetNotificationChecked, DispatchMessage, AskClient, wireVars
    <2>4. ASSUME FinishNewChatFails PROVE BreakConnections(requests)
        BY <2>4 DEF FinishNewChatFails, GoDown
    <2> QED
        BY <1>7, <2>1, <2>2, <2>3, <2>4 DEF RunServer, ServerStep
<1>8. ASSUME NEW p \in Clients,
             StartClient(p) \/ QuitClient(p) \/ OrphanCrash(p) \/ AcceptConnection(p)
      PROVE  \/ \E self \in Logins : Start(p, self)
             \/ Accept(p)
             \/ (Reconnect(p, NoId) /\ identity[p] # NoId)
    BY <1>8 DEF StartClient, QuitClient, OrphanCrash, EndClient, CloseClient, AcceptConnection,
        Running
<1>9. CASE HaltServer
    BY <1>9 DEF HaltServer, Halt, GoDown
<1>10. CASE RestartServer \/ UNCHANGED vars
    BY <1>10 DEF RestartServer, Restart, vars, wireVars
<1> QED
    BY <1>3, <1>4, <1>5, <1>6, <1>7, <1>8, <1>9, <1>10 DEF Next, Posts

\* The requests counted by Stale are the first ones.
LEMMA StaleAreFirst ==
    ASSUME WireTypeOK, SentFirst, NEW p \in Clients, NEW k \in 1 .. Stale(p)
    PROVE  k \in DOMAIN requests[p] /\ requests[p][k].sent
<1> DEFINE n    == Len(requests[p])
           sent == {i \in DOMAIN requests[p] : requests[p][i].sent}
<1>1. DOMAIN requests[p] = 1 .. n /\ n \in Nat
    BY LenProperties DEF WireTypeOK
<1>2. Stale(p) \in 0 .. n
    BY <1>1, StaleTyped
<1>3. k \in 1 .. n
    BY <1>1, <1>2
<1>4. ASSUME ~requests[p][k].sent PROVE FALSE
    <2>1. \A i \in sent : i \in 1 .. k - 1
        <3> SUFFICES ASSUME NEW i \in sent, ~(i \in 1 .. k - 1) PROVE FALSE
            OBVIOUS
        <3>1. i \in 1 .. n /\ requests[p][i].sent
            BY <1>1
        <3>2. i # k
            BY <1>4, <3>1
        <3>3. k < i
            BY <1>1, <1>3, <3>1, <3>2
        <3> QED
            BY <1>1, <1>3, <1>4, <3>1, <3>3 DEF SentFirst
    <2>2. sent \in SUBSET (1 .. k - 1)
        BY <2>1
    <2> HIDE DEF sent
    <2>3. IsFiniteSet(1 .. k - 1) /\ Cardinality(1 .. k - 1) = k - 1
        <3>1. 1 \in Int /\ k - 1 \in Int /\ ~(1 > k)
            BY <1>1, <1>3
        <3>2. /\ IsFiniteSet(1 .. k - 1)
              /\ Cardinality(1 .. k - 1) = IF 1 > k - 1 THEN 0 ELSE k - 1 - 1 + 1
            BY <3>1, FS_Interval
        <3> QED
            BY <3>1, <3>2
    <2>4. Cardinality(sent) \in Nat /\ Cardinality(sent) <= k - 1
        BY <2>2, <2>3, FS_Subset, FS_CardinalityType
    <2>5. Stale(p) = Cardinality(sent)
        BY DEF Stale, sent
    <2> QED
        BY <1>3, <2>4, <2>5
<1> QED
    BY <1>1, <1>3, <1>4

LEMMA TransmittedAreSent ==
    ASSUME WireTypeOK, SentFirst, NEW p \in Clients, NEW left \in Transmitted(p),
           NEW k \in DOMAIN left
    PROVE  /\ k \in DOMAIN requests[p]
           /\ left[k].sent /\ left[k].from = requests[p][k].from
           /\ Admitted(p) \/ requests[p][k].sent
<1> DEFINE r == requests[p]
<1>1. r \in Seq(Requests) /\ Len(r) \in Nat /\ DOMAIN r = 1 .. Len(r)
    BY LenProperties DEF WireTypeOK
<1>2. Stale(p) \in 0 .. Len(r)
    BY StaleTyped
<1>3. PICK n \in Stale(p) .. (IF Admitted(p) THEN Len(r) ELSE Stale(p)) :
        left = [i \in 1 .. n |-> [r[i] EXCEPT !.sent = TRUE]]
    BY DEF Transmitted
<1>4. n \in 0 .. Len(r) /\ (Admitted(p) \/ n = Stale(p))
    BY <1>1, <1>2, <1>3
<1>5. k \in 1 .. n /\ k \in DOMAIN r /\ left[k] = [r[k] EXCEPT !.sent = TRUE]
    BY <1>1, <1>3, <1>4
<1>6. r[k] \in Requests
    BY <1>1, <1>5, ElementOfSeq
<1>7. left[k].sent /\ left[k].from = r[k].from
    BY <1>5, <1>6 DEF Requests
<1> QED
    BY <1>4, <1>5, <1>7, StaleAreFirst

LEMMA RequestTyped ==
    ASSUME WireTypeOK, NEW p \in Clients, NEW k \in DOMAIN requests[p]
    PROVE  requests[p][k] \in Requests /\ requests[p][k].from \in Ids /\ requests[p][k].from # NoId
<1>1. requests[p] \in Seq(Requests)
    BY DEF WireTypeOK
<1>2. requests[p][k] \in Requests
    BY <1>1, ElementOfSeq, LenProperties
<1> QED
    BY <1>2, IdsAssumption DEF Requests, Ids

\* A request is added at the end by the connection there is.
LEMMA AppendConnection ==
    ASSUME WireTypeOK, ConnectionInv, NEW p \in Clients, NEW r \in Requests, ~r.sent,
           requests' = [requests EXCEPT ![p] = Append(@, r)], UNCHANGED peer,
           \A q \in Clients \ {p} : identity'[q] = identity[q], r.from = identity'[p],
           \A k \in DOMAIN requests[p] : requests[p][k].sent \/ identity'[p] = identity[p]
    PROVE  ConnectionInv'
<1> DEFINE n == Len(requests[p])
<1>1. requests[p] \in Seq(Requests) /\ n \in Nat /\ DOMAIN requests[p] = 1 .. n
    BY LenProperties DEF WireTypeOK
<1>2. requests'[p] = Append(requests[p], r) /\ \A q \in Clients \ {p} : requests'[q] = requests[q]
    BY DEF WireTypeOK
<1>3. /\ DOMAIN requests'[p] = 1 .. n + 1
      /\ \A i \in 1 .. n : requests'[p][i] = requests[p][i]
      /\ requests'[p][n + 1] = r
    BY <1>1, <1>2, AppendProperties, LenProperties
<1> HIDE DEF n
<1>4. PeersDiffer'
    BY DEF ConnectionInv, PeersDiffer
<1>5. ASSUME NEW q \in Clients, NEW k \in DOMAIN requests'[q]
      PROVE  IF requests'[q][k].sent THEN \A c \in Clients : peer'[c] # requests'[q][k].from
                                     ELSE requests'[q][k].from = identity'[q]
    <2>1. CASE q # p
        BY <1>2, <1>5, <2>1 DEF ConnectionInv, SentIsOld
    <2>2. CASE q = p /\ k = n + 1
        BY <1>3, <2>2
    <2>3. CASE q = p /\ k # n + 1
        <3>1. k \in DOMAIN requests[p] /\ requests'[p][k] = requests[p][k]
            BY <1>1, <1>3, <1>5, <2>3
        <3> QED
            BY <2>3, <3>1 DEF ConnectionInv, SentIsOld
    <2> QED
        BY <2>1, <2>2, <2>3
<1>6. ASSUME NEW q \in Clients, NEW j \in DOMAIN requests'[q], NEW k \in DOMAIN requests'[q],
             j < k, requests'[q][k].sent
      PROVE  requests'[q][j].sent
    <2>1. CASE q # p
        BY <1>2, <1>6, <2>1 DEF ConnectionInv, SentFirst
    <2>2. CASE q = p
        <3>1. k # n + 1
            BY <1>3, <1>6, <2>2
        <3>2. k \in 1 .. n /\ j \in 1 .. n
            BY <1>1, <1>3, <1>6, <2>2, <3>1
        <3> QED
            BY <1>1, <1>3, <1>6, <2>2, <3>2 DEF ConnectionInv, SentFirst
    <2> QED
        BY <2>1, <2>2
<1> QED
    BY <1>4, <1>5, <1>6 DEF ConnectionInv, SentIsOld, SentFirst

LEMMA StartConnection ==
    ASSUME TypeInv, ConnectionInv, NEW p \in Clients, NEW self \in Logins, Start(p, self)
    PROVE  ConnectionInv'
<1>1. WireTypeOK /\ ClientTypeOK
    BY DEF TypeInv, TypeOK
<1>2. PICK t \in FreshTempIds :
        /\ identity' = [identity EXCEPT ![p] = t]
        /\ requests' = [requests EXCEPT ![p] = Append(@,
             [from |-> t, session |-> config[p].session, sent |-> FALSE,
              body |-> [kind  |-> "Connect",
                        login |-> IF config[p].identity = NoId THEN self
                                                               ELSE config[p].identity]])]
    BY DEF Start
<1> DEFINE b == [kind  |-> "Connect",
                 login |-> IF config[p].identity = NoId THEN self ELSE config[p].identity]
           r == [from |-> t, session |-> config[p].session, sent |-> FALSE, body |-> b]
<1>3. config[p].session \in Nat /\ config[p].identity \in Logins \cup {NoId} /\ t \in Ids
    BY <1>1 DEF ClientTypeOK, FreshTempIds, Ids
<1>4. b \in RequestBodies
    BY <1>3 DEF RequestBodies
<1> HIDE DEF b
<1>5. r \in Requests /\ ~r.sent /\ r.from = t
    BY <1>3, <1>4 DEF Requests
<1>6. requests' = [requests EXCEPT ![p] = Append(@, r)]
    BY <1>2 DEF b
<1> HIDE DEF r
<1>7. identity'[p] = t /\ \A q \in Clients \ {p} : identity'[q] = identity[q]
    BY <1>1, <1>2 DEF WireTypeOK
<1>8. ASSUME NEW k \in DOMAIN requests[p] PROVE requests[p][k].sent
    <2>1. requests[p][k].from \in Ids
        BY <1>1, RequestTyped
    <2>2. requests[p][k].from # identity[p]
        BY <2>1, IdsAssumption DEF Start, Running, Ids
    <2> QED
        BY <2>2 DEF ConnectionInv, SentIsOld
<1>9. UNCHANGED peer
    BY DEF Start
<1> QED
    BY <1>1, <1>5, <1>6, <1>7, <1>8, <1>9, AppendConnection

LEMMA PostConnection ==
    ASSUME WireTypeOK, ConnectionInv, NEW p \in Clients, NEW s \in Nat, NEW b \in RequestBodies,
           Running(p), Post(p, s, b), UNCHANGED <<identity, peer>>
    PROVE  ConnectionInv'
<1> DEFINE r == [from |-> identity[p], session |-> s, sent |-> FALSE, body |-> b]
<1>1. r \in Requests /\ ~r.sent /\ r.from = identity'[p]
    BY DEF WireTypeOK, Running, Requests
<1>2. requests' = [requests EXCEPT ![p] = Append(@, r)]
    BY DEF Post
<1> HIDE DEF r
<1> QED
    BY <1>1, <1>2, AppendConnection

LEMMA AcceptKeepsConnections ==
    ASSUME WireTypeOK, ConnectionInv, NEW p \in Clients, Accept(p)
    PROVE  ConnectionInv'
<1>1. UNCHANGED <<requests, identity>> /\ Running(p)
      /\ peer'[p] = identity[p] /\ \A q \in Clients \ {p} : peer'[q] = peer[q]
    BY DEF Accept, WireTypeOK
<1>2. \A q \in Clients : peer[q] # identity[p]
    BY DEF Accept
<1>3. PeersDiffer'
    BY <1>1, <1>2 DEF ConnectionInv, PeersDiffer
<1>4. ASSUME NEW q \in Clients, NEW k \in DOMAIN requests[q], requests[q][k].sent
      PROVE  \A c \in Clients : peer'[c] # requests[q][k].from
    BY <1>1, <1>4 DEF Accept, ConnectionInv, SentIsOld
<1> QED
    BY <1>1, <1>3, <1>4 DEF ConnectionInv, SentIsOld, SentFirst

LEMMA ReconnectConnection ==
    ASSUME WireTypeOK, ConnectionInv, NEW p \in Clients, NEW id, Reconnect(p, id)
    PROVE  ConnectionInv'
<1>1. PICK left \in Transmitted(p) : requests' = [requests EXCEPT ![p] = left]
    BY DEF Reconnect
<1>2. /\ requests'[p] = left
      /\ peer'[p] = NoId
      /\ \A q \in Clients \ {p} : /\ requests'[q] = requests[q]
                                  /\ peer'[q] = peer[q] /\ identity'[q] = identity[q]
    BY <1>1 DEF Reconnect, WireTypeOK
<1>3. ASSUME NEW k \in DOMAIN left
      PROVE  left[k].sent /\ \A c \in Clients : peer'[c] # left[k].from
    <2>1. /\ k \in DOMAIN requests[p] /\ left[k].sent /\ left[k].from = requests[p][k].from
          /\ Admitted(p) \/ requests[p][k].sent
        BY <1>3, TransmittedAreSent DEF ConnectionInv
    <2>2. left[k].from \in Ids
        BY <2>1, RequestTyped
    <2>3. CASE requests[p][k].sent
        BY <1>2, <2>1, <2>2, <2>3, IdsAssumption DEF ConnectionInv, SentIsOld, Ids
    <2>4. CASE ~requests[p][k].sent
        <3>1. left[k].from = peer[p]
            BY <2>1, <2>4 DEF ConnectionInv, SentIsOld, Admitted
        <3> QED
            BY <1>2, <2>1, <2>2, <3>1, IdsAssumption DEF ConnectionInv, PeersDiffer, Ids
    <2> QED
        BY <2>3, <2>4
<1>4. ASSUME NEW q \in Clients \ {p}, NEW k \in DOMAIN requests[q], requests[q][k].sent
      PROVE  \A c \in Clients : peer'[c] # requests[q][k].from
    <2>1. requests[q][k].from \in Ids
        BY RequestTyped
    <2> QED
        BY <1>2, <1>4, <2>1, IdsAssumption DEF ConnectionInv, SentIsOld, Ids
<1>5. PeersDiffer'
    BY <1>2 DEF ConnectionInv, PeersDiffer
<1>6. SentIsOld'
    BY <1>2, <1>3, <1>4 DEF ConnectionInv, SentIsOld
<1>7. SentFirst'
    BY <1>2, <1>3 DEF ConnectionInv, SentFirst
<1> QED
    BY <1>5, <1>6, <1>7 DEF ConnectionInv

LEMMA TakeConnection ==
    ASSUME WireTypeOK, ConnectionInv, NEW p \in Clients, Reads(p), Take(p)
    PROVE  ConnectionInv'
<1>1. UNCHANGED <<identity, peer>> /\ requests[p] # <<>> /\ requests[p] \in Seq(Requests)
    BY DEF Take, Reads, Readable, WireTypeOK
<1>2. requests'[p] = Tail(requests[p]) /\ \A q \in Clients \ {p} : requests'[q] = requests[q]
    BY DEF Take, Taken, WireTypeOK
<1>3. \A k \in DOMAIN requests'[p] :
        k + 1 \in DOMAIN requests[p] /\ requests'[p][k] = requests[p][k + 1]
    BY <1>1, <1>2, TailElements
<1>4. DOMAIN requests'[p] \subseteq Nat
    BY <1>1, <1>2, HeadTailProperties, LenProperties
<1>5. PeersDiffer'
    BY <1>1 DEF ConnectionInv, PeersDiffer
<1>6. ASSUME NEW q \in Clients, NEW k \in DOMAIN requests'[q]
      PROVE  IF requests'[q][k].sent THEN \A c \in Clients : peer'[c] # requests'[q][k].from
                                     ELSE requests'[q][k].from = identity'[q]
    <2>1. CASE q # p
        BY <1>1, <1>2, <1>6, <2>1 DEF ConnectionInv, SentIsOld
    <2>2. CASE q = p
        BY <1>1, <1>3, <1>6, <2>2 DEF ConnectionInv, SentIsOld
    <2> QED
        BY <2>1, <2>2
<1>7. ASSUME NEW q \in Clients, NEW j \in DOMAIN requests'[q], NEW k \in DOMAIN requests'[q],
             j < k, requests'[q][k].sent
      PROVE  requests'[q][j].sent
    <2>1. CASE q # p
        BY <1>2, <1>7, <2>1 DEF ConnectionInv, SentFirst
    <2>2. CASE q = p
        <3>1. j + 1 < k + 1
            BY <1>4, <1>7, <2>2
        <3> QED
            BY <1>3, <1>7, <2>2, <3>1 DEF ConnectionInv, SentFirst
    <2> QED
        BY <2>1, <2>2
<1> QED
    BY <1>5, <1>6, <1>7 DEF ConnectionInv, SentIsOld, SentFirst

\* When the server goes down, the requests left are those of the connections there are.
LEMMA BreakConnection ==
    ASSUME WireTypeOK, ConnectionInv,
           NEW unread \in [Clients -> Seq(Requests)], BreakConnections(unread),
           \A q \in Clients : \A k \in DOMAIN unread[q] :
                unread[q][k].sent \/ unread[q][k].from = identity[q]
    PROVE  ConnectionInv'
<1>1. identity' = identity /\ \A q \in Clients : peer'[q] = NoId
    BY DEF BreakConnections
<1>2. ASSUME NEW q \in Clients, NEW k \in DOMAIN requests'[q]
      PROVE  ~requests'[q][k].sent /\ requests'[q][k].from = identity[q]
    <2> DEFINE r == unread[q]
    <2>1. r \in Seq(Requests) /\ Len(r) \in Nat /\ DOMAIN r = 1 .. Len(r)
        BY LenProperties
    <2>2. PICK n \in 1 .. Len(r) + 1 :
            requests'[q] = SubSeq(r, n, Len(r)) /\ \A i \in n .. Len(r) : ~r[i].sent
        BY DEF BreakConnections, Resendable
    <2>3. k \in 1 .. Len(r) - n + 1 /\ requests'[q][k] = r[n + k - 1]
        BY <2>1, <2>2, SuffixElements
    <2>4. n + k - 1 \in n .. Len(r) /\ n + k - 1 \in DOMAIN r
        BY <2>1, <2>3
    <2> HIDE DEF r
    <2>5. ~r[n + k - 1].sent
        BY <2>2, <2>4
    <2> QED
        BY <2>3, <2>4, <2>5 DEF r
<1> QED
    BY <1>1, <1>2 DEF ConnectionInv, PeersDiffer, SentIsOld, SentFirst

LEMMA ConnectionStep ==
    ASSUME TypeInv, ConnectionInv, [Next]_vars
    PROVE  ConnectionInv'
<1>1. WireTypeOK
    BY DEF TypeInv, TypeOK
<1>2. \A q \in Clients : \A k \in DOMAIN requests[q] :
        requests[q][k].sent \/ requests[q][k].from = identity[q]
    BY DEF ConnectionInv, SentIsOld
<1>3. CASE UNCHANGED <<requests, identity, peer>>
    BY <1>3 DEF ConnectionInv, PeersDiffer, SentIsOld, SentFirst
<1>4. CASE BreakConnections(requests)
    <2>1. requests \in [Clients -> Seq(Requests)]
        BY <1>1 DEF WireTypeOK
    <2> QED
        BY <1>1, <1>2, <1>4, <2>1, BreakConnection
<1>5. ASSUME NEW p \in Clients, Reads(p), BreakConnections(Taken(p)) PROVE ConnectionInv'
    <2>1. requests[p] # <<>> /\ requests[p] \in Seq(Requests)
        BY <1>1, <1>5 DEF Reads, Readable, WireTypeOK
    <2>2. Taken(p) \in [Clients -> Seq(Requests)]
        BY <1>1, <2>1, HeadTailProperties DEF Taken, WireTypeOK
    <2>3. ASSUME NEW q \in Clients, NEW k \in DOMAIN Taken(p)[q]
          PROVE  Taken(p)[q][k].sent \/ Taken(p)[q][k].from = identity[q]
        <3>1. Taken(p)[q] = IF q = p THEN Tail(requests[p]) ELSE requests[q]
            BY <1>1 DEF Taken, WireTypeOK
        <3>2. CASE q = p
            BY <1>2, <2>1, <2>3, <3>1, <3>2, TailElements
        <3>3. CASE q # p
            BY <1>2, <2>3, <3>1, <3>3
        <3> QED
            BY <3>2, <3>3
    <2> QED
        BY <1>1, <1>5, <2>2, <2>3, BreakConnection
<1> QED
    BY <1>1, <1>3, <1>4, <1>5, ConnectionsAfterStep, PostConnection, StartConnection,
       AcceptKeepsConnections, ReconnectConnection, TakeConnection

\* An answer goes to the client that asked, or to nobody.
LEMMA AnswersComeBack ==
    ASSUME TypeInv, ConnectionInv, NEW p \in Clients, Reads(p),
           NEW q \in Clients, peer[q] = Current(p).from
    PROVE  q = p /\ ~Current(p).sent /\ peer[p] = identity[p] /\ Current(p).from = identity[p]
<1>1. WireTypeOK
    BY DEF TypeInv, TypeOK
<1>2. requests[p] # <<>> /\ requests[p] \in Seq(Requests)
    BY <1>1 DEF Reads, Readable, WireTypeOK
<1>3. 1 \in DOMAIN requests[p] /\ Current(p) = requests[p][1]
    BY <1>2, HeadTailProperties, LenProperties, EmptySeq DEF Current
<1>4. ~Current(p).sent
    BY <1>3 DEF ConnectionInv, SentIsOld
<1>5. Admitted(p) /\ Current(p).from = identity[p]
    BY <1>3, <1>4 DEF Reads, Readable, Current, ConnectionInv, SentIsOld
<1> QED
    BY <1>4, <1>5 DEF Admitted, Running, ConnectionInv, PeersDiffer

-----------------------------------------------------------------------------
(***************************************************************************)
(* Identities: a login is used on devices that had a session of it.        *)
(***************************************************************************)
IdentityInv == SessionInv /\ KnownByIdentity /\ ConnectionInv /\ IdentityIsEarned

\* One of the sessions in G is of user u on p's device.
HasOpened(G, p, u) == \E g \in G : g.user = u /\ g.device = p

LEMMA GrantedGrows ==
    ASSUME [Next]_vars
    PROVE  granted \subseteq granted'
BY SessionsOfOthers DEF RunServer

\* A client takes a temporary id when it starts, the name it was told, or none.
LEMMA IdentityAfterStep ==
    ASSUME TypeInv, [Next]_vars, NEW q \in Clients
    PROVE  \/ identity'[q] = identity[q]
           \/ identity'[q] \in TempIds \cup {NoId}
           \/ Receives(q, "NewClientName") /\ identity'[q] = Received(q).login
<1>1. WireTypeOK
    BY DEF TypeInv, TypeOK
<1>2. ASSUME NEW p \in Clients, NEW self \in Logins, Start(p, self)
      PROVE  identity'[q] = identity[q] \/ identity'[q] \in TempIds
    BY <1>1, <1>2 DEF Start, FreshTempIds, WireTypeOK
<1>3. ASSUME NEW p \in Clients, CloseClient(p)
      PROVE  identity'[q] = identity[q] \/ identity'[q] = NoId
    BY <1>1, <1>3 DEF CloseClient, Reconnect, WireTypeOK
<1>4. ASSUME NEW p \in Clients, Receive(p)
      PROVE  \/ identity'[q] = identity[q]
             \/ Receives(q, "NewClientName") /\ identity'[q] = Received(q).login
    <2>1. CASE ReceiveNewClientName(p)
        BY <1>1, <2>1 DEF ReceiveNewClientName, Reconnect, Consume, WireTypeOK
    <2>2. CASE \/ ReceiveRegister(p) \/ ReceiveAuthorize(p) \/ ReceiveAlreadyAuthorized(p)
               \/ ReceiveNotAuthorized(p) \/ ReceiveNewChat(p) \/ ReceiveCreateChat(p)
               \/ ReceiveNotifications(p) \/ ReceiveClientChats(p) \/ ReceiveIncomingMessage(p)
        BY <2>2 DEF ReceiveRegister, ReceiveAuthorize, ReceiveAlreadyAuthorized,
            ReceiveNotAuthorized, ReceiveNewChat, ReceiveCreateChat, ReceiveNotifications,
            ReceiveClientChats, ReceiveIncomingMessage, Consume
    <2> QED
        BY <1>4, <2>1, <2>2 DEF Receive
<1>5. ASSUME NEW p \in Clients, AcceptConnection(p) \/ UseAccount(p) \/ UsePane(p) \/ UseBox(p)
      PROVE  UNCHANGED identity
    BY <1>5 DEF AcceptConnection, Accept, UseAccount, SwitchPage, RequestRegister,
        RequestAuthorize, RequestLogout, RequestChangeIdentity, UsePane, RequestToCreateChat,
        PopUp, SelectChat, SendText, SendLine, UseBox, FetchAllNotifications, OnClick,
        AnswerInvite, Answer, AnswerOrphan, SendRequest, wireVars
<1>6. ASSUME HaltServer \/ RestartServer \/ UNCHANGED vars
      PROVE  UNCHANGED identity
    BY <1>6 DEF HaltServer, Halt, GoDown, BreakConnections, RestartServer, Restart, vars, wireVars
<1>7. ASSUME RunServer PROVE UNCHANGED identity
    BY <1>7, ServerLeavesIds DEF RunServer
<1> QED
    BY <1>2, <1>3, <1>4, <1>5, <1>6, <1>7 DEF Next, StartClient, QuitClient, OrphanCrash, EndClient

LEMMA IdentityStep ==
    ASSUME IdentityInv, [Next]_vars
    PROVE  IdentityInv'
<1>1. TypeInv /\ KnownByIdentity /\ IdsChanged /\ SessionInv' /\ ConnectionInv'
    BY SessionStep, IdsAfterStep, ConnectionStep DEF IdentityInv, SessionInv
<1>2. KnownByIdentity'
    BY <1>1 DEF IdsChanged, KnownByIdentity, Running
<1>3. ASSUME NEW q \in Clients, NEW u, HasOpened(granted, q, u)
      PROVE  HasOpened(granted', q, u)
    BY <1>3, GrantedGrows DEF HasOpened
<1>4. ASSUME NEW q \in Clients, identity'[q] \in Logins
      PROVE  HasOpened(granted', q, identity'[q])
    <2>1. CASE identity'[q] = identity[q]
        BY <1>3, <1>4, <2>1 DEF IdentityInv, IdentityIsEarned, HasOpened
    <2>2. CASE Receives(q, "NewClientName") /\ identity'[q] = Received(q).login
        <3>1. replies[q] # <<>> /\ replies[q] \in Seq(Replies) /\ Received(q).kind = "NewClientName"
            BY <1>1, <2>2 DEF Receives, Received, TypeInv, TypeOK, WireTypeOK
        <3>2. 1 \in DOMAIN replies[q] /\ Received(q) = replies[q][1]
            BY <3>1, HeadTailProperties, LenProperties, EmptySeq DEF Received
        <3>3. HasOpened(granted, q, Received(q).login)
            BY <3>1, <3>2 DEF IdentityInv, IdentityIsEarned, HasOpened
        <3> QED
            BY <1>3, <2>2, <3>3
    <2> QED
        BY <1>1, <1>4, <2>1, <2>2, IdentityAfterStep, IdsAssumption
<1>5. ASSUME NEW q \in Clients, NEW k \in DOMAIN replies'[q],
             replies'[q][k].kind = "NewClientName"
      PROVE  HasOpened(granted', q, replies'[q][k].login)
    <2>1. CASE Was(replies'[q][k], q)
        BY <1>3, <1>5, <2>1 DEF Was, IdentityInv, IdentityIsEarned, HasOpened
    <2>2. CASE JustSent(replies'[q][k], q)
        <3>1. PICK p \in Clients : /\ Reads(p) /\ peer[q] = Current(p).from
                                   /\ \E s \in sessions' :
                                        s.user = replies'[q][k].login /\ s.device = p
            BY <1>5, <2>2 DEF JustSent, TellingKinds
        <3>2. q = p
            BY <1>1, <3>1, AnswersComeBack DEF IdentityInv
        <3> QED
            BY <1>1, <3>1, <3>2 DEF SessionInv, HasOpened
    <2> QED
        BY <1>1, <1>5, <2>1, <2>2, MessageFlow
<1>6. IdentityIsEarned'
    BY <1>4, <1>5 DEF IdentityIsEarned, HasOpened
<1> QED
    BY <1>1, <1>2, <1>6 DEF IdentityInv

\* A client goes by a login, or is told to, only on a device where a session of that
\* login was opened: the answer to a login reaches the client that asked, even when
\* its connection has closed and another client would like its id.
THEOREM LoginsAreEarned == Spec => []IdentityIsEarned
<1>1. Init => IdentityInv
    <2> SUFFICES ASSUME Init PROVE IdentityInv
        OBVIOUS
    <2>1. SessionInv
        <3>1. \A g \in granted : g.id <= issued
            BY SystemAssumption DEF Init, ServerInit
        <3> QED
            BY <3>1, InitTyped DEF Init, SessionInv
    <2>2. KnownByIdentity /\ ConnectionInv
        BY SystemAssumption DEF Init, WireInit, KnownByIdentity, ConnectionInv, PeersDiffer,
            SentIsOld, SentFirst
    <2>3. ASSUME NEW p \in Clients, identity[p] \in Logins PROVE HasOpened(granted, p, identity[p])
        <3>1. identity[p] = LoggedIn[p] /\ LoggedIn[p] # NoId
            BY <2>3, IdsAssumption DEF Init, WireInit
        <3> DEFINE g == [user |-> LoggedIn[p], device |-> p, id |-> Session[p]]
        <3>2. g \in granted /\ g.user = LoggedIn[p] /\ g.device = p
            BY <3>1 DEF Init, ServerInit
        <3> HIDE DEF g
        <3> QED
            BY <3>1, <3>2 DEF HasOpened
    <2>4. IdentityIsEarned
        BY <2>3 DEF Init, WireInit, IdentityIsEarned, HasOpened
    <2> QED
        BY <2>1, <2>2, <2>4 DEF IdentityInv
<1>2. IdentityInv /\ [Next]_vars => IdentityInv'
    BY IdentityStep
<1>3. IdentityInv => IdentityIsEarned
    BY DEF IdentityInv
<1> QED
    BY <1>1, <1>2, <1>3, PTL DEF Spec

-----------------------------------------------------------------------------
(***************************************************************************)
(* Pages.  The main page is opened together with a name that has a         *)
(* session, and a session is closed together with a refusal.               *)
(***************************************************************************)
Opens(m) == m.kind = "AlreadyAuthorized" \/ (m.kind = "Authorize" /\ m.session # 0)

Names(m) == m.kind = "NewClientName"

\* After its kth message, p is told to leave the main page.
Expelled(p, k) == \E j \in DOMAIN replies[p] : j > k /\ replies[p][j].kind = "NotAuthorized"

NamesFollow ==
    \A p \in Clients : \A k \in DOMAIN replies[p] :
        Opens(replies[p][k]) => k + 1 \in DOMAIN replies[p] /\ Names(replies[p][k + 1])

\* No request of a user under way can close the session of the name p is told, unless
\* p has it already.
NamesAreOpen ==
    \A p \in Clients : \A k \in DOMAIN replies[p] : Names(replies[p][k]) =>
        LET u == replies[p][k].login
        IN  /\ UserDeviceSession(u, p) \/ (u = identity[p] /\ Expelled(p, k))
            /\ \A i \in DOMAIN requests[p] : requests[p][i].from = u => u = identity[p]

SentByOthers ==
    \A p \in Clients : \A i \in DOMAIN requests[p] :
        requests[p][i].sent => requests[p][i].from # identity[p]

MainIsOpen ==
    \A p \in Clients : page[p] = "main" =>
        /\ Running(p)
        /\ \/ 1 \in DOMAIN replies[p] /\ Names(replies[p][1])
           \/ UserDeviceSession(identity[p], p)
           \/ Expelled(p, 0)

PageInv ==
    /\ TypeInv /\ KnownByIdentity /\ ConnectionInv /\ DownIsHalted
    /\ Undisturbed => NamesFollow /\ NamesAreOpen /\ SentByOthers /\ MainIsOpen

\* A request that is transmitted after a step was so before, or the client has just
\* taken another name.
LEMMA SentStays ==
    ASSUME TypeInv, ConnectionInv, [Next]_vars, NEW q \in Clients,
           NEW k \in DOMAIN requests'[q], requests'[q][k].sent
    PROVE  \E j \in DOMAIN requests[q] :
               /\ requests'[q][k].from = requests[q][j].from
               /\ requests[q][j].sent \/ identity'[q] # identity[q]
<1> DEFINE Found == \E j \in DOMAIN requests[q] :
                        /\ requests'[q][k].from = requests[q][j].from
                        /\ requests[q][j].sent \/ identity'[q] # identity[q]
<1>1. WireTypeOK /\ requests[q] \in Seq(Requests)
    BY DEF TypeInv, TypeOK, WireTypeOK
<1>2. CASE requests'[q] = requests[q]
    BY <1>2
<1>3. ASSUME NEW r, requests'[q] = Append(requests[q], r), ~r.sent
      PROVE  Found
    <2>1. requests[q] \in Seq(Requests \cup {r})
        BY <1>1, ElementOfSeq, SeqDef
    <2>2. k \in 1 .. Len(requests[q]) + 1 /\ Len(requests[q]) \in Nat
          /\ DOMAIN requests[q] = 1 .. Len(requests[q])
        BY <1>3, <2>1, AppendProperties, LenProperties
    <2>3. CASE k = Len(requests[q]) + 1
        BY <1>3, <2>1, <2>3, AppendProperties
    <2>4. CASE k \in DOMAIN requests[q]
        BY <1>3, <2>1, <2>2, <2>4, AppendProperties
    <2> QED
        BY <2>2, <2>3, <2>4
<1>4. ASSUME NEW p \in Clients, NEW s \in Nat, NEW b \in RequestBodies, Post(p, s, b)
      PROVE  Found
    <2>1. CASE p # q
        BY <1>1, <1>2, <1>4, <2>1 DEF Post, WireTypeOK
    <2>2. CASE p = q
        <3> DEFINE r == [from |-> identity[p], session |-> s, sent |-> FALSE, body |-> b]
        <3>1. requests'[q] = Append(requests[q], r) /\ ~r.sent
            BY <1>1, <1>4, <2>2 DEF Post, WireTypeOK
        <3> HIDE DEF r
        <3> QED
            BY <1>3, <3>1
    <2> QED
        BY <2>1, <2>2
<1>5. ASSUME NEW p \in Clients, NEW self \in Logins, Start(p, self)
      PROVE  Found
    <2>1. PICK t \in FreshTempIds :
            requests' = [requests EXCEPT ![p] = Append(@,
             [from |-> t, session |-> config[p].session, sent |-> FALSE,
              body |-> [kind  |-> "Connect",
                        login |-> IF config[p].identity = NoId THEN self
                                                               ELSE config[p].identity]])]
        BY <1>5 DEF Start
    <2>2. CASE p # q
        BY <1>1, <1>2, <2>1, <2>2 DEF WireTypeOK
    <2>3. CASE p = q
        <3> DEFINE b == [kind  |-> "Connect",
                         login |-> IF config[p].identity = NoId THEN self ELSE config[p].identity]
                   r == [from |-> t, session |-> config[p].session, sent |-> FALSE, body |-> b]
        <3>1. requests'[q] = Append(requests[q], r)
            BY <1>1, <2>1, <2>3 DEF WireTypeOK
        <3>2. ~r.sent
            OBVIOUS
        <3> HIDE DEF r
        <3> QED
            BY <1>3, <3>1, <3>2
    <2> QED
        BY <2>2, <2>3
<1>6. ASSUME NEW p \in Clients, NEW id, id # identity[p], Reconnect(p, id)
      PROVE  Found
    <2>1. PICK left \in Transmitted(p) : requests' = [requests EXCEPT ![p] = left]
        BY <1>6 DEF Reconnect
    <2>2. CASE p # q
        BY <1>1, <1>2, <2>1, <2>2 DEF WireTypeOK
    <2>3. CASE p = q
        <3>1. requests'[q] = left /\ identity'[q] # identity[q]
            BY <1>1, <1>6, <2>1, <2>3 DEF Reconnect, WireTypeOK
        <3>2. k \in DOMAIN requests[p] /\ left[k].from = requests[p][k].from
            BY <1>1, <2>1, <3>1, TransmittedAreSent DEF ConnectionInv
        <3> QED
            BY <2>3, <3>1, <3>2
    <2> QED
        BY <2>2, <2>3
<1>7. ASSUME NEW p \in Clients, Reads(p), Take(p)
      PROVE  Found
    <2>1. CASE p # q
        BY <1>1, <1>2, <1>7, <2>1 DEF Take, Taken, WireTypeOK
    <2>2. CASE p = q
        <3>1. requests[q] # <<>> /\ requests'[q] = Tail(requests[q])
            BY <1>1, <1>7, <2>2 DEF Take, Taken, Reads, Readable, WireTypeOK
        <3>2. k + 1 \in DOMAIN requests[q] /\ requests'[q][k] = requests[q][k + 1]
            BY <1>1, <3>1, TailElements
        <3> QED
            BY <3>2
    <2> QED
        BY <2>1, <2>2
<1>8. ASSUME NEW unread \in [Clients -> Seq(Requests)], BreakConnections(unread) PROVE FALSE
    <2> DEFINE r == unread[q]
    <2>1. r \in Seq(Requests) /\ Len(r) \in Nat /\ DOMAIN r = 1 .. Len(r)
        BY LenProperties
    <2>2. PICK n \in 1 .. Len(r) + 1 :
            requests'[q] = SubSeq(r, n, Len(r)) /\ \A i \in n .. Len(r) : ~r[i].sent
        BY <1>8 DEF BreakConnections, Resendable
    <2>3. k \in 1 .. Len(r) - n + 1 /\ requests'[q][k] = r[n + k - 1]
        BY <2>1, <2>2, SuffixElements
    <2>4. n + k - 1 \in n .. Len(r)
        BY <2>1, <2>3
    <2> HIDE DEF r
    <2> QED
        BY <2>2, <2>3, <2>4
<1>9. requests \in [Clients -> Seq(Requests)]
      /\ \A p \in Clients : Reads(p) => Taken(p) \in [Clients -> Seq(Requests)]
    BY <1>1, HeadTailProperties DEF Taken, Reads, Readable, WireTypeOK
<1>10. CASE UNCHANGED requests \/ \E p \in Clients : Accept(p)
    BY <1>2, <1>10 DEF Accept
<1> QED
    BY <1>4, <1>5, <1>6, <1>7, <1>8, <1>9, <1>10, ConnectionsAfterStep

LEMMA SessionsLeft ==
    ASSUME [Next]_vars, NEW q \in Clients, NEW u, UserDeviceSession(u, q)
    PROVE  UserDeviceSession(u, q)' \/ (HandleLogout(q) /\ Current(q).from = u)
<1>1. ASSUME sessions \subseteq sessions' PROVE UserDeviceSession(u, q)'
    BY <1>1 DEF UserDeviceSession
<1>2. ASSUME NEW p \in Clients,
             \/ RefuseWithoutSession(p) \/ HandleConnection(p) \/ HandleRegister(p)
             \/ PrepareNewChatSession(p) \/ HandleResponseForInvite(p) \/ AcceptFails(p)
             \/ HandleClientChatsInfoRequest(p) \/ HandleClientNotifications(p)
             \/ RefuseMessage(p) \/ HandleSendMessage(p)
      PROVE  UserDeviceSession(u, q)'
    <2>1. UNCHANGED sessions
        BY <1>2 DEF RefuseWithoutSession, HandleConnection, HandleRegister,
            PrepareNewChatSession, HandleResponseForInvite, AcceptFails,
            HandleClientChatsInfoRequest, HandleClientNotifications, RefuseMessage,
            HandleSendMessage, serverVars, tableVars, accountVars
    <2> QED
        BY <1>1, <2>1
<1>3. ASSUME NEW p \in Clients, HandleAuthorize(p) PROVE UserDeviceSession(u, q)'
    <2>1. sessions \subseteq sessions'
        BY <1>3 DEF HandleAuthorize
    <2> QED
        BY <1>1, <2>1
<1>4. ASSUME NEW p \in Clients, HandleLogout(p)
      PROVE  UserDeviceSession(u, q)' \/ (HandleLogout(q) /\ Current(q).from = u)
    <2>1. sessions' = sessions \ {[user |-> Current(p).from, device |-> p, id |-> Current(p).session]}
        BY <1>4 DEF HandleLogout
    <2>2. PICK s \in sessions : s.user = u /\ s.device = q
        BY DEF UserDeviceSession
    <2>3. CASE s \in sessions'
        BY <2>2, <2>3 DEF UserDeviceSession
    <2>4. CASE s \notin sessions'
        <3>1. p = q /\ Current(p).from = u
            BY <2>1, <2>2, <2>4
        <3> QED
            BY <1>4, <3>1
    <2> QED
        BY <2>3, <2>4
<1>5. ASSUME \/ FinishNewChat \/ FinishNewChatFails \/ SetNotificationChecked \/ DispatchMessage
             \/ \E a \in Logins : AskClient(a)
      PROVE  UserDeviceSession(u, q)'
    <2>1. UNCHANGED sessions
        BY <1>5 DEF FinishNewChat, FinishNewChatFails, SetNotificationChecked, DispatchMessage,
            AskClient, tableVars, accountVars
    <2> QED
        BY <1>1, <2>1
<1>6. CASE RunServer
    BY <1>2, <1>3, <1>4, <1>5, <1>6 DEF RunServer, ServerStep
<1>7. CASE ~RunServer
    <2>1. UNCHANGED sessions
        BY <1>7, SessionsOfOthers
    <2> QED
        BY <1>1, <2>1
<1> QED
    BY <1>6, <1>7

\* The messages behind the one received move up.
LEMMA RestMovesUp ==
    ASSUME WireTypeOK, NEW q \in Clients, replies[q] # <<>>, replies'[q] = Tail(replies[q]),
           NEW j \in DOMAIN replies[q], 1 < j
    PROVE  j - 1 \in DOMAIN replies'[q] /\ replies'[q][j - 1] = replies[q][j]
<1>1. replies[q] \in Seq(Replies)
    BY DEF WireTypeOK
<1>2. /\ Len(Tail(replies[q])) = Len(replies[q]) - 1 /\ Tail(replies[q]) \in Seq(Replies)
      /\ \A i \in 1 .. Len(replies[q]) - 1 : Tail(replies[q])[i] = replies[q][i + 1]
      /\ Len(replies[q]) \in Nat /\ j \in 1 .. Len(replies[q])
    BY <1>1, HeadTailProperties, LenProperties
<1>3. j - 1 \in 1 .. Len(replies[q]) - 1 /\ (j - 1) + 1 = j
    BY <1>2
<1> QED
    BY <1>2, <1>3, LenProperties

LEMMA ExpelledStays ==
    ASSUME WireTypeOK, NEW q \in Clients, NEW k \in Nat
    PROVE  /\ QueueStays(q) /\ Expelled(q, k) => Expelled(q, k)'
           /\ Receipt(q) /\ Expelled(q, k + 1) => Expelled(q, k)'
<1>1. ASSUME QueueStays(q), Expelled(q, k) PROVE Expelled(q, k)'
    BY <1>1 DEF QueueStays, Expelled
<1>2. ASSUME Receipt(q), Expelled(q, k + 1) PROVE Expelled(q, k)'
    <2>1. PICK j \in DOMAIN replies[q] : j > k + 1 /\ replies[q][j].kind = "NotAuthorized"
        BY <1>2 DEF Expelled
    <2>2. j \in Nat /\ 1 < j
        <3>1. j \in Nat
            BY LenProperties DEF WireTypeOK
        <3> QED
            BY <2>1, <3>1
    <2>3. j - 1 \in DOMAIN replies'[q] /\ replies'[q][j - 1] = replies[q][j]
        BY <1>2, <2>1, <2>2, RestMovesUp DEF Receipt
    <2>4. j - 1 > k
        BY <2>1, <2>2
    <2> QED
        BY <2>1, <2>3, <2>4 DEF Expelled
<1> QED
    BY <1>1, <1>2

\* Where the messages under way to q after a calm step come from.
LEMMA CalmReplies ==
    ASSUME TypeInv, KnownByIdentity, Calm, [Next]_vars, NEW q \in Clients,
           NEW k \in DOMAIN replies'[q]
    PROVE  /\ identity'[q] = identity[q]
           /\ k \in Nat
           /\ \/ QueueStays(q) /\ k \in DOMAIN replies[q] /\ replies'[q][k] = replies[q][k]
              \/ QueueStays(q) /\ k \notin DOMAIN replies[q] /\ JustSent(replies'[q][k], q)
              \/ Receipt(q) /\ k + 1 \in DOMAIN replies[q] /\ replies'[q][k] = replies[q][k + 1]
<1>1. WireTypeOK /\ IdsChanged
    BY IdsAfterStep DEF TypeInv, TypeOK
<1>2. replies'[q] # <<>>
    OBVIOUS
<1>3. identity'[q] = identity[q] /\ ~Renamed(q)
    BY <1>1, <1>2 DEF IdsChanged, Renamed
<1>4. QueueStays(q) \/ Receipt(q)
    BY <1>3, CalmQueue
<1>5. /\ DOMAIN replies[q] = 1 .. Len(replies[q]) /\ Len(replies[q]) \in Nat
      /\ DOMAIN replies'[q] = 1 .. Len(replies'[q]) /\ Len(replies'[q]) \in Nat
    BY <1>1, StepTyped, LenProperties DEF TypeInv, TypeOK, WireTypeOK
<1>6. CASE Receipt(q)
    BY <1>1, <1>3, <1>6, QueueMovesUp DEF Receipt
<1>7. CASE QueueStays(q) /\ k \in DOMAIN replies[q]
    BY <1>3, <1>5, <1>7 DEF QueueStays
<1>8. CASE QueueStays(q) /\ k \notin DOMAIN replies[q]
    <2>1. PICK d \in {0, 1} :
            \/ Shifted(q, k, d)
            \/ d = 0 /\ k > Len(replies[q]) /\ JustSent(replies'[q][k], q)
        BY MessageOrder DEF MessagesInOrder
    <2>2. ~Shifted(q, k, d)
        BY <1>5, <1>8, <2>1 DEF Shifted
    <2> QED
        BY <1>3, <1>5, <1>8, <2>1, <2>2
<1> QED
    BY <1>4, <1>6, <1>7, <1>8

\* A session that is closed under the name of its client is closed with a refusal.
LEMMA LogoutTold ==
    ASSUME TypeInv, ConnectionInv, SentByOthers, NEW q \in Clients,
           HandleLogout(q), Current(q).from = identity[q],
           NEW k \in DOMAIN replies[q] \cup {0}
    PROVE  Expelled(q, k)'
<1>1. WireTypeOK /\ replies[q] \in Seq(Replies) /\ Reads(q)
    BY DEF TypeInv, TypeOK, WireTypeOK, HandleLogout, Serves
<1>2. peer[q] = identity[q]
    <2>1. ~Head(requests[q]).sent
        BY <1>1, CurrentIsFirst DEF SentByOthers, Current
    <2> QED
        BY <1>1, <2>1 DEF Reads, Readable, Admitted
<1>3. replies'[q] = replies[q] \o <<NotAuthorized>>
    BY <1>2 DEF HandleLogout, Reply, Dispatch
<1> DEFINE n == Len(replies[q])
<1>4. NotAuthorized \in Replies
    BY DEF NotAuthorized, Replies
<1>5. /\ n \in Nat /\ DOMAIN replies[q] = 1 .. n
      /\ <<NotAuthorized>> \in Seq(Replies) /\ Len(<<NotAuthorized>>) = 1
      /\ <<NotAuthorized>>[1] = NotAuthorized
    BY <1>1, <1>4, LenProperties
<1>6. n + 1 \in DOMAIN replies'[q] /\ replies'[q][n + 1] = NotAuthorized
    <2>1. /\ replies'[q] \in Seq(Replies) /\ Len(replies'[q]) = Len(replies[q]) + Len(<<NotAuthorized>>)
          /\ \A i \in 1 .. Len(replies[q]) + Len(<<NotAuthorized>>) :
               replies'[q][i] = IF i <= Len(replies[q]) THEN replies[q][i]
                                ELSE <<NotAuthorized>>[i - Len(replies[q])]
        BY <1>1, <1>3, <1>5, ConcatProperties
    <2> QED
        BY <1>5, <2>1, LenProperties
<1>7. n + 1 > k
    BY <1>5
<1> QED
    BY <1>6, <1>7 DEF Expelled, NotAuthorized

\* What the server sends comes behind what is under way, in its order.
LEMMA DispatchedAt ==
    ASSUME WireTypeOK, NEW ids, NEW S, NEW ms \in Seq(S), Dispatch(ids, ms), NEW q \in Clients,
           NEW k \in DOMAIN replies'[q], k \notin DOMAIN replies[q]
    PROVE  \E n \in Nat, j \in DOMAIN ms :
               /\ k = n + j /\ j \in Nat
               /\ \A i \in DOMAIN ms : n + i \in DOMAIN replies'[q] /\ replies'[q][n + i] = ms[i]
<1> DEFINE T == Replies \cup S
           n == Len(replies[q])
<1>1. replies'[q] = replies[q] \o ms
    BY DEF Dispatch
<1>2. replies[q] \in Seq(T) /\ ms \in Seq(T)
    <2>1. replies[q] \in Seq(Replies)
        BY DEF WireTypeOK
    <2> QED
        BY <2>1, ElementOfSeq, SeqDef
<1> HIDE DEF T
<1>3. /\ n \in Nat /\ DOMAIN replies[q] = 1 .. n
      /\ Len(ms) \in Nat /\ DOMAIN ms = 1 .. Len(ms)
    BY <1>2, LenProperties
<1>4. /\ replies[q] \o ms \in Seq(T)
      /\ Len(replies[q] \o ms) = n + Len(ms)
      /\ \A i \in 1 .. n + Len(ms) :
           (replies[q] \o ms)[i] = IF i <= n THEN replies[q][i] ELSE ms[i - n]
    BY <1>2, ConcatProperties
<1>5. DOMAIN replies'[q] = 1 .. n + Len(ms)
    BY <1>1, <1>4, LenProperties
<1> HIDE DEF n
<1>6. k - n \in DOMAIN ms /\ k = n + (k - n) /\ k - n \in Nat
    BY <1>3, <1>5
<1>7. ASSUME NEW i \in DOMAIN ms
      PROVE  n + i \in DOMAIN replies'[q] /\ replies'[q][n + i] = ms[i]
    <2>1. n + i \in 1 .. n + Len(ms) /\ ~(n + i <= n) /\ (n + i) - n = i
        BY <1>3
    <2> QED
        BY <1>1, <1>4, <1>5, <2>1
<1> QED
    BY <1>3, <1>6, <1>7

\* Whatever opens the main page is sent together with a name.
LEMMA SentWithName ==
    ASSUME TypeInv, Calm, [Next]_vars, NEW q \in Clients,
           NEW k \in DOMAIN replies'[q], k \notin DOMAIN replies[q], Opens(replies'[q][k])
    PROVE  k + 1 \in DOMAIN replies'[q] /\ Names(replies'[q][k + 1])
<1> DEFINE Named == k + 1 \in DOMAIN replies'[q] /\ Names(replies'[q][k + 1])
<1>1. WireTypeOK
    BY DEF TypeInv, TypeOK
<1>2. ASSUME UNCHANGED replies PROVE Named
    BY <1>2
<1>3. ASSUME NEW ids, NEW m, Dispatch(ids, <<m>>), ~Opens(m) PROVE Named
    <2> DEFINE ms == <<m>>
    <2>1. ms \in Seq({m}) /\ DOMAIN ms = {1} /\ ms[1] = m /\ Dispatch(ids, ms)
        BY <1>3
    <2> HIDE DEF ms
    <2>2. PICK n \in Nat, j \in DOMAIN ms :
            k = n + j /\ \A i \in DOMAIN ms : replies'[q][n + i] = ms[i]
        BY <1>1, <2>1, DispatchedAt
    <2>3. replies'[q][k] = m
        BY <2>1, <2>2
    <2> QED
        BY <1>3, <2>3
<1>4. ASSUME NEW ids, NEW m, NEW a, Dispatch(ids, <<m, a>>), Names(a) PROVE Named
    <2> DEFINE ms == <<m, a>>
    <2>1. ms \in Seq({m, a}) /\ DOMAIN ms = {1, 2} /\ ms[2] = a /\ Dispatch(ids, ms)
        BY <1>4
    <2> HIDE DEF ms
    <2>2. PICK n \in Nat, j \in DOMAIN ms :
            /\ k = n + j
            /\ \A i \in DOMAIN ms : n + i \in DOMAIN replies'[q] /\ replies'[q][n + i] = ms[i]
        BY <1>1, <2>1, DispatchedAt
    <2>3. n + 2 \in DOMAIN replies'[q] /\ replies'[q][n + 2] = a
        BY <2>1, <2>2
    <2>4. ~Opens(a)
        BY <1>4 DEF Opens, Names
    <2>5. j = 1
        BY <2>1, <2>2, <2>3, <2>4
    <2>6. k + 1 = n + 2
        BY <2>2, <2>5
    <2> QED
        BY <1>4, <2>3, <2>6
<1> HIDE DEF Named
<1>5. ASSUME NoNewReplies PROVE Named
    <2>1. PICK d \in {0, 1} : Shifted(q, k, d)
        BY <1>5 DEF NoNewReplies
    <2>2. DOMAIN replies[q] = 1 .. Len(replies[q]) /\ Len(replies[q]) \in Nat
          /\ DOMAIN replies'[q] = 1 .. Len(replies'[q]) /\ Len(replies'[q]) \in Nat
        BY <1>1, StepTyped, LenProperties DEF TypeInv, TypeOK, WireTypeOK
    <2>3. k \in DOMAIN replies[q]
        BY <2>1, <2>2 DEF Shifted
    <2> QED
        BY <2>3
<1>6. ASSUME NEW p \in Clients,
             PrepareNewChatSession(p) \/ RefuseMessage(p) \/ HandleSendMessage(p)
      PROVE  Named
    BY <1>2, <1>6 DEF PrepareNewChatSession, RefuseMessage, HandleSendMessage
<1>7. ASSUME NEW p \in Clients,
             \/ RefuseWithoutSession(p) \/ HandleRegister(p) \/ HandleLogout(p)
             \/ HandleClientChatsInfoRequest(p) \/ HandleClientNotifications(p)
      PROVE  Named
    BY <1>3, <1>7 DEF RefuseWithoutSession, HandleRegister, HandleLogout,
        HandleClientChatsInfoRequest, HandleClientNotifications, Reply, NotAuthorized, Opens
<1>8. ASSUME NEW p \in Clients, HandleConnection(p) PROVE Named
    BY <1>3, <1>4, <1>8 DEF HandleConnection, Reply, NotAuthorized, Opens, Names
<1>9. ASSUME NEW p \in Clients, HandleAuthorize(p) PROVE Named
    <2>1. CASE Current(p).body.valid /\ Current(p).body.login \in users
        BY <1>4, <1>9, <2>1 DEF HandleAuthorize, Reply, Names
    <2>2. CASE ~(Current(p).body.valid /\ Current(p).body.login \in users)
        BY <1>3, <1>9, <2>2 DEF HandleAuthorize, Reply, Opens
    <2> QED
        BY <2>1, <2>2
<1>10. ASSUME NEW p \in Clients, HandleResponseForInvite(p) PROVE Named
    BY <1>2, <1>3, <1>10 DEF HandleResponseForInvite, Reply, Opens
<1>11. ASSUME NEW u \in Logins, AskClient(u) PROVE Named
    BY <1>2, <1>3, <1>11 DEF AskClient, Opens
<1>12. CASE FinishNewChat \/ DispatchMessage
    BY <1>3, <1>12 DEF FinishNewChat, DispatchMessage, Opens, Named
<1>13. CASE SetNotificationChecked
    BY <1>2, <1>13 DEF SetNotificationChecked, wireVars, Named
<1>14. CASE RunServer
    BY <1>6, <1>7, <1>8, <1>9, <1>10, <1>11, <1>12, <1>13, <1>14
    DEF RunServer, ServerStep, Calm, Named
<1>15. ASSUME NEW p \in Clients,
              \/ StartClient(p) \/ AcceptConnection(p) \/ UseAccount(p) \/ UsePane(p) \/ UseBox(p)
       PROVE  Named
    BY <1>2, <1>15 DEF StartClient, Start, AcceptConnection, Accept, UseAccount, SwitchPage,
        RequestRegister, RequestAuthorize, RequestLogout, RequestChangeIdentity, UsePane,
        RequestToCreateChat, PopUp, SelectChat, SendText, SendLine, UseBox,
        FetchAllNotifications, OnClick, AnswerInvite, Answer, AnswerOrphan, SendRequest, wireVars
<1>16. ASSUME NEW p \in Clients, Receive(p) PROVE Named
    BY <1>1, <1>5, <1>16, ReceiveFlow
<1>17. CASE UNCHANGED vars
    BY <1>2, <1>17 DEF vars, wireVars, Named
<1> QED
    BY <1>14, <1>15, <1>16, <1>17 DEF Next, Calm, Named

LEMMA NamesFollowStep ==
    ASSUME TypeInv, KnownByIdentity, Calm, NamesFollow, [Next]_vars
    PROVE  NamesFollow'
<1>1. WireTypeOK
    BY DEF TypeInv, TypeOK
<1> SUFFICES ASSUME NEW q \in Clients, NEW k \in DOMAIN replies'[q], Opens(replies'[q][k])
             PROVE  k + 1 \in DOMAIN replies'[q] /\ Names(replies'[q][k + 1])
    BY DEF NamesFollow, Opens, Names
<1>2. k \in Nat
    BY CalmReplies
<1>3. CASE QueueStays(q) /\ k \in DOMAIN replies[q] /\ replies'[q][k] = replies[q][k]
    <2>1. k + 1 \in DOMAIN replies[q] /\ Names(replies[q][k + 1])
        BY <1>3 DEF NamesFollow
    <2> QED
        BY <1>3, <2>1 DEF QueueStays
<1>4. CASE k \notin DOMAIN replies[q]
    BY <1>4, SentWithName
<1>5. CASE Receipt(q) /\ k + 1 \in DOMAIN replies[q] /\ replies'[q][k] = replies[q][k + 1]
    <2>1. (k + 1) + 1 \in DOMAIN replies[q] /\ Names(replies[q][(k + 1) + 1])
        BY <1>5 DEF NamesFollow
    <2>2. 1 < (k + 1) + 1 /\ ((k + 1) + 1) - 1 = k + 1
        BY <1>2
    <2>3. k + 1 \in DOMAIN replies'[q] /\ replies'[q][k + 1] = replies[q][(k + 1) + 1]
        BY <1>1, <1>5, <2>1, <2>2, RestMovesUp DEF Receipt
    <2> QED
        BY <2>1, <2>3
<1> QED
    BY <1>3, <1>4, <1>5, CalmReplies

\* What q is told first, when it takes another name.
LEMMA RenamedTo ==
    ASSUME TypeInv, NamesAreOpen, NEW q \in Clients, Renamed(q)
    PROVE  /\ identity'[q] \in Logins
           /\ UserDeviceSession(identity'[q], q)
           /\ \A i \in DOMAIN requests[q] : requests[q][i].from # identity'[q]
<1>1. WireTypeOK
    BY DEF TypeInv, TypeOK
<1>2. /\ 1 \in DOMAIN replies[q] /\ Received(q) = replies[q][1] /\ Names(Received(q))
      /\ Received(q).login # identity[q] /\ identity'[q] = Received(q).login
    BY <1>1, ReceivedIsFirst DEF Renamed, Names
<1>3. Received(q).login \in Logins
    <2>1. replies[q][1] \in Replies
        BY <1>1, <1>2, ElementOfSeq, LenProperties DEF WireTypeOK
    <2> QED
        BY <1>2, <2>1, ReplyFields DEF Names
<1> QED
    BY <1>2, <1>3 DEF NamesAreOpen

LEMMA SentByOthersStep ==
    ASSUME TypeInv, KnownByIdentity, ConnectionInv, Calm, NamesAreOpen, SentByOthers, [Next]_vars
    PROVE  SentByOthers'
<1>1. WireTypeOK
    BY DEF TypeInv, TypeOK
<1> SUFFICES ASSUME NEW q \in Clients, NEW k \in DOMAIN requests'[q], requests'[q][k].sent
             PROVE  requests'[q][k].from # identity'[q]
    BY DEF SentByOthers
<1>2. PICK j \in DOMAIN requests[q] :
        /\ requests'[q][k].from = requests[q][j].from
        /\ requests[q][j].sent \/ identity'[q] # identity[q]
    BY SentStays
<1>3. CASE Renamed(q)
    BY <1>2, <1>3, RenamedTo
<1>4. CASE identity'[q] = identity[q]
    BY <1>2, <1>4 DEF SentByOthers
<1>5. CASE identity'[q] \in FreshTempIds
    BY <1>2, <1>5 DEF FreshTempIds
<1> QED
    BY <1>3, <1>4, <1>5, CalmQueue

LEMMA NamesAreOpenStep ==
    ASSUME TypeInv, KnownByIdentity, ConnectionInv, Calm, NamesAreOpen, SentByOthers, [Next]_vars
    PROVE  NamesAreOpen'
<1>1. WireTypeOK /\ ConnectionInv'
    BY ConnectionStep DEF TypeInv, TypeOK
<1> SUFFICES ASSUME NEW q \in Clients, NEW k \in DOMAIN replies'[q],
                    NEW m, m = replies'[q][k], Names(m), NEW u, u = m.login
             PROVE  /\ UserDeviceSession(u, q)' \/ (u = identity'[q] /\ Expelled(q, k)')
                    /\ \A i \in DOMAIN requests'[q] :
                         requests'[q][i].from = u => u = identity'[q]
    BY DEF NamesAreOpen, Names, UserDeviceSession, Expelled
<1>2. identity'[q] = identity[q] /\ k \in Nat
    BY CalmReplies
<1>3. ASSUME NEW i \in DOMAIN requests'[q]
      PROVE  \/ requests'[q][i].from = identity[q]
             \/ \E j \in DOMAIN requests[q] :
                  requests[q][j].sent /\ requests'[q][i].from = requests[q][j].from
    <2>1. CASE requests'[q][i].sent
        BY <1>2, <2>1, SentStays
    <2>2. CASE ~requests'[q][i].sent
        BY <1>1, <1>2, <2>2 DEF ConnectionInv, SentIsOld
    <2> QED
        BY <2>1, <2>2
<1>4. ASSUME NEW j \in DOMAIN replies[q], replies[q][j] = m
      PROVE  /\ UserDeviceSession(u, q) \/ (u = identity[q] /\ Expelled(q, j))
             /\ \A i \in DOMAIN requests[q] : requests[q][i].from = u => u = identity[q]
    BY <1>4 DEF NamesAreOpen
<1>5. ASSUME NEW j \in DOMAIN replies[q], replies[q][j] = m
      PROVE  \A i \in DOMAIN requests'[q] : requests'[q][i].from = u => u = identity'[q]
    BY <1>2, <1>3, <1>4, <1>5
<1>6. CASE QueueStays(q) /\ k \in DOMAIN replies[q] /\ replies'[q][k] = replies[q][k]
    <2>1. CASE Expelled(q, k) /\ u = identity[q]
        BY <1>1, <1>2, <1>5, <1>6, <2>1, ExpelledStays
    <2>2. CASE UserDeviceSession(u, q)'
        BY <1>5, <1>6, <2>2
    <2>3. CASE HandleLogout(q) /\ Current(q).from = u
        <3>1. 1 \in DOMAIN requests[q] /\ Current(q) = requests[q][1]
            BY <1>1, <2>3, CurrentIsFirst DEF HandleLogout, Serves
        <3>2. u = identity[q]
            BY <1>4, <1>6, <2>3, <3>1
        <3>3. Expelled(q, k)'
            BY <1>6, <2>3, <3>2, LogoutTold
        <3> QED
            BY <1>2, <1>5, <1>6, <3>2, <3>3
    <2> QED
        BY <1>4, <1>6, <2>1, <2>2, <2>3, SessionsLeft
<1>7. CASE Receipt(q) /\ k + 1 \in DOMAIN replies[q] /\ replies'[q][k] = replies[q][k + 1]
    <2>1. CASE Expelled(q, k + 1) /\ u = identity[q]
        BY <1>1, <1>2, <1>5, <1>7, <2>1, ExpelledStays
    <2>2. CASE UserDeviceSession(u, q)
        <3>1. UNCHANGED sessions
            BY <1>7 DEF Receipt, Receive, serverVars, tableVars, accountVars
        <3>2. UserDeviceSession(u, q)'
            BY <2>2, <3>1 DEF UserDeviceSession
        <3> QED
            BY <1>5, <1>7, <3>2
    <2> QED
        BY <1>4, <1>7, <2>1, <2>2
<1>8. CASE JustSent(replies'[q][k], q)
    <2>1. PICK p \in Clients : /\ Reads(p) /\ peer[q] = Current(p).from
                               /\ \E s \in sessions' : s.user = u /\ s.device = p
        BY <1>8 DEF JustSent, TellingKinds, Names
    <2>2. q = p /\ ~Current(p).sent
        BY <2>1, AnswersComeBack
    <2>3. UserDeviceSession(u, q)'
        BY <2>1, <2>2 DEF UserDeviceSession
    <2>4. 1 \in DOMAIN requests[q] /\ ~requests[q][1].sent
        BY <1>1, <2>1, <2>2, CurrentIsFirst
    <2>5. \A j \in DOMAIN requests[q] : ~requests[q][j].sent
        <3>1. \A j \in DOMAIN requests[q] : j = 1 \/ 1 < j
            BY <1>1, LenProperties DEF WireTypeOK
        <3> QED
            BY <2>4, <3>1 DEF ConnectionInv, SentFirst
    <2> QED
        BY <1>2, <1>3, <2>3, <2>5
<1> QED
    BY <1>6, <1>7, <1>8, CalmReplies

\* The main page stays, or q has just been told to open it.
LEMMA PageAfterStep ==
    ASSUME TypeInv, [Next]_vars, NEW q \in Clients, page'[q] = "main"
    PROVE  page[q] = "main" \/ (Receipt(q) /\ Opens(Received(q)))
<1>1. WireTypeOK /\ ClientTypeOK
    BY DEF TypeInv, TypeOK
<1>2. ASSUME UNCHANGED page PROVE page[q] = "main"
    BY <1>2
<1>3. ASSUME NEW p \in Clients, NEW pg, Show(p, pg), pg # "main" PROVE page[q] = "main"
    BY <1>1, <1>3 DEF Show, ClientTypeOK
<1>4. ASSUME NEW p \in Clients, StartClient(p) \/ AcceptConnection(p) \/ UsePane(p) \/ UseBox(p)
      PROVE  page[q] = "main"
    BY <1>2, <1>4 DEF StartClient, Start, AcceptConnection, UsePane, RequestToCreateChat, PopUp,
        SelectChat, SendText, SendLine, UseBox, FetchAllNotifications, OnClick, AnswerInvite,
        Answer, AnswerOrphan, clientVars
<1>5. ASSUME NEW p \in Clients, QuitClient(p) \/ OrphanCrash(p) PROVE page[q] = "main"
    BY <1>3, <1>5 DEF QuitClient, OrphanCrash, EndClient, CloseClient
<1>6. ASSUME NEW p \in Clients, UseAccount(p) PROVE page[q] = "main"
    BY <1>2, <1>3, <1>6 DEF UseAccount, SwitchPage, RequestRegister, RequestAuthorize,
        RequestLogout, RequestChangeIdentity, clientVars
<1>7. ASSUME NEW p \in Clients, Receive(p)
      PROVE  page[q] = "main" \/ (Receipt(q) /\ Opens(Received(q)))
    <2>1. CASE \/ ReceiveNewClientName(p) \/ ReceiveNewChat(p) \/ ReceiveCreateChat(p)
               \/ ReceiveNotifications(p) \/ ReceiveClientChats(p) \/ ReceiveIncomingMessage(p)
        BY <1>2, <2>1 DEF ReceiveNewClientName, ReceiveNewChat, ReceiveCreateChat,
            ReceiveNotifications, ReceiveClientChats, ReceiveIncomingMessage, clientVars
    <2>2. CASE ReceiveRegister(p) \/ ReceiveNotAuthorized(p)
        BY <1>3, <2>2 DEF ReceiveRegister, ReceiveNotAuthorized
    <2>3. CASE ReceiveAuthorize(p) \/ ReceiveAlreadyAuthorized(p)
        <3>1. CASE Opens(Received(p))
            <4>1. CASE p = q
                <5>1. replies[q] # <<>> /\ replies'[q] = Tail(replies[q])
                    BY <1>1, <2>3, <4>1 DEF ReceiveAuthorize, ReceiveAlreadyAuthorized,
                        Receives, Consume, WireTypeOK
                <5> QED
                    BY <1>7, <3>1, <4>1, <5>1 DEF Receipt
            <4>2. CASE p # q
                BY <1>1, <2>3, <4>2 DEF ReceiveAuthorize, ReceiveAlreadyAuthorized, Show,
                    ClientTypeOK
            <4> QED
                BY <4>1, <4>2
        <3>2. CASE ~Opens(Received(p))
            <4>1. Show(p, "login")
                BY <2>3, <3>2 DEF ReceiveAuthorize, ReceiveAlreadyAuthorized, Receives, Received,
                    Opens
            <4> QED
                BY <1>3, <4>1
        <3> QED
            BY <3>1, <3>2
    <2> QED
        BY <1>7, <2>1, <2>2, <2>3 DEF Receive
<1>8. ASSUME HaltServer \/ RestartServer \/ RunServer \/ UNCHANGED vars
      PROVE  page[q] = "main"
    BY <1>2, <1>8 DEF HaltServer, RestartServer, RunServer, vars, clientVars
<1> QED
    BY <1>4, <1>5, <1>6, <1>7, <1>8 DEF Next

LEMMA MainIsOpenStep ==
    ASSUME TypeInv, KnownByIdentity, ConnectionInv, Calm,
           NamesFollow, NamesAreOpen, SentByOthers, MainIsOpen, [Next]_vars
    PROVE  MainIsOpen'
<1>1. WireTypeOK /\ ClientTypeOK /\ NoId \notin Logins
    BY IdsAssumption DEF TypeInv, TypeOK
<1> SUFFICES ASSUME NEW q \in Clients, page'[q] = "main",
                    NEW u, u = identity'[q]
             PROVE  /\ u # NoId
                    /\ \/ 1 \in DOMAIN replies'[q] /\ Names(replies'[q][1])
                       \/ UserDeviceSession(u, q)'
                       \/ Expelled(q, 0)'
    BY DEF MainIsOpen, Running, Names, UserDeviceSession, Expelled
<1>2. CASE Renamed(q)
    BY <1>1, <1>2, RenamedTo DEF Renamed, UserDeviceSession
<1>3. CASE ~Renamed(q) /\ Receipt(q)
    <2>1. /\ Running(q) /\ 1 \in DOMAIN replies[q] /\ Received(q) = replies[q][1]
          /\ replies[q] # <<>> /\ replies'[q] = Tail(replies[q])
          /\ UNCHANGED sessions
        <3>1. Running(q)
            BY <1>3 DEF Receipt, Receive, ReceiveRegister, ReceiveAuthorize,
                ReceiveAlreadyAuthorized, ReceiveNotAuthorized, ReceiveNewClientName,
                ReceiveNewChat, ReceiveCreateChat, ReceiveNotifications, ReceiveClientChats,
                ReceiveIncomingMessage, Receives
        <3>2. UNCHANGED sessions
            BY <1>3 DEF Receipt, Receive, serverVars, tableVars, accountVars
        <3> QED
            BY <1>1, <1>3, <3>1, <3>2, QueueMovesUp DEF Receipt
    <2>2. u = identity[q] /\ u # NoId
        BY <1>3, <2>1, CalmQueue DEF Running
    <2>3. CASE Opens(Received(q))
        <3>1. 1 + 1 \in DOMAIN replies[q] /\ Names(replies[q][1 + 1])
            BY <2>1, <2>3 DEF NamesFollow
        <3>2. 2 - 1 \in DOMAIN replies'[q] /\ replies'[q][2 - 1] = replies[q][2]
            BY <1>1, <2>1, <3>1, RestMovesUp
        <3> QED
            BY <2>2, <3>1, <3>2
    <2>4. CASE Names(Received(q))
        <3>1. ReceiveNewClientName(q)
            BY <1>3, <2>4 DEF Receipt, Receive, ReceiveRegister, ReceiveAuthorize,
                ReceiveAlreadyAuthorized, ReceiveNotAuthorized,
                ReceiveNewChat, ReceiveCreateChat, ReceiveNotifications, ReceiveClientChats,
                ReceiveIncomingMessage, Receives, Received, Names
        <3>2. Received(q).login = identity[q]
            BY <1>1, <2>2, <3>1 DEF ReceiveNewClientName, Reconnect, WireTypeOK
        <3>3. UserDeviceSession(identity[q], q) \/ Expelled(q, 1)
            BY <2>1, <2>4, <3>2 DEF NamesAreOpen
        <3>4. Expelled(q, 0 + 1) => Expelled(q, 0)'
            BY <1>1, <1>3, ExpelledStays
        <3>5. UserDeviceSession(identity[q], q) => UserDeviceSession(u, q)'
            BY <2>1, <2>2 DEF UserDeviceSession
        <3> QED
            BY <2>2, <3>3, <3>4, <3>5
    <2>5. CASE ~Opens(Received(q)) /\ ~Names(Received(q))
        <3>1. page[q] = "main"
            BY <2>5, PageAfterStep
        <3>2. UserDeviceSession(identity[q], q) \/ Expelled(q, 0)
            BY <2>1, <2>5, <3>1 DEF MainIsOpen
        <3>3. Received(q).kind # "NotAuthorized"
            <4> SUFFICES ASSUME Received(q).kind = "NotAuthorized" PROVE FALSE
                OBVIOUS
            <4>1. ReceiveNotAuthorized(q)
                BY <1>3 DEF Receipt, Receive, ReceiveRegister, ReceiveAuthorize,
                    ReceiveAlreadyAuthorized, ReceiveNewClientName,
                    ReceiveNewChat, ReceiveCreateChat, ReceiveNotifications, ReceiveClientChats,
                    ReceiveIncomingMessage, Receives, Received
            <4> QED
                BY <1>1, <4>1 DEF ReceiveNotAuthorized, Show, ClientTypeOK
        <3>4. Expelled(q, 0) => Expelled(q, 0 + 1)
            <4>1. \A j \in DOMAIN replies[q] : j = 1 \/ j > 1
                BY <1>1, LenProperties DEF WireTypeOK
            <4> QED
                BY <2>1, <3>3, <4>1 DEF Expelled
        <3>5. Expelled(q, 0 + 1) => Expelled(q, 0)'
            BY <1>1, <1>3, ExpelledStays
        <3>6. UserDeviceSession(identity[q], q) => UserDeviceSession(u, q)'
            BY <2>1, <2>2 DEF UserDeviceSession
        <3> QED
            BY <2>2, <3>2, <3>4, <3>5, <3>6
    <2> QED
        BY <2>3, <2>4, <2>5
<1>4. CASE ~Renamed(q) /\ QueueStays(q) /\ ~Receipt(q)
    <2>1. page[q] = "main"
        BY <1>4, PageAfterStep
    <2>2. Running(q) /\ u = identity[q] /\ u # NoId
        BY <1>4, <2>1, CalmQueue DEF MainIsOpen, Running
    <2>3. CASE 1 \in DOMAIN replies[q] /\ Names(replies[q][1])
        BY <1>4, <2>2, <2>3 DEF QueueStays
    <2>4. CASE Expelled(q, 0)
        BY <1>1, <1>4, <2>2, <2>4, ExpelledStays
    <2>5. CASE UserDeviceSession(identity[q], q)
        <3>1. CASE UserDeviceSession(u, q)'
            BY <2>2, <3>1
        <3>2. CASE HandleLogout(q) /\ Current(q).from = identity[q]
            BY <2>2, <3>2, LogoutTold
        <3> QED
            BY <2>2, <2>5, <3>1, <3>2, SessionsLeft
    <2> QED
        BY <2>1, <2>3, <2>4, <2>5 DEF MainIsOpen
<1> QED
    BY <1>2, <1>3, <1>4, CalmQueue

LEMMA PageStep ==
    ASSUME PageInv, ~MembershipKey, [Next]_vars
    PROVE  PageInv'
<1>1. TypeInv' /\ KnownByIdentity' /\ ConnectionInv' /\ DownIsHalted'
    <2>1. IdsChanged
        BY IdsAfterStep DEF PageInv
    <2>2. KnownByIdentity'
        BY <2>1 DEF IdsChanged, KnownByIdentity, Running
    <2> QED
        BY <2>2, StepTyped, ConnectionStep, DownStaysHalted DEF PageInv
<1>2. ASSUME Undisturbed'
      PROVE  NamesFollow' /\ NamesAreOpen' /\ SentByOthers' /\ MainIsOpen'
    <2>1. TypeInv /\ KnownByIdentity /\ ConnectionInv /\ Calm
        BY <1>2, CalmStep DEF PageInv
    <2>2. NamesFollow /\ NamesAreOpen /\ SentByOthers /\ MainIsOpen
        BY <2>1 DEF PageInv, Calm
    <2> QED
        BY <2>1, <2>2, NamesFollowStep, NamesAreOpenStep, SentByOthersStep, MainIsOpenStep
<1> QED
    BY <1>1, <1>2 DEF PageInv

LEMMA PageInit == Init => PageInv
<1> SUFFICES ASSUME Init PROVE PageInv
    OBVIOUS
<1>1. /\ KnownByIdentity /\ ConnectionInv /\ DownIsHalted
      /\ NamesFollow /\ NamesAreOpen /\ SentByOthers
    BY SystemAssumption DEF Init, WireInit, ServerInit, KnownByIdentity, ConnectionInv,
        PeersDiffer, SentIsOld, SentFirst, DownIsHalted, NamesFollow, NamesAreOpen,
        SentByOthers
<1>2. ASSUME NEW p \in Clients, page[p] = "main"
      PROVE  Running(p) /\ UserDeviceSession(identity[p], p)
    <2>1. identity[p] = LoggedIn[p] /\ LoggedIn[p] # NoId
        BY <1>2 DEF Init, WireInit, ClientInit
    <2> DEFINE s == [user |-> LoggedIn[p], device |-> p, id |-> Session[p]]
    <2>2. s \in sessions /\ s.user = LoggedIn[p] /\ s.device = p
        BY <2>1 DEF Init, ServerInit
    <2> HIDE DEF s
    <2> QED
        BY <2>1, <2>2 DEF Running, UserDeviceSession
<1> QED
    BY <1>1, <1>2, InitTyped DEF PageInv, MainIsOpen

\* Whoever sees the main page when nothing is under way has a session: as long as
\* no process ends, a logout or a refusal is never overtaken by an answer that opens
\* the page again, whoever logs in, out, and under which names, in between.
THEOREM MainPageIsOpen ==
    ASSUME MembershipKey = FALSE
    PROVE  Spec => []MainPageHasSession
<1>1. PageInv /\ [Next]_vars => PageInv'
    <2>1. ~MembershipKey
        OBVIOUS
    <2> QED
        BY <2>1, PageStep
<1>2. PageInv => MainPageHasSession
    BY DEF PageInv, MainIsOpen, MainPageHasSession, Quiet, Expelled
<1> QED
    BY PageInit, <1>1, <1>2, PTL DEF Spec
=============================================================================
