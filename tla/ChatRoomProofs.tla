--------------------------- MODULE ChatRoomProofs ---------------------------
(***************************************************************************)
(* Rooms: founders, boxes, that all of it implements ChatRooms, and that   *)
(* no invitation is lost.                                                  *)
(***************************************************************************)
EXTENDS ChatMessageProofs

-----------------------------------------------------------------------------
(***************************************************************************)
(* Founders.                                                               *)
(***************************************************************************)
\* The handler at work will make the founder of c a member.
FounderIsDue(c) == job.at = "asking" /\ job.chat = c /\ job.creator = chats[c]

FoundersJoin ==
    spent["halt"] = 0 => \A c \in DOMAIN chats : IsIn(chats[c], c) \/ FounderIsDue(c)

FounderInv == TypeInv /\ FoundersJoin

\* A handler that sends invitations goes on with them, or comes to its end.
LEMMA HandlerGoesOn ==
    ASSUME TypeInv, [Next]_vars, ~HaltServer, job.at = "asking"
    PROVE  \/ job'.at = "asking" /\ job'.chat = job.chat /\ job'.creator = job.creator
           \/ FinishNewChat
           \/ FinishNewChatFails
<1>1. \A p \in Clients : ~Reads(p)
    BY DEF Reads, Idle
<1>2. ASSUME NEW p \in Clients,
             \/ HandleConnection(p) \/ HandleRegister(p)
             \/ HandleAuthorize(p) \/ HandleLogout(p) \/ PrepareNewChatSession(p)
             \/ HandleResponseForInvite(p) \/ AcceptFails(p) \/ HandleClientChatsInfoRequest(p)
             \/ HandleClientNotifications(p) \/ RefuseMessage(p) \/ HandleSendMessage(p)
             \/ RefuseWithoutSession(p)
      PROVE  FALSE
    BY <1>1, <1>2 DEF RefuseWithoutSession, HandleConnection, HandleRegister, HandleAuthorize,
        HandleLogout, PrepareNewChatSession, HandleResponseForInvite, AcceptFails,
        HandleClientChatsInfoRequest, HandleClientNotifications, RefuseMessage,
        HandleSendMessage, Serves
<1>3. ASSUME NEW u \in Logins, AskClient(u)
      PROVE  job'.at = "asking" /\ job'.chat = job.chat /\ job'.creator = job.creator
    BY <1>3, AskingJob DEF AskClient, TypeInv, TypeOK
<1>4. ~SetNotificationChecked /\ ~DispatchMessage
    BY DEF SetNotificationChecked, DispatchMessage
<1>5. CASE RunServer
    BY <1>2, <1>3, <1>4, <1>5 DEF RunServer, ServerStep
<1>6. CASE ~RunServer
    <2>1. UNCHANGED job
        BY <1>6 DEF Next, StartClient, QuitClient, OrphanCrash, EndClient, AcceptConnection,
            UseAccount, UsePane, UseBox, Receive, RestartServer, Restart, vars, serverVars
    <2> QED
        BY <2>1
<1> QED
    BY <1>5, <1>6

\* The row that PrepareNewChatSession adds is the one its handler goes on with.
LEMMA OnlyChatIsNew ==
    ASSUME TypeInv, ~CoarseClock, NEW p \in Clients, PrepareNewChatSession(p),
           NEW c \in DOMAIN chats', c \notin DOMAIN chats
    PROVE  c = job'.chat /\ job'.at = "asking" /\ job'.creator = chats'[c]
<1> DEFINE u == Current(p).from
           n == Len(chats)
<1>1. u \in Logins
    BY EntitledIsLogin DEF PrepareNewChatSession, Serves, NonSessionActions, TypeInv, TypeOK
<1>2. chats \in Seq(Logins) /\ chats' = Append(chats, u)
    BY DEF PrepareNewChatSession, TypeInv, TypeOK, ServerTypeOK
<1>3. /\ DOMAIN chats = 1 .. n /\ n \in Nat /\ DOMAIN chats' = 1 .. n + 1 /\ Len(chats') = n + 1
      /\ chats'[n + 1] = u
    BY <1>1, <1>2, AppendProperties, LenProperties
<1>4. newestChats' = {n + 1}
    BY <1>3 DEF PrepareNewChatSession, NewestAfter
<1>5. job'.at = "asking" /\ job'.chat = n + 1 /\ job'.creator = u
    BY <1>4 DEF PrepareNewChatSession
<1>6. c = n + 1
    BY <1>3
<1> QED
    BY <1>3, <1>5, <1>6

LEMMA FounderStep ==
    ASSUME FounderInv, ~CoarseClock, [Next]_vars
    PROVE  FounderInv'
<1>1. TypeInv /\ TypeInv'
    BY StepTyped DEF FounderInv
<1> SUFFICES ASSUME spent'["halt"] = 0, NEW c \in DOMAIN chats'
             PROVE  (IsIn(chats[c], c) \/ FounderIsDue(c))'
    BY <1>1 DEF FounderInv, FoundersJoin
<1>2. spent["halt"] = 0 /\ ~HaltServer
    <2>1. "halt" \in Kinds /\ spent \in [Kinds -> Nat]
        BY <1>1 DEF Kinds, TypeInv, TypeOK
    <2> QED
        BY <1>1, <2>1, SpentGrows DEF HaltServer, Spend
<1>3. ASSUME c \in DOMAIN chats PROVE IsIn(chats[c], c) \/ FounderIsDue(c)
    BY <1>2, <1>3 DEF FounderInv, FoundersJoin
<1>4. ASSUME c \in DOMAIN chats PROVE chats'[c] = chats[c]
    BY <1>1, <1>4, ChatsAfterStep, NewChatRow
<1>5. CASE c \in DOMAIN chats /\ IsIn(chats[c], c)
    BY <1>4, <1>5, StaysIn
<1>6. CASE c \in DOMAIN chats /\ FounderIsDue(c)
    <2>1. CASE job'.at = "asking" /\ job'.chat = job.chat /\ job'.creator = job.creator
        BY <1>4, <1>6, <2>1 DEF FounderIsDue
    <2>2. CASE FinishNewChat
        BY <1>4, <1>6, <2>2 DEF FinishNewChat, AddClientToChat, FounderIsDue, IsIn
    <2>3. CASE FinishNewChatFails
        <3>1. IsIn(chats[c], c)
            BY <1>6, <2>3 DEF FinishNewChatFails, InsertFails, FounderIsDue, IsIn
        <3> QED
            BY <1>4, <1>6, <3>1, StaysIn
    <2> QED
        BY <1>1, <1>2, <1>6, <2>1, <2>2, <2>3, HandlerGoesOn DEF FounderIsDue
<1>7. CASE c \notin DOMAIN chats
    BY <1>1, <1>7, ChatsAfterStep, OnlyChatIsNew DEF FounderIsDue
<1> QED
    BY <1>3, <1>5, <1>6, <1>7

\* Once its handler is through, a chat has its founder for a member, for any number
\* of chats and users, unless a server that was stopped has left it half made; no
\* two rows of chats share their created_at.
THEOREM FoundersAreMembers ==
    ASSUME CoarseClock = FALSE
    PROVE  Spec => []FounderJoins
<1>1. Init => FounderInv
    BY InitTyped DEF Init, ServerInit, FounderInv, FoundersJoin
<1>2. FounderInv /\ [Next]_vars => FounderInv'
    <2>1. ~CoarseClock
        OBVIOUS
    <2> QED
        BY <2>1, FounderStep
<1>3. FounderInv => FounderJoins
    BY DEF FounderInv, FoundersJoin, FounderIsDue, FounderJoins, IsIn
<1> QED
    BY <1>1, <1>2, <1>3, PTL DEF Spec

-----------------------------------------------------------------------------
(***************************************************************************)
(* Boxes: the invitations in the box of a process are for its user.        *)
(***************************************************************************)
BoxIsOwn == \A p \in Clients : \A i \in DOMAIN notices[p] : IsFor(notices[p][i].nid, identity[p])

BoxInv == RowInv /\ AddressInv /\ OwnInv /\ (NobodyChanges => BoxIsOwn)

\* A client changes its id when it starts or ends, or takes the name it is told.
Renames(q) == Receives(q, "NewClientName") /\ identity'[q] \in Logins

LEMMA IdentityLeft ==
    ASSUME TypeInv, [Next]_vars, NEW q \in Clients
    PROVE  \/ identity'[q] = identity[q] \/ ~Running(q) \/ Renames(q)
           \/ notices'[q] = <<>>
<1>1. WireTypeOK /\ notices \in [Clients -> Seq(Entries)]
    BY DEF TypeInv, TypeOK, BoxTypeOK
<1>2. ASSUME NEW p \in Clients, EndClient(p)
      PROVE  identity'[q] = identity[q] \/ notices'[q] = <<>>
    BY <1>1, <1>2 DEF EndClient, CloseClient, CloseBox, Reconnect, WireTypeOK
<1>3. ASSUME NEW p \in Clients, StartClient(p) PROVE identity'[q] = identity[q] \/ ~Running(q)
    <2>1. ~Running(p) /\ \E t : identity' = [identity EXCEPT ![p] = t]
        BY <1>3 DEF StartClient, Start
    <2> QED
        BY <1>1, <2>1 DEF WireTypeOK
<1>4. CASE \A p \in Clients : ~EndClient(p) /\ ~StartClient(p)
    <2>1. \A p \in Clients : ~QuitClient(p) /\ ~OrphanCrash(p)
        BY <1>4 DEF QuitClient, OrphanCrash
    <2>2. ASSUME NEW p \in Clients, Receive(p)
          PROVE  identity'[q] = identity[q] \/ Renames(q)
        <3>1. CASE ReceiveNewClientName(p)
            <4>1. /\ Receives(p, "NewClientName")
                  /\ \/ UNCHANGED identity
                     \/ identity' = [identity EXCEPT ![p] = Received(p).login]
                BY <3>1 DEF ReceiveNewClientName, Reconnect, Consume
            <4>2. Received(p).kind = "NewClientName" /\ Received(p) \in Replies
                BY <1>1, <4>1, ReceivedIsFirst, ElementOfSeq, LenProperties DEF WireTypeOK
            <4>3. Received(p).login \in Logins
                BY <4>2 DEF Replies
            <4> QED
                BY <1>1, <4>1, <4>3 DEF WireTypeOK, Renames
        <3>2. CASE ~ReceiveNewClientName(p)
            BY <2>2, <3>2 DEF Receive, ReceiveRegister, ReceiveAuthorize,
                ReceiveAlreadyAuthorized, ReceiveNotAuthorized, ReceiveNewChat,
                ReceiveCreateChat, ReceiveNotifications, ReceiveClientChats,
                ReceiveIncomingMessage, Consume
        <3> QED
            BY <3>1, <3>2
    <2>3. ASSUME NEW p \in Clients,
                 AcceptConnection(p) \/ UseAccount(p) \/ UsePane(p) \/ UseBox(p)
          PROVE  UNCHANGED identity
        BY <2>3 DEF AcceptConnection, Accept, UseAccount, SwitchPage, RequestRegister,
            RequestAuthorize, RequestLogout, RequestChangeIdentity, UsePane, RequestToCreateChat,
            PopUp, SelectChat, SendText, SendLine, UseBox, FetchAllNotifications, OnClick,
            AnswerInvite, Answer, AnswerOrphan, SendRequest, wireVars
    <2>4. ASSUME HaltServer \/ RestartServer \/ RunServer \/ UNCHANGED vars
          PROVE  UNCHANGED identity
        BY <2>4, ServerLeavesIds DEF HaltServer, Halt, GoDown, BreakConnections, RestartServer,
            Restart, RunServer, vars, wireVars
    <2> QED
        BY <1>4, <2>1, <2>2, <2>3, <2>4 DEF Next
<1> QED
    BY <1>2, <1>3, <1>4

LEMMA BoxStep ==
    ASSUME BoxInv, ~CoarseClock, [Next]_vars
    PROVE  BoxInv'
<1>1. /\ TypeInv /\ WireTypeOK /\ ServerTypeOK /\ RowInv /\ AddressInv /\ OwnInv
      /\ \A n \in DOMAIN notifications : notifications[n].to \in Logins
    <2>1. TypeInv /\ ServerTypeOK /\ notifications \in Seq(Notifications)
        BY DEF BoxInv, RowInv, TypeInv, TypeOK, ServerTypeOK
    <2>2. \A n \in DOMAIN notifications : notifications[n] \in Notifications
        BY <2>1, ElementOfSeq, LenProperties
    <2> QED
        BY <2>1, <2>2 DEF BoxInv, TypeInv, TypeOK, Notifications
<1>2. RowInv' /\ AddressInv' /\ OwnInv'
    BY <1>1, RowInvStep, AddressStep, OwnStep
<1>3. ASSUME NobodyChanges', NEW q \in Clients, NEW i \in DOMAIN notices'[q]
      PROVE  IsFor(notices[q][i].nid, identity[q])'
    <2>1. BoxIsOwn /\ OnlyStartsAreNamed
        BY <1>1, <1>3, NobodyChanged DEF BoxInv, OwnInv, UserStays
    <2>2. IsFor(notices'[q][i].nid, identity[q])
        <3>1. ASSUME NEW kind, Receives(q, kind)
              PROVE  Addressed(Received(q), identity[q]) /\ Received(q).kind = kind
            <4>1. 1 \in DOMAIN replies[q] /\ Received(q) = replies[q][1] /\ Received(q).kind = kind
                BY <1>1, <3>1, ReceivedIsFirst
            <4> QED
                BY <1>1, <4>1 DEF AddressInv, InvitesReachTheirUser, Addressed, IsFor
        <3>2. EntryKnown(notices'[q][i], q)
            BY <1>1, <1>3, EntriesAfterStep
        <3>3. CASE \E j \in DOMAIN notices[q] : SameInvite(notices'[q][i], notices[q][j])
            BY <2>1, <3>3 DEF BoxIsOwn, SameInvite
        <3>4. CASE Receives(q, "CreateChat") /\ SameInvite(notices'[q][i], Received(q).invite)
            BY <3>1, <3>4 DEF Addressed, SameInvite
        <3>5. CASE Receives(q, "Notifications")
                   /\ \E j \in Received(q).invites : SameInvite(notices'[q][i], j)
            BY <3>1, <3>5 DEF Addressed, SameInvite
        <3> QED
            BY <3>2, <3>3, <3>4, <3>5 DEF EntryKnown
    <2>3. identity[q] \in Logins
        BY <1>1, <2>2 DEF IsFor
    <2>4. identity'[q] = identity[q]
        <3>1. ~Renames(q)
            BY <1>1, <2>1, <2>3, ReceivedIsFirst, IdsAssumption DEF OnlyStartsAreNamed, Renames
        <3>2. notices'[q] # <<>>
            BY <1>3
        <3> QED
            BY <1>1, <2>3, <3>1, <3>2, IdentityLeft, IdsAssumption DEF Running
    <2> QED
        BY <1>1, <2>2, <2>4, AddresseeStays
<1>4. NobodyChanges' => BoxIsOwn'
    BY <1>3 DEF BoxIsOwn
<1> QED
    BY <1>2, <1>4 DEF BoxInv

\* Whoever has something in the box is somebody, if not the one it is for.
BoxedAreLogins == \A p \in Clients : notices[p] # <<>> => identity[p] \in Logins

LEMMA BoxedAreLoginsKept ==
    ASSUME TypeInv, TypeInv', AddressInv, BoxedAreLogins, [Next]_vars
    PROVE  BoxedAreLogins'
<1> SUFFICES ASSUME NEW q \in Clients, notices'[q] # <<>>
             PROVE  identity'[q] \in Logins
    BY DEF BoxedAreLogins
<1>1. WireTypeOK /\ InvitesReachTheirUser
    BY DEF AddressInv, TypeInv, TypeOK
<1>2. 1 \in DOMAIN notices'[q]
    <2>1. notices'[q] \in Seq(Entries)
        BY DEF TypeInv, TypeOK, BoxTypeOK
    <2> QED
        BY <2>1, EmptySeq, LenProperties
<1>3. identity[q] \in Logins
    <2>1. EntryKnown(notices'[q][1], q)
        BY <1>2, EntriesAfterStep
    <2>2. CASE \E j \in DOMAIN notices[q] : SameInvite(notices'[q][1], notices[q][j])
        <3>1. notices[q] # <<>>
            BY <2>2
        <3> QED
            BY <3>1 DEF BoxedAreLogins
    <2>3. ASSUME NEW n, IsFor(n, identity[q]) PROVE identity[q] \in Logins
        <3>1. notifications \in Seq(Notifications)
            BY DEF TypeInv, TypeOK, ServerTypeOK
        <3>2. notifications[n] \in Notifications
            BY <2>3, <3>1, ElementOfSeq, LenProperties DEF IsFor
        <3> QED
            BY <2>3, <3>2 DEF IsFor, Notifications
    <2>4. ASSUME NEW kind, Receives(q, kind)
          PROVE  Addressed(Received(q), identity[q]) /\ Received(q).kind = kind
        <3>1. 1 \in DOMAIN replies[q] /\ Received(q) = replies[q][1] /\ Received(q).kind = kind
            BY <1>1, <2>4, ReceivedIsFirst
        <3> QED
            BY <1>1, <3>1 DEF InvitesReachTheirUser, Addressed, IsFor
    <2>5. CASE Receives(q, "CreateChat") /\ SameInvite(notices'[q][1], Received(q).invite)
        BY <2>3, <2>4, <2>5 DEF Addressed
    <2>6. CASE Receives(q, "Notifications")
               /\ \E j \in Received(q).invites : SameInvite(notices'[q][1], j)
        BY <2>3, <2>4, <2>6 DEF Addressed
    <2> QED
        BY <2>1, <2>2, <2>5, <2>6 DEF EntryKnown
<1> QED
    BY <1>3, IdentityLeft, IdsAssumption DEF Renames, Running

-----------------------------------------------------------------------------
(***************************************************************************)
(* Texts go to chats somebody is in, whoever has which window: the server  *)
(* tells of no others.                                                     *)
(***************************************************************************)
Peopled(c) == \E m \in userChats : m.chat = c

PanesPeopled == \A p \in Clients : \A c \in PaneChats(p) : Peopled(c)

ListsPeopled ==
    \A p \in Clients : \A k \in DOMAIN replies[p] :
        replies[p][k].kind = "ClientChats" => \A c \in replies[p][k].chats : Peopled(c)

TextsPeopled ==
    \A p \in Clients : \A k \in DOMAIN requests[p] : LET r == requests[p][k] IN
        r.body.kind = "SendMessage" /\ r.body.chat # NoChat => Peopled(r.body.chat)

PeopledInv == DurableInv /\ PanesPeopled /\ ListsPeopled /\ TextsPeopled

LEMMA StaysPeopled ==
    ASSUME [Next]_vars, NEW c, Peopled(c)
    PROVE  Peopled(c)'
BY MembersStay DEF Peopled

LEMMA PanesStayPeopled ==
    ASSUME PeopledInv, [Next]_vars
    PROVE  PanesPeopled'
<1>1. TypeInv /\ WireTypeOK /\ NewChatIsDurable
    BY DEF PeopledInv, DurableInv, TypeInv, TypeOK
<1> SUFFICES ASSUME NEW q \in Clients, NEW c \in PaneChats(q)'
             PROVE  Peopled(c)'
    BY DEF PanesPeopled
<1>2. ASSUME NEW kind, Receives(q, kind)
      PROVE  /\ kind = "ClientChats" => \A d \in Received(q).chats : Peopled(d)
             /\ kind = "NewChat" => Peopled(Received(q).chat)
    <2>1. 1 \in DOMAIN replies[q] /\ Received(q) = replies[q][1] /\ Received(q).kind = kind
        BY <1>1, <1>2, ReceivedIsFirst
    <2>2. ASSUME kind = "NewChat" PROVE Peopled(Received(q).chat)
        <3>1. [chat |-> Received(q).chat, user |-> identity[q]] \in userChats
            BY <1>1, <2>1, <2>2 DEF NewChatIsDurable
        <3> QED
            BY <3>1 DEF Peopled
    <2> QED
        BY <2>1, <2>2 DEF PeopledInv, ListsPeopled
<1>3. Peopled(c)
    BY <1>1, <1>2, PaneAfterStep DEF PaneGrows, PeopledInv, PanesPeopled
<1> QED
    BY <1>3, StaysPeopled

LEMMA ListsStayPeopled ==
    ASSUME PeopledInv, [Next]_vars
    PROVE  ListsPeopled'
<1> SUFFICES ASSUME NEW q \in Clients, NEW k \in DOMAIN replies'[q],
                    replies'[q][k].kind = "ClientChats", NEW c \in replies'[q][k].chats
             PROVE  Peopled(c)'
    BY DEF ListsPeopled, Peopled
<1>1. CASE Was(replies'[q][k], q)
    <2>1. Peopled(c)
        BY <1>1 DEF Was, PeopledInv, ListsPeopled
    <2> QED
        BY <2>1, StaysPeopled
<1>2. CASE JustSent(replies'[q][k], q)
    <2>1. c \in GetClientChats(peer[q])
        BY <1>2 DEF JustSent, TellingKinds
    <2>2. Peopled(c)
        BY <2>1 DEF GetClientChats, Peopled
    <2> QED
        BY <2>2, StaysPeopled
<1> QED
    BY <1>1, <1>2, MessageFlow DEF PeopledInv, DurableInv

LEMMA TextsStayPeopled ==
    ASSUME PeopledInv, [Next]_vars
    PROVE  TextsPeopled'
<1> SUFFICES ASSUME NEW q \in Clients, NEW k \in DOMAIN requests'[q],
                    requests'[q][k].body.kind = "SendMessage",
                    requests'[q][k].body.chat # NoChat, NEW c, c = requests'[q][k].body.chat
             PROVE  Peopled(c)'
    BY DEF TextsPeopled, Peopled
<1>1. CASE Kept(requests'[q][k], q)
    <2>1. Peopled(c)
        BY <1>1 DEF Kept, PeopledInv, TextsPeopled
    <2> QED
        BY <2>1, StaysPeopled
<1>2. CASE JustAsked(requests'[q][k], q)
    <2>1. c \in PaneChats(q)
        BY <1>2 DEF JustAsked, PaneChats
    <2>2. Peopled(c)
        BY <2>1 DEF PeopledInv, PanesPeopled
    <2> QED
        BY <2>2, StaysPeopled
<1> QED
    BY <1>1, <1>2, RequestOrigin DEF RequestsMade, PeopledInv, DurableInv

LEMMA PeopledStep ==
    ASSUME PeopledInv, [Next]_vars
    PROVE  PeopledInv'
BY DurableStep, PanesStayPeopled, ListsStayPeopled, TextsStayPeopled DEF PeopledInv

LEMMA PeopledInit == Init => PeopledInv
<1> SUFFICES ASSUME Init PROVE PeopledInv
    OBVIOUS
<1>1. DurableInv
    BY InitTyped DEF Init, WireInit, DurableInv, KnownByIdentity, NewChatIsDurable
<1>2. PanesPeopled
    BY DEF Init, ClientInit, PaneInit, PanesPeopled, PaneChats, NoChat
<1>3. ListsPeopled /\ TextsPeopled
    BY DEF Init, WireInit, ListsPeopled, TextsPeopled
<1> QED
    BY <1>1, <1>2, <1>3 DEF PeopledInv

-----------------------------------------------------------------------------
(***************************************************************************)
(* The whole implements ChatRooms: every step is one of a room, or leaves  *)
(* the rooms as they are.  Where users change, a room may get the answer   *)
(* of one user to the invitation of another, and nothing worse.            *)
(***************************************************************************)
\* What rows and answers refer to exists.
ChatsExist ==
    /\ \A n \in DOMAIN notifications : notifications[n].chat \in DOMAIN chats
    /\ \A a \in answers : a.chat \in DOMAIN chats

RoomInv ==
    BoxInv /\ BoxedAreLogins /\ PeopledInv /\ AgreedInv /\ DenseInv /\ ChatsExist

\* The rooms' view of the invitations, and of those who agreed.
InvitedPlaces ==
    {[user |-> notifications[n].to, chat |-> notifications[n].chat] : n \in DOMAIN notifications}
AgreedPlaces == Places({a \in answers : a.yes})

LEMMA ChatsRemain ==
    ASSUME TypeInv, ~CoarseClock, [Next]_vars
    PROVE  DOMAIN chats \subseteq DOMAIN chats' /\ \A c \in DOMAIN chats : chats'[c] = chats[c]
BY ChatsAfterStep, NewChatRow

\* The answers given grow by what a window of the box is asked.
LEMMA AnswersAfterStep ==
    ASSUME [Next]_vars
    PROVE  \/ UNCHANGED answers
           \/ \E p \in Clients : \E i \in DOMAIN notices[p], accept \in BOOLEAN :
                AnswerInvite(p, i, accept) /\ UNCHANGED serverVars
BY DEF Next, StartClient, QuitClient, OrphanCrash, EndClient, AcceptConnection, UseAccount,
       UsePane, UseBox, Receive, HaltServer, RestartServer, RunServer, Spend, vars, systemVars

\* An entry stands for an open or checked invitation to a chat there is, of the user
\* as long as nobody changes.
LEMMA EntryIsInvitation ==
    ASSUME RoomInv, NEW p \in Clients, NEW i \in DOMAIN notices[p]
    PROVE  LET e == notices[p][i] IN
           /\ e.nid \in DOMAIN notifications
           /\ notifications[e.nid].to \in Logins /\ notifications[e.nid].chat = e.chat
           /\ identity[p] \in Logins /\ e.chat \in DOMAIN chats
           /\ NobodyChanges => notifications[e.nid].to = identity[p]
<1>1. NamesItsRow(notices[p][i].nid, notices[p][i].author, notices[p][i].chat)
    BY DEF RoomInv, BoxInv, RowInv, InvitesNameTheirRow
<1>2. NobodyChanges => IsFor(notices[p][i].nid, identity[p])
    BY DEF RoomInv, BoxInv, BoxIsOwn
<1>3. notifications \in Seq(Notifications)
    BY DEF RoomInv, DenseInv, TypeInv, TypeOK, ServerTypeOK
<1>4. notifications[notices[p][i].nid] \in Notifications
    BY <1>1, <1>3, ElementOfSeq, LenProperties DEF NamesItsRow
<1>5. identity[p] \in Logins
    <2>1. notices[p] # <<>>
        OBVIOUS
    <2> QED
        BY <2>1 DEF RoomInv, BoxedAreLogins
<1> QED
    BY <1>1, <1>2, <1>4, <1>5 DEF NamesItsRow, IsFor, Notifications, RoomInv, ChatsExist

LEMMA ChatsExistKept ==
    ASSUME RoomInv, ~CoarseClock, [Next]_vars
    PROVE  ChatsExist'
<1>1. TypeInv /\ AsksForOwnChat /\ ChatsExist /\ DOMAIN chats \subseteq DOMAIN chats'
    BY ChatsRemain DEF RoomInv, AgreedInv, DenseInv
<1>2. ASSUME NEW n \in DOMAIN notifications' PROVE notifications'[n].chat \in DOMAIN chats'
    <2>1. DOMAIN notifications = 1 .. Len(notifications) /\ Len(notifications) \in Nat
        BY <1>1, LenProperties DEF TypeInv, TypeOK, ServerTypeOK
    <2>2. CASE n \in DOMAIN notifications
        BY <1>1, <2>2, RowsStand DEF ChatsExist
    <2>3. CASE n \notin DOMAIN notifications
        <3>1. PICK u \in Logins : /\ AskClient(u)
                                  /\ RowAdded([from |-> job.creator, to |-> u, chat |-> job.chat,
                                               checked |-> FALSE])
            BY <1>1, <1>2, <2>3, RowsAfterStep DEF RowChecked
        <3>2. n = Len(notifications) + 1
            BY <1>2, <2>1, <2>3, <3>1 DEF RowAdded
        <3>3. notifications'[n].chat = job.chat
            BY <3>1, <3>2 DEF RowAdded
        <3> QED
            BY <1>1, <3>1, <3>3 DEF AskClient, AsksForOwnChat
    <2> QED
        BY <2>2, <2>3
<1>3. ASSUME NEW a \in answers' PROVE a.chat \in DOMAIN chats'
    <2>1. CASE a \in answers
        BY <1>1, <2>1 DEF ChatsExist
    <2>2. CASE a \notin answers
        <3>1. PICK p \in Clients : \E i \in DOMAIN notices[p] : a.chat = notices[p][i].chat
            BY <1>3, <2>2, AnswersAfterStep DEF AnswerInvite
        <3> QED
            BY <1>1, <3>1, EntryIsInvitation
    <2> QED
        BY <2>1, <2>2
<1> QED
    BY <1>2, <1>3 DEF ChatsExist

LEMMA AgreedStep ==
    ASSUME AgreedInv, ~CoarseClock, [Next]_vars
    PROVE  AgreedInv'
<1>1. AnswerInv
    BY DEF AgreedInv
<1> QED
    BY <1>1, AnswerInvStep, AsksForOwnChatKept, MembersAgreedKept DEF AgreedInv

LEMMA RoomInvStep ==
    ASSUME RoomInv, ~CoarseClock, [Next]_vars
    PROVE  RoomInv'
<1>1. TypeInv /\ TypeInv' /\ AddressInv
    BY StepTyped DEF RoomInv, BoxInv, RowInv
<1> QED
    BY <1>1, BoxStep, BoxedAreLoginsKept, PeopledStep, AgreedStep, DenseStep, ChatsExistKept
    DEF RoomInv

RoomsAsTheyWere == UNCHANGED <<chats, InvitedPlaces, AgreedPlaces, userChats, messages>>

\* Places are taken from the rows alone.
LEMMA SamePlacesInvited ==
    ASSUME TypeInv, UNCHANGED notifications \/ RowChecked
    PROVE  UNCHANGED InvitedPlaces
<1>1. \A n \in DOMAIN notifications : notifications[n] \in Notifications
    BY ElementOfSeq, LenProperties DEF TypeInv, TypeOK, ServerTypeOK
<1>2. DOMAIN notifications' = DOMAIN notifications
    BY DEF RowChecked
<1>3. ASSUME NEW n \in DOMAIN notifications
      PROVE  notifications'[n].to = notifications[n].to
             /\ notifications'[n].chat = notifications[n].chat
    BY <1>1, <1>3 DEF RowChecked, Notifications
<1> QED
    BY <1>2, <1>3 DEF InvitedPlaces

LEMMA FoundStep ==
    ASSUME TypeInv, NEW p \in Clients, PrepareNewChatSession(p), UNCHANGED answers
    PROVE  Room!RoomsNext
<1>1. Current(p).from \in Logins
    BY EntitledIsLogin DEF PrepareNewChatSession, Serves, NonSessionActions, TypeInv, TypeOK
<1>2. UNCHANGED <<InvitedPlaces, AgreedPlaces, userChats, messages>>
    BY DEF PrepareNewChatSession, noticeVars, InvitedPlaces, AgreedPlaces
<1>3. Room!Found(Current(p).from)
    BY <1>2 DEF PrepareNewChatSession, Room!Found, InvitedPlaces, AgreedPlaces
<1> QED
    BY <1>1, <1>3 DEF Room!RoomsNext

LEMMA InvitedStep ==
    ASSUME NEW u \in Logins, NEW c \in DOMAIN chats,
           InvitedPlaces' = InvitedPlaces \cup {[user |-> u, chat |-> c]},
           UNCHANGED <<chats, AgreedPlaces, userChats, messages>>
    PROVE  Room!RoomsNext
<1>1. Room!Invite(u, c)
    BY DEF Room!Invite, Room!Rooms, Room!Place, InvitedPlaces, AgreedPlaces
<1> QED
    BY <1>1 DEF Room!RoomsNext, Room!Rooms

LEMMA InviteStep ==
    ASSUME TypeInv, AsksForOwnChat, NEW u \in Logins, AskClient(u), u \in users,
           UNCHANGED answers
    PROVE  Room!RoomsNext
<1> DEFINE row == [from |-> job.creator, to |-> u, chat |-> job.chat, checked |-> FALSE]
           n   == Len(notifications)
<1>1. RowAdded(row) /\ row.to = u /\ row.chat = job.chat
    BY AskClientRow
<1>2. DOMAIN notifications = 1 .. n /\ n \in Nat
    BY LenProperties DEF TypeInv, TypeOK, ServerTypeOK
<1> HIDE DEF row, n
<1>3. /\ DOMAIN notifications' = DOMAIN notifications \cup {n + 1}
      /\ \A i \in DOMAIN notifications : notifications'[i] = notifications[i]
      /\ notifications'[n + 1].to = u /\ notifications'[n + 1].chat = job.chat
    BY <1>1, <1>2 DEF RowAdded, n
<1>4. InvitedPlaces' = InvitedPlaces \cup {[user |-> u, chat |-> job.chat]}
    <2>1. InvitedPlaces' =
            {[user |-> notifications'[i].to, chat |-> notifications'[i].chat] :
                i \in DOMAIN notifications'}
        BY DEF InvitedPlaces
    <2> QED
        BY <1>3, <2>1 DEF InvitedPlaces
<1>5. UNCHANGED <<chats, AgreedPlaces, userChats, messages>>
    BY DEF AskClient, chatVars, AgreedPlaces
<1>6. job.chat \in DOMAIN chats
    BY DEF AskClient, AsksForOwnChat
<1> QED
    BY <1>4, <1>5, <1>6, InvitedStep

\* After a change of user, somebody has answered for another.
SharedAgreement ==
    ~NobodyChanges /\ \E u, v \in Logins, c \in DOMAIN chats : Room!AgreeFor(u, v, c)

LEMMA AgreeStep ==
    ASSUME RoomInv, NEW p \in Clients, NEW i \in DOMAIN notices[p], NEW accept \in BOOLEAN,
           AnswerInvite(p, i, accept), UNCHANGED <<chats, notifications, userChats, messages>>
    PROVE  (NobodyChanges /\ Room!RoomsNext) \/ SharedAgreement \/ RoomsAsTheyWere
<1> DEFINE e == notices[p][i]
           u == identity[p]
           w == notifications[e.nid].to
           a == [user |-> u, nid |-> e.nid, chat |-> e.chat, yes |-> accept]
<1>1. /\ e.nid \in DOMAIN notifications
      /\ w \in Logins /\ notifications[e.nid].chat = e.chat
      /\ u \in Logins /\ e.chat \in DOMAIN chats
      /\ NobodyChanges => w = u
    BY EntryIsInvitation
<1>2. answers' = answers \cup {a}
    BY DEF AnswerInvite
<1>3. a.user = u /\ a.chat = e.chat /\ a.yes = accept
    OBVIOUS
<1>4. UNCHANGED InvitedPlaces
    BY DEF InvitedPlaces
<1>5. [user |-> w, chat |-> e.chat] \in InvitedPlaces
    BY <1>1 DEF InvitedPlaces
<1> HIDE DEF a, u, w, e
<1>6. CASE accept
    <2>1. AgreedPlaces' = AgreedPlaces \cup {[user |-> u, chat |-> e.chat]}
        <3>1. {x \in answers' : x.yes} = {x \in answers : x.yes} \cup {a}
            BY <1>2, <1>3, <1>6
        <3>2. AgreedPlaces' = {[user |-> x.user, chat |-> x.chat] : x \in {y \in answers' : y.yes}}
            BY DEF AgreedPlaces, Places
        <3> QED
            BY <1>3, <3>1, <3>2 DEF AgreedPlaces, Places
    <2>2. CASE NobodyChanges
        <3>1. Room!Agree(u, e.chat)
            BY <1>1, <1>5, <1>4, <2>1, <2>2 DEF Room!Agree, Room!Place, InvitedPlaces, AgreedPlaces
        <3> QED
            BY <1>1, <2>2, <3>1 DEF Room!RoomsNext, Room!Rooms
    <2>3. CASE ~NobodyChanges
        <3>1. Room!AgreeFor(w, u, e.chat)
            BY <1>5, <1>4, <2>1 DEF Room!AgreeFor, Room!Place, InvitedPlaces, AgreedPlaces
        <3> QED
            BY <1>1, <2>3, <3>1 DEF SharedAgreement
    <2> QED
        BY <2>2, <2>3
<1>7. CASE ~accept
    <2>1. {x \in answers' : x.yes} = {x \in answers : x.yes}
        BY <1>2, <1>3, <1>7
    <2>2. UNCHANGED AgreedPlaces
        BY <2>1 DEF AgreedPlaces, Places
    <2> QED
        BY <1>4, <2>2 DEF RoomsAsTheyWere
<1> QED
    BY <1>6, <1>7

LEMMA JoinStep ==
    ASSUME NEW u \in Logins, NEW c \in DOMAIN chats, AddClientToChat(u, c),
           [user |-> u, chat |-> c] \in AgreedPlaces \/ chats[c] = u,
           UNCHANGED <<chats, notifications, answers, messages>>
    PROVE  Room!RoomsNext
<1>1. UNCHANGED <<InvitedPlaces, AgreedPlaces>>
    BY DEF InvitedPlaces, AgreedPlaces
<1>2. userChats' = userChats \cup {Room!Place(u, c)}
    BY DEF AddClientToChat, Room!Place
<1>3. Room!Join(u, c)
    BY <1>1, <1>2 DEF Room!Join, Room!Place, Room!Rooms, InvitedPlaces, AgreedPlaces
<1> QED
    BY <1>3 DEF Room!RoomsNext, Room!Rooms

LEMMA AcceptStep ==
    ASSUME RoomInv, NEW p \in Clients, Serves(p, "AcceptCreateChat"),
           AddClientToChat(Current(p).from, Current(p).body.chat),
           UNCHANGED <<chats, notifications, answers, messages>>
    PROVE  Room!RoomsNext
<1>1. TypeInv /\ AnswersGiven /\ ChatsExist
    BY DEF RoomInv, AgreedInv, AnswerInv
<1>2. AnswerOf(Current(p)) \in answers
    BY <1>1, ServedAnswer
<1>3. Current(p).from \in Logins
    BY <1>1, EntitledIsLogin DEF Serves, NonSessionActions, TypeInv, TypeOK
<1> DEFINE a == AnswerOf(Current(p))
<1>4. a.yes /\ a.user = Current(p).from /\ a.chat = Current(p).body.chat
    BY DEF AnswerOf, Serves
<1> HIDE DEF a
<1>5. Current(p).body.chat \in DOMAIN chats
    BY <1>1, <1>2, <1>4 DEF ChatsExist, a
<1>6. [user |-> Current(p).from, chat |-> Current(p).body.chat] \in AgreedPlaces
    BY <1>2, <1>4 DEF AgreedPlaces, Places, a
<1> QED
    BY <1>3, <1>5, <1>6, JoinStep

LEMMA PostStep ==
    ASSUME RoomInv, NEW p \in Clients, HandleSendMessage(p), UNCHANGED answers
    PROVE  Room!RoomsNext
<1> DEFINE c == Current(p).body.chat
<1>1. TypeInv /\ WireTypeOK /\ ServerTypeOK /\ TextsPeopled /\ DenseInv /\ MembersAgreed /\ ChatsExist
    BY DEF RoomInv, PeopledInv, DenseInv, AgreedInv, TypeInv, TypeOK
<1>2. 1 \in DOMAIN requests[p] /\ Current(p) = requests[p][1]
    BY <1>1, CurrentIsFirst DEF HandleSendMessage, Serves
<1>3. Peopled(c)
    BY <1>1, <1>2 DEF HandleSendMessage, Serves, TextsPeopled
<1>4. c \in DOMAIN chats /\ \E m \in userChats : m.chat = c
    BY <1>1, <1>3 DEF Peopled, MembersAgreed, ChatsExist
<1>5. NextMessageId(c) = Room!NumberOfPosts(c) + 1
    <2>1. DOMAIN messages = 1 .. Len(messages)
        BY <1>1, LenProperties DEF ServerTypeOK
    <2>2. Rows(c, Len(messages)) = {i \in DOMAIN messages : messages[i].chat = c}
        BY <2>1 DEF Rows
    <2>3. Room!NumberOfPosts(c) = Cardinality({i \in DOMAIN messages : messages[i].chat = c})
        BY DEF Room!NumberOfPosts, Room!Cardinality, Cardinality
    <2> HIDE DEF c
    <2>4. NextMessageId(c) = Cardinality(Rows(c, Len(messages))) + 1
        BY <1>1, NextIdCounts
    <2> QED
        BY <2>2, <2>3, <2>4
<1>6. messages' = Append(messages, [chat |-> c, id |-> Room!NumberOfPosts(c) + 1])
    BY <1>5 DEF HandleSendMessage
<1>7. UNCHANGED <<chats, InvitedPlaces, AgreedPlaces, userChats>>
    BY DEF HandleSendMessage, chatVars, noticeVars, InvitedPlaces, AgreedPlaces
<1>8. Room!PostIn(c)
    BY <1>4, <1>6, <1>7 DEF Room!PostIn, InvitedPlaces, AgreedPlaces
<1> QED
    BY <1>4, <1>8 DEF Room!RoomsNext, Room!Rooms

LEMMA RoomStep ==
    ASSUME RoomInv, [Next]_vars
    PROVE  Room!RoomsNext \/ SharedAgreement \/ RoomsAsTheyWere
<1>1. TypeInv /\ AsksForOwnChat /\ ServerTypeOK
    BY DEF RoomInv, AgreedInv, DenseInv, TypeInv, TypeOK
<1>2. ASSUME UNCHANGED <<chats, userChats, messages, answers>>,
             UNCHANGED notifications \/ RowChecked
      PROVE  RoomsAsTheyWere
    BY <1>1, <1>2, SamePlacesInvited DEF RoomsAsTheyWere, AgreedPlaces
<1>3. ASSUME RunServer PROVE Room!RoomsNext \/ RoomsAsTheyWere
    <2>1. UNCHANGED answers /\ ServerStep
        BY <1>3 DEF RunServer
    <2>2. ASSUME NEW p \in Clients,
                 \/ RefuseWithoutSession(p) \/ HandleConnection(p) \/ HandleRegister(p)
                 \/ HandleAuthorize(p) \/ HandleLogout(p) \/ AcceptFails(p)
                 \/ HandleClientChatsInfoRequest(p) \/ HandleClientNotifications(p)
                 \/ RefuseMessage(p)
          PROVE  UNCHANGED <<chats, userChats, messages, notifications>>
        BY <2>2 DEF RefuseWithoutSession, HandleConnection, HandleRegister, HandleAuthorize,
            HandleLogout, AcceptFails, HandleClientChatsInfoRequest, HandleClientNotifications,
            RefuseMessage, serverVars, tableVars, chatVars, noticeVars
    <2>3. ASSUME FinishNewChatFails \/ DispatchMessage
          PROVE  UNCHANGED <<chats, userChats, messages, notifications>>
        BY <2>3 DEF FinishNewChatFails, DispatchMessage, tableVars, chatVars, noticeVars
    <2>4. ASSUME SetNotificationChecked
          PROVE  UNCHANGED <<chats, userChats, messages>> /\ RowChecked
        BY <2>4 DEF SetNotificationChecked, RowChecked, chatVars
    <2>5. ASSUME NEW u \in Logins, AskClient(u) PROVE Room!RoomsNext \/ RoomsAsTheyWere
        <3>1. CASE u \in users
            BY <1>1, <2>1, <2>5, <3>1, InviteStep
        <3>2. CASE u \notin users
            BY <1>2, <2>1, <2>5, <3>2 DEF AskClient, chatVars
        <3> QED
            BY <3>1, <3>2
    <2>6. ASSUME FinishNewChat PROVE Room!RoomsNext
        <3>1. job.creator \in Logins /\ job.chat \in DOMAIN chats /\ chats[job.chat] = job.creator
            BY <1>1, <2>6, AskingJob DEF FinishNewChat, AsksForOwnChat
        <3>2. AddClientToChat(job.creator, job.chat)
              /\ UNCHANGED <<chats, notifications, answers, messages>>
            BY <2>1, <2>6 DEF FinishNewChat, noticeVars
        <3> QED
            BY <3>1, <3>2, JoinStep
    <2>7. ASSUME NEW p \in Clients, HandleResponseForInvite(p)
          PROVE  Room!RoomsNext \/ RoomsAsTheyWere
        <3>1. UNCHANGED <<chats, notifications, answers, messages>>
            BY <2>1, <2>7 DEF HandleResponseForInvite, noticeVars
        <3>2. \/ UNCHANGED userChats
              \/ /\ Serves(p, "AcceptCreateChat")
                 /\ AddClientToChat(Current(p).from, Current(p).body.chat)
            BY <2>7 DEF HandleResponseForInvite
        <3> QED
            BY <1>2, <3>1, <3>2, AcceptStep
    <2> QED
        BY <1>1, <1>2, <2>1, <2>2, <2>3, <2>4, <2>5, <2>6, <2>7, FoundStep, PostStep
        DEF ServerStep
<1>4. ASSUME ~RunServer PROVE Room!RoomsNext \/ SharedAgreement \/ RoomsAsTheyWere
    <2>1. UNCHANGED <<chats, userChats, messages, notifications>>
        BY <1>4 DEF Next, StartClient, QuitClient, OrphanCrash, EndClient, AcceptConnection,
            UseAccount, UsePane, UseBox, Receive, HaltServer, Halt, RestartServer, Restart,
            vars, serverVars, tableVars, chatVars, noticeVars
    <2> QED
        BY <1>2, <2>1, AnswersAfterStep, AgreeStep
<1> QED
    BY <1>3, <1>4

LEMMA RoomInit == Init => RoomInv /\ Room!RoomsInit
<1> SUFFICES ASSUME Init PROVE RoomInv /\ Room!RoomsInit
    OBVIOUS
<1>1. RowInv /\ AddressInv /\ BoxIsOwn /\ BoxedAreLogins
    BY OwnInit, InitTyped DEF Init, WireInit, BoxInit, RowInv, InvitesNameTheirRow,
        AddressInv, InvitesReachTheirUser, BoxIsOwn, BoxedAreLogins, OwnInv
<1>2. AgreedInv
    BY AnswerInvInit DEF Init, ServerInit, Idle, AgreedInv, AsksForOwnChat, MembersAgreed
<1>3. DenseInv /\ ChatsExist
    BY InitTyped DEF Init, ServerInit, DenseInv, MessageIdsDense, ChatsExist
<1>4. Room!RoomsInit
    BY DEF Init, ServerInit, Room!RoomsInit, Places
<1> QED
    BY <1>1, <1>2, <1>3, <1>4, OwnInit, PeopledInit DEF RoomInv, BoxInv

LEMMA RoomKept == ASSUME CoarseClock = FALSE PROVE RoomInv /\ [Next]_vars => RoomInv'
<1>1. ~CoarseClock
    OBVIOUS
<1> QED
    BY <1>1, RoomInvStep

\* Tables, handlers, boxes and windows implement ChatRooms, for any number of users,
\* chats, messages, crashes and restarts, as long as no two rows share their
\* created_at and nobody changes the user of a process: only the one who was invited
\* agrees, only who agreed or founded the room gets in, and posts are numbered.
THEOREM RoomsAreImplemented ==
    ASSUME CoarseClock = FALSE
    PROVE  Spec /\ []NobodyChanges => ImplementsRooms
<1>1. RoomInv /\ NobodyChanges /\ [Next]_vars => [Room!RoomsNext]_(Room!roomVars)
    BY RoomStep DEF SharedAgreement, RoomsAsTheyWere, Room!roomVars, InvitedPlaces, AgreedPlaces
<1> QED
    BY RoomInit, RoomKept, <1>1, PTL DEF Spec, ImplementsRooms, Room!RoomsSpec

\* Whoever changes the user of which process, and when: the whole implements the
\* rooms of users who share their boxes.  Somebody may agree in the place of another,
\* whose box was left open; still only who agreed or founded the room gets in, an
\* answer is to an invitation there was, posts are numbered, and none is in an empty
\* room.
THEOREM RoomsAreShared ==
    ASSUME CoarseClock = FALSE
    PROVE  Spec => ImplementsSharedRooms
<1>1. RoomInv /\ [Next]_vars => [Room!SharedRoomsNext]_(Room!roomVars)
    BY RoomStep DEF SharedAgreement, Room!SharedRoomsNext, Room!Rooms, RoomsAsTheyWere,
        Room!roomVars, InvitedPlaces, AgreedPlaces
<1> QED
    BY RoomInit, RoomKept, <1>1, PTL DEF Spec, ImplementsSharedRooms, Room!SharedRoomsSpec

-----------------------------------------------------------------------------
(***************************************************************************)
(* Invitations are not lost, as long as those who are logged in stay.      *)
(***************************************************************************)
NobodyLeaves == NobodyChanges /\ spent["logout"] = 0

OpeningSessions ==
    {[user |-> LoggedIn[p], device |-> p, id |-> Session[p]] :
        p \in {q \in Clients : LoggedIn[q] # NoId}}

\* Those who are logged in stay so, and nobody else gets in.
SeatsAreKept ==
    /\ sessions = OpeningSessions
    /\ \A p \in Clients :
        IF LoggedIn[p] = NoId THEN identity[p] \notin Logins
        ELSE identity[p] = LoggedIn[p] /\ Admitted(p) /\ config[p].session = Session[p]

NobodyIsNamed == \A p \in Clients : \A k \in DOMAIN replies[p] : ~Names(replies[p][k])

\* What a user asks for is served: the request carries the session.
AskedInSession ==
    \A p \in Clients : LoggedIn[p] # NoId =>
        \A k \in DOMAIN requests[p] : LET r == requests[p][k] IN
            r.from = LoggedIn[p] /\ r.session = Session[p] /\ r.body.kind # "Logout"

LostInv ==
    /\ PageInv /\ OwnInv
    /\ Undisturbed /\ NobodyLeaves =>
        SeatsAreKept /\ NobodyIsNamed /\ AskedInSession /\ InvitationNotLost

LEMMA NobodyLeft ==
    ASSUME TypeInv, [Next]_vars, NobodyLeaves'
    PROVE  NobodyLeaves
<1>1. spent'["logout"] = 0 /\ "logout" \in Kinds /\ NobodyChanges'
    BY DEF NobodyLeaves, Kinds
<1>2. spent["logout"] = 0
    BY <1>1, SpentGrows
<1> QED
    BY <1>1, <1>2, NobodyChanged DEF NobodyLeaves

\* The request a running q makes for b.
Asked(q, b) == [from |-> identity[q], session |-> config[q].session, sent |-> FALSE, body |-> b]

\* In a calm step, a client that keeps its name keeps its requests, but for the one
\* the server takes and the one its user makes.
LEMMA CalmRequests ==
    ASSUME TypeInv, Calm, [Next]_vars, NEW q \in Clients, Running(q), ~Renamed(q)
    PROVE  \/ requests'[q] = requests[q]
           \/ RunServer /\ Reads(q) /\ requests'[q] = Tail(requests[q])
           \/ \E b \in RequestBodies :
                /\ requests'[q] = Append(requests[q], Asked(q, b))
                /\ b.kind = "Logout" => spent'["logout"] # 0
<1> DEFINE Kept1  == requests'[q] = requests[q]
           Taken1 == RunServer /\ Reads(q) /\ requests'[q] = Tail(requests[q])
           Made1  == \E b \in RequestBodies :
                        /\ requests'[q] = Append(requests[q], Asked(q, b))
                        /\ b.kind = "Logout" => spent'["logout"] # 0
<1> SUFFICES Kept1 \/ Taken1 \/ Made1
    OBVIOUS
<1>1. WireTypeOK /\ ClientTypeOK /\ requests \in [Clients -> Seq(Requests)]
    BY DEF TypeInv, TypeOK, WireTypeOK
<1>2. ASSUME NEW p \in Clients, NEW b \in RequestBodies, SendRequest(p, b),
             b.kind = "Logout" => spent'["logout"] # 0
      PROVE  Kept1 \/ Made1
    <2>1. requests' = [requests EXCEPT ![p] = Append(requests[p], Asked(p, b))]
        BY <1>2 DEF SendRequest, Post, Asked
    <2>2. CASE p = q
        BY <1>1, <1>2, <2>1, <2>2
    <2>3. CASE p # q
        BY <1>1, <2>1, <2>3
    <2> QED
        BY <2>2, <2>3
<1> HIDE DEF Made1
<1>3. ASSUME NEW p \in Clients, StartClient(p) PROVE Kept1
    <2>1. p # q
        BY <1>3 DEF StartClient, Start
    <2> QED
        BY <1>1, <1>3, <2>1 DEF StartClient, Start
<1>4. ASSUME NEW p \in Clients, AcceptConnection(p) PROVE Kept1
    BY <1>4 DEF AcceptConnection, Accept
<1>5. ASSUME NEW p \in Clients, UseAccount(p) PROVE Kept1 \/ Made1
    <2>1. CASE SwitchPage(p)
        BY <2>1 DEF SwitchPage, wireVars
    <2>2. ASSUME NEW u \in Logins, NEW valid \in BOOLEAN,
                 RequestRegister(p, u, valid) \/ RequestAuthorize(p, u, valid)
          PROVE  Kept1 \/ Made1
        BY <1>2, <2>2, AccountBodies DEF RequestRegister, RequestAuthorize
    <2>3. CASE RequestLogout(p) /\ Spend("logout")
        <3>1. spent'["logout"] # 0
            BY <2>3, SpendCounts DEF Kinds
        <3>2. [kind |-> "Logout"] \in RequestBodies
            BY DEF RequestBodies
        <3> QED
            BY <1>2, <2>3, <3>1, <3>2 DEF RequestLogout
    <2>4. ASSUME NEW u \in Logins, RequestChangeIdentity(p, u) PROVE Kept1 \/ Made1
        BY <1>2, <2>4, AccountBodies DEF RequestChangeIdentity
    <2> QED
        BY <1>5, <2>1, <2>2, <2>3, <2>4 DEF UseAccount
<1>6. ASSUME NEW p \in Clients, UsePane(p) PROVE Kept1 \/ Made1
    <2>1. chatId[p] \in Int /\ current[p] \in Int
        BY DEF TypeInv, TypeOK, ClientTypeOK, PaneTypeOK
    <2>2. ASSUME NEW invited \in InviteSets, RequestToCreateChat(p, invited) PROVE Kept1 \/ Made1
        <3>1. invited \in SUBSET Logins
            BY SystemAssumption
        <3>2. [kind |-> "CreateChat", invited |-> invited] \in RequestBodies
            BY <3>1 DEF RequestBodies
        <3> QED
            BY <1>2, <2>2, <3>2 DEF RequestToCreateChat
    <2>3. CASE PopUp(p)
        <3>1. [kind |-> "ClientChats"] \in RequestBodies
            BY DEF RequestBodies
        <3> QED
            BY <1>2, <2>3, <3>1 DEF PopUp
    <2>4. CASE \E c \in combo[p] \cup {-1} : SelectChat(p, c)
        BY <2>4 DEF SelectChat, wireVars
    <2>5. CASE SendText(p) \/ SendLine(p)
        BY <1>2, <2>1, <2>5, PaneBodies DEF SendText, SendLine
    <2> QED
        BY <1>6, <2>2, <2>3, <2>4, <2>5 DEF UsePane
<1>7. ASSUME NEW p \in Clients, UseBox(p) PROVE Kept1 \/ Made1
    <2>1. CASE FetchAllNotifications(p)
        <3>1. [kind |-> "Notifications"] \in RequestBodies
            BY DEF RequestBodies
        <3> QED
            BY <1>2, <2>1, <3>1 DEF FetchAllNotifications
    <2>2. CASE AnswerOrphan(p) \/ \E i \in DOMAIN notices[p] : OnClick(p, i)
        BY <2>2 DEF AnswerOrphan, OnClick, wireVars
    <2>3. ASSUME NEW i \in DOMAIN notices[p], NEW accept \in BOOLEAN, AnswerInvite(p, i, accept)
          PROVE  Kept1 \/ Made1
        <3> DEFINE b == [kind |-> IF accept THEN "AcceptCreateChat" ELSE "DeclineCreateChat",
                         nid |-> notices[p][i].nid, chat |-> notices[p][i].chat]
        <3>1. notices[p][i] \in Entries
            BY <2>3, ElementOfSeq, LenProperties DEF TypeInv, TypeOK, BoxTypeOK
        <3>2. b \in RequestBodies /\ b.kind # "Logout"
            BY <3>1 DEF RequestBodies, Entries
        <3>3. SendRequest(p, b)
            BY <2>3 DEF AnswerInvite, Answer
        <3> HIDE DEF b
        <3> QED
            BY <1>2, <3>2, <3>3
    <2> QED
        BY <1>7, <2>1, <2>2, <2>3 DEF UseBox
<1>8. ASSUME NEW p \in Clients, Receive(p) PROVE Kept1
    <2>1. CASE Consume(p)
        BY <2>1 DEF Consume
    <2>2. CASE ReceiveNewClientName(p) /\ ~Consume(p)
        <3>1. /\ Receives(p, "NewClientName") /\ Received(p).login # identity[p]
              /\ Reconnect(p, Received(p).login) /\ UNCHANGED page
            BY <2>2 DEF ReceiveNewClientName
        <3>2. CASE p # q
            BY <1>1, <3>1, <3>2 DEF Reconnect
        <3>3. CASE p = q
            <4>1. identity'[p] = Received(p).login /\ replies'[p] = <<>>
                BY <1>1, <3>1 DEF Reconnect, WireTypeOK
            <4>2. UNCHANGED sessions
                BY <1>8 DEF Receive, serverVars, tableVars, accountVars
            <4> QED
                BY <3>1, <3>3, <4>1, <4>2 DEF Renamed
        <3> QED
            BY <3>2, <3>3
    <2> QED
        BY <1>8, <2>1, <2>2 DEF Receive, ReceiveRegister, ReceiveAuthorize,
            ReceiveAlreadyAuthorized, ReceiveNotAuthorized, ReceiveNewChat, ReceiveCreateChat,
            ReceiveNotifications, ReceiveClientChats, ReceiveIncomingMessage
<1>9. CASE RunServer
    <2>1. ASSUME NEW p \in Clients, Reads(p), Take(p) PROVE Kept1 \/ Taken1
        BY <1>1, <1>9, <2>1 DEF Take, Taken
    <2>2. ASSUME NEW p \in Clients,
                 \/ RefuseWithoutSession(p) \/ HandleConnection(p) \/ HandleRegister(p)
                 \/ HandleAuthorize(p) \/ HandleLogout(p) \/ PrepareNewChatSession(p)
                 \/ HandleResponseForInvite(p) \/ HandleClientChatsInfoRequest(p)
                 \/ HandleClientNotifications(p) \/ RefuseMessage(p) \/ HandleSendMessage(p)
          PROVE  Reads(p) /\ Take(p)
        BY <2>2 DEF RefuseWithoutSession, HandleConnection, HandleRegister, HandleAuthorize,
            HandleLogout, PrepareNewChatSession, HandleResponseForInvite,
            HandleClientChatsInfoRequest, HandleClientNotifications, RefuseMessage,
            HandleSendMessage, Serves
    <2>3. CASE \E u \in Logins : AskClient(u)
        BY <2>3 DEF AskClient
    <2>4. CASE FinishNewChat \/ SetNotificationChecked \/ DispatchMessage
        BY <2>4 DEF FinishNewChat, SetNotificationChecked, DispatchMessage, wireVars
    <2> HIDE DEF Kept1, Taken1
    <2> QED
        BY <1>9, <2>1, <2>2, <2>3, <2>4 DEF RunServer, ServerStep, Calm
<1>10. CASE UNCHANGED vars
    BY <1>10 DEF vars, wireVars
<1> HIDE DEF Kept1, Taken1
<1> QED
    BY <1>3, <1>4, <1>5, <1>6, <1>7, <1>8, <1>9, <1>10 DEF Next, Calm


LEMMA SessionsKept ==
    ASSUME TypeInv, SeatsAreKept, AskedInSession, OnlyStartsAsk, Calm, [Next]_vars
    PROVE  UNCHANGED sessions
<1>1. ASSUME NEW p \in Clients, Serves(p, "Authorize") \/ Serves(p, "Logout")
      PROVE  FALSE
    <2>1. Reads(p) /\ Entitled(p) /\ 1 \in DOMAIN requests[p] /\ Current(p) = requests[p][1]
        BY <1>1, CurrentIsFirst DEF Serves, TypeInv, TypeOK
    <2>2. Current(p).body.kind = "Logout"
        BY <1>1, <2>1 DEF Serves, OnlyStartsAsk
    <2>3. [user |-> Current(p).from, device |-> p, id |-> Current(p).session] \in OpeningSessions
        BY <2>1, <2>2 DEF Entitled, NonSessionActions, DoesSessionExist, SeatsAreKept
    <2>4. LoggedIn[p] # NoId
        BY <2>3 DEF OpeningSessions
    <2> QED
        BY <2>1, <2>2, <2>4 DEF AskedInSession
<1>2. ASSUME NEW p \in Clients,
             \/ RefuseWithoutSession(p) \/ HandleConnection(p) \/ HandleRegister(p)
             \/ PrepareNewChatSession(p) \/ HandleResponseForInvite(p)
             \/ HandleClientChatsInfoRequest(p) \/ HandleClientNotifications(p)
             \/ RefuseMessage(p) \/ HandleSendMessage(p)
      PROVE  UNCHANGED sessions
    BY <1>2 DEF RefuseWithoutSession, HandleConnection, HandleRegister, PrepareNewChatSession,
        HandleResponseForInvite, HandleClientChatsInfoRequest, HandleClientNotifications,
        RefuseMessage, HandleSendMessage, serverVars, tableVars, accountVars
<1>3. ASSUME \/ \E u \in Logins : AskClient(u)
             \/ FinishNewChat \/ SetNotificationChecked \/ DispatchMessage
      PROVE  UNCHANGED sessions
    BY <1>3 DEF AskClient, FinishNewChat, SetNotificationChecked, DispatchMessage,
        tableVars, accountVars
<1>4. \A p \in Clients : ~HandleAuthorize(p) /\ ~HandleLogout(p)
    BY <1>1 DEF HandleAuthorize, HandleLogout
<1>5. CASE RunServer
    BY <1>2, <1>3, <1>4, <1>5 DEF RunServer, ServerStep, Calm
<1> QED
    BY <1>5, SessionsOfOthers

LEMMA ConfigKept ==
    ASSUME TypeInv, [Next]_vars, NEW q \in Clients
    PROVE  \/ config'[q].session = config[q].session
           \/ Receives(q, "Authorize") /\ Received(q).session # 0
<1> DEFINE Kept1 == config'[q].session = config[q].session
           Given == Receives(q, "Authorize") /\ Received(q).session # 0
<1> SUFFICES Kept1 \/ Given
    OBVIOUS
<1>1. config \in [Clients -> [identity : Logins \cup {NoId}, session : Nat]]
    BY DEF TypeInv, TypeOK, ClientTypeOK
<1>2. ASSUME UNCHANGED config PROVE Kept1
    BY <1>2
<1>3. ASSUME NEW p \in Clients, ReceiveAuthorize(p) PROVE Kept1 \/ Given
    <2>1. CASE p = q
        BY <1>1, <1>3, <2>1 DEF ReceiveAuthorize
    <2>2. CASE p # q
        BY <1>1, <1>3, <2>2 DEF ReceiveAuthorize
    <2> QED
        BY <2>1, <2>2
<1>4. ASSUME NEW p \in Clients, ReceiveNewClientName(p) PROVE Kept1
    <2>1. CASE p = q
        BY <1>1, <1>4, <2>1 DEF ReceiveNewClientName
    <2>2. CASE p # q
        BY <1>1, <1>4, <2>2 DEF ReceiveNewClientName
    <2> QED
        BY <2>1, <2>2
<1>5. ASSUME NEW p \in Clients, Receive(p) PROVE Kept1 \/ Given
    <2>1. CASE ~ReceiveAuthorize(p) /\ ~ReceiveNewClientName(p)
        <3>1. UNCHANGED config
            BY <1>5, <2>1 DEF Receive, ReceiveRegister, ReceiveAlreadyAuthorized,
                ReceiveNotAuthorized, ReceiveNewChat, ReceiveCreateChat, ReceiveNotifications,
                ReceiveClientChats, ReceiveIncomingMessage, clientVars
        <3> QED
            BY <1>2, <3>1
    <2> QED
        BY <1>3, <1>4, <2>1
<1>6. ASSUME NEW p \in Clients,
             \/ StartClient(p) \/ QuitClient(p) \/ OrphanCrash(p) \/ AcceptConnection(p)
             \/ UseAccount(p) \/ UsePane(p) \/ UseBox(p)
      PROVE  UNCHANGED config
    BY <1>6 DEF StartClient, Start, QuitClient, OrphanCrash, EndClient, CloseClient,
        AcceptConnection, UseAccount, SwitchPage, RequestRegister, RequestAuthorize,
        RequestLogout, RequestChangeIdentity, UsePane, RequestToCreateChat, PopUp, SelectChat,
        SendText, SendLine, UseBox, FetchAllNotifications, OnClick, AnswerInvite, Answer,
        AnswerOrphan, clientVars
<1>7. ASSUME HaltServer \/ RestartServer \/ RunServer \/ UNCHANGED vars PROVE UNCHANGED config
    BY <1>7 DEF HaltServer, RestartServer, RunServer, vars, clientVars
<1> HIDE DEF Kept1, Given
<1> QED
    BY <1>2, <1>5, <1>6, <1>7 DEF Next

\* Nobody is told a name: those who have a session do not ask, and a process that has
\* just started has none.
LEMMA NobodyIsNamedStep ==
    ASSUME TypeInv, KnownByIdentity, Calm, SeatsAreKept, NobodyIsNamed, AskedInSession,
           OnlyStartsAsk, [Next]_vars
    PROVE  NobodyIsNamed'
<1> SUFFICES ASSUME NEW q \in Clients, NEW k \in DOMAIN replies'[q], Names(replies'[q][k])
             PROVE  FALSE
    BY DEF NobodyIsNamed, Names
<1>1. CASE JustSent(replies'[q][k], q)
    <2>1. PICK p \in Clients : /\ Reads(p)
                               /\ Current(p).body.kind \in {"Connect", "ChangeName", "Authorize"}
                               /\ \E s \in sessions' : s.device = p
        BY <1>1 DEF JustSent, TellingKinds, Names
    <2>2. 1 \in DOMAIN requests[p] /\ Current(p) = requests[p][1]
        BY <2>1, CurrentIsFirst DEF TypeInv, TypeOK
    <2>3. LoggedIn[p] # NoId
        BY <2>1, SessionsKept DEF SeatsAreKept, OpeningSessions
    <2>4. Current(p).from = LoggedIn[p] /\ Current(p).from \in TempIds
        BY <2>1, <2>2, <2>3 DEF AskedInSession, OnlyStartsAsk
    <2>5. LoggedIn[p] \in Logins
        BY <2>3, SystemAssumption
    <2> QED
        BY <2>4, <2>5, IdsAssumption
<1>2. CASE ~JustSent(replies'[q][k], q)
    BY <1>2, CalmReplies DEF NobodyIsNamed
<1> QED
    BY <1>1, <1>2

LEMMA NobodyRenamed ==
    ASSUME TypeInv, NobodyIsNamed, NEW q \in Clients
    PROVE  ~Renamed(q)
BY ReceivedIsFirst DEF Renamed, NobodyIsNamed, Names, TypeInv, TypeOK

LEMMA SeatsAreKeptStep ==
    ASSUME TypeInv, Calm, NamesFollow, SeatsAreKept, NobodyIsNamed, AskedInSession,
           OnlyStartsAsk, [Next]_vars
    PROVE  SeatsAreKept'
<1>1. sessions' = OpeningSessions
    BY SessionsKept DEF SeatsAreKept
<1>2. ASSUME NEW q \in Clients, LoggedIn[q] = NoId PROVE identity'[q] \notin Logins
    <2>1. identity'[q] = identity[q] \/ identity'[q] \in TempIds
        BY CalmQueue, NobodyRenamed DEF FreshTempIds
    <2> QED
        BY <1>2, <2>1, IdsAssumption DEF SeatsAreKept
<1>3. ASSUME NEW q \in Clients, LoggedIn[q] # NoId
      PROVE  identity'[q] = LoggedIn[q] /\ Admitted(q)' /\ config'[q].session = Session[q]
    <2>1. identity[q] = LoggedIn[q] /\ Admitted(q) /\ config[q].session = Session[q]
        BY <1>3 DEF SeatsAreKept
    <2>2. identity'[q] = LoggedIn[q] /\ Admitted(q)'
        BY <2>1, CalmQueue, NobodyRenamed
    <2>3. ~(Receives(q, "Authorize") /\ Received(q).session # 0)
        <3> SUFFICES ASSUME Receives(q, "Authorize"), Received(q).session # 0 PROVE FALSE
            OBVIOUS
        <3>1. 1 \in DOMAIN replies[q] /\ Opens(replies[q][1])
            BY ReceivedIsFirst DEF Opens, TypeInv, TypeOK
        <3>2. 1 + 1 \in DOMAIN replies[q] /\ Names(replies[q][1 + 1])
            BY <3>1 DEF NamesFollow
        <3> QED
            BY <3>2 DEF NobodyIsNamed
    <2> QED
        BY <2>1, <2>2, <2>3, ConfigKept
<1> QED
    BY <1>1, <1>2, <1>3 DEF SeatsAreKept, OpeningSessions

LEMMA AskedInSessionStep ==
    ASSUME TypeInv, Calm, SeatsAreKept, NobodyIsNamed, AskedInSession, [Next]_vars,
           spent'["logout"] = 0
    PROVE  AskedInSession'
<1> SUFFICES ASSUME NEW q \in Clients, LoggedIn[q] # NoId, NEW k \in DOMAIN requests'[q]
             PROVE  /\ requests'[q][k].from = LoggedIn[q]
                    /\ requests'[q][k].session = Session[q]
                    /\ requests'[q][k].body.kind # "Logout"
    BY DEF AskedInSession
<1> DEFINE Plain(r) == r.from = LoggedIn[q] /\ r.session = Session[q] /\ r.body.kind # "Logout"
<1>1. identity[q] = LoggedIn[q] /\ Running(q) /\ config[q].session = Session[q]
    BY DEF SeatsAreKept, Admitted
<1>2. requests[q] \in Seq(Requests) /\ \A i \in DOMAIN requests[q] : Plain(requests[q][i])
    BY DEF AskedInSession, TypeInv, TypeOK, WireTypeOK
<1>3. CASE requests'[q] = Tail(requests[q]) /\ Reads(q)
    <2>1. requests[q] # <<>>
        BY <1>3 DEF Reads, Readable
    <2>2. k + 1 \in DOMAIN requests[q] /\ requests'[q][k] = requests[q][k + 1]
        BY <1>2, <1>3, <2>1, HeadTailProperties, LenProperties, EmptySeq
    <2> QED
        BY <1>2, <2>2
<1>4. ASSUME NEW b \in RequestBodies, requests'[q] = Append(requests[q], Asked(q, b)),
             b.kind # "Logout"
      PROVE  Plain(requests'[q][k])
    <2> DEFINE r == Asked(q, b)
    <2>1. Plain(r)
        BY <1>1, <1>4 DEF Asked
    <2>2. r \in Requests
        BY <1>1, <1>4 DEF Asked, Requests, Running, TypeInv, TypeOK, WireTypeOK, ClientTypeOK
    <2> HIDE DEF r, Plain
    <2>3. requests'[q] = Append(requests[q], r)
        BY <1>4 DEF r
    <2> QED
        BY <1>2, <2>1, <2>2, <2>3, AppendProperties, LenProperties
<1>5. CASE requests'[q] = requests[q]
    BY <1>2, <1>5
<1>6. \/ requests'[q] = requests[q]
      \/ Reads(q) /\ requests'[q] = Tail(requests[q])
      \/ \E b \in RequestBodies : requests'[q] = Append(requests[q], Asked(q, b)) /\ b.kind # "Logout"
    BY <1>1, CalmRequests, NobodyRenamed
<1> HIDE DEF Plain
<1>7. Plain(requests'[q][k])
    BY <1>3, <1>4, <1>5, <1>6 DEF Plain
<1> QED
    BY <1>7 DEF Plain

\* The box shows all that a list has.
LEMMA SetToSeqHasAll ==
    ASSUME NEW S, IsFiniteSet(S), NEW x \in S
    PROVE  \E i \in DOMAIN SetToSeq(S) : SetToSeq(S)[i] = x
<1> DEFINE n == Cardinality(S)
<1>1. n \in Nat /\ ExistsBijection(1 .. n, S)
    BY FS_CardinalityType
<1>2. \E f \in [1 .. n -> S] : IsInjective(f)
    BY <1>1 DEF ExistsBijection, Bijection, Injection
<1>3. SetToSeq(S) \in [1 .. n -> S] /\ IsInjective(SetToSeq(S))
    BY <1>2 DEF SetToSeq
<1>4. SetToSeq(S) \in Injection(1 .. n, S)
    BY <1>3 DEF Injection
<1>5. Cardinality(1 .. n) = n
    BY <1>1, FS_Interval
<1> HIDE DEF n
<1>6. Cardinality(1 .. n) = Cardinality(S)
    BY <1>5 DEF n
<1>7. SetToSeq(S) \in Surjection(1 .. n, S)
    BY <1>4, <1>6, FS_Injection
<1> QED
    BY <1>3, <1>7 DEF Surjection

LEMMA ListIsShown ==
    ASSUME TypeInv, NEW q \in Clients, ReceiveNotifications(q), NEW v \in Received(q).invites
    PROVE  InBox(q, v.nid)'
<1> DEFINE I    == Received(q).invites
           list == {Entry(w) : w \in I}
           f    == [w \in I |-> Entry(w)]
<1>1. Receives(q, "Notifications") /\ notices'[q] = SetToSeq(list)
    BY DEF ReceiveNotifications, TypeInv, TypeOK, BoxTypeOK
<1>2. IsFiniteSet(I)
    BY <1>1, HeadReplyTyped, ReplyFields DEF Receives, Received, TypeInv, TypeOK
<1>3. f \in Surjection(I, list)
    BY DEF Surjection
<1> HIDE DEF f
<1>4. IsFiniteSet(list)
    BY <1>2, <1>3, FS_Surjection
<1>5. Entry(v) \in list /\ Entry(v).nid = v.nid
    BY DEF Entry
<1> HIDE DEF list
<1>6. PICK i \in DOMAIN SetToSeq(list) : SetToSeq(list)[i] = Entry(v)
    BY <1>4, <1>5, SetToSeqHasAll
<1> QED
    BY <1>1, <1>5, <1>6 DEF InBox

\* A button of the window has just answered invitation n.
JustAnswered(q, n) ==
    \E b \in RequestBodies :
        /\ b.kind \in AnswerKinds /\ b.nid = n
        /\ requests'[q] = Append(requests[q], Asked(q, b))

LEMMA UseBoxLeaves ==
    ASSUME TypeInv, NEW q \in Clients, UseBox(q), NEW n, InBox(q, n)
    PROVE  InBox(q, n)' \/ JustAnswered(q, n)
<1>1. /\ notices \in [Clients -> Seq(Entries)] /\ notices[q] \in Seq(Entries)
      /\ \A i \in DOMAIN notices[q] : notices[q][i] \in Entries
    <2>1. notices \in [Clients -> Seq(Entries)]
        BY DEF TypeInv, TypeOK, BoxTypeOK
    <2> QED
        BY <2>1, ElementOfSeq, LenProperties
<1>2. CASE FetchAllNotifications(q) \/ AnswerOrphan(q)
    BY <1>2 DEF FetchAllNotifications, AnswerOrphan, boxVars, InBox
<1>3. ASSUME NEW j \in DOMAIN notices[q], OnClick(q, j) PROVE InBox(q, n)'
    <2>1. notices'[q] = [notices[q] EXCEPT ![j] = [notices[q][j] EXCEPT !.open = @ + 1]]
        BY <1>1, <1>3 DEF OnClick
    <2>2. [notices[q][j] EXCEPT !.open = @ + 1].nid = notices[q][j].nid
        BY <1>1 DEF Entries
    <2> QED
        BY <2>1, <2>2 DEF InBox
<1>4. ASSUME NEW j \in DOMAIN notices[q], NEW accept \in BOOLEAN, AnswerInvite(q, j, accept)
      PROVE  InBox(q, n)' \/ JustAnswered(q, n)
    <2>1. notices'[q] = RemoveAt(notices[q], j)
        BY <1>1, <1>4 DEF AnswerInvite, Answer
    <2>2. PICK i \in DOMAIN notices[q] : notices[q][i].nid = n
        BY DEF InBox
    <2>3. CASE i = j
        <3> DEFINE b == [kind |-> IF accept THEN "AcceptCreateChat" ELSE "DeclineCreateChat",
                         nid |-> notices[q][j].nid, chat |-> notices[q][j].chat]
        <3>1. notices[q][j].nid \in Nat /\ notices[q][j].chat \in Nat
            BY <1>1 DEF Entries
        <3>2. b \in RequestBodies /\ b.kind \in AnswerKinds /\ b.nid = n
            BY <2>2, <2>3, <3>1 DEF RequestBodies, AnswerKinds
        <3>3. SendRequest(q, b)
            BY <1>4 DEF AnswerInvite, Answer
        <3> HIDE DEF b
        <3>4. requests'[q] = Append(requests[q], Asked(q, b))
            BY <3>3 DEF SendRequest, Post, Asked, TypeInv, TypeOK, WireTypeOK
        <3> QED
            BY <3>2, <3>4 DEF JustAnswered
    <2>4. CASE i # j
        <3> DEFINE r == RemoveAt(notices[q], j)
                   l == Len(notices[q])
        <3>1. /\ DOMAIN r = 1 .. l - 1 /\ l \in Nat /\ j \in 1 .. l /\ i \in 1 .. l
              /\ \A k \in DOMAIN r : r[k] = IF k < j THEN notices[q][k] ELSE notices[q][k + 1]
            BY <1>1, RemoveAtPlaces, LenProperties
        <3> HIDE DEF r, l
        <3>2. CASE i < j
            <4>1. i \in DOMAIN r /\ r[i] = notices[q][i]
                BY <3>1, <3>2
            <4> QED
                BY <2>1, <2>2, <4>1 DEF InBox, r
        <3>3. CASE i > j
            <4>1. i - 1 \in DOMAIN r /\ r[i - 1] = notices[q][i]
                BY <3>1, <3>3
            <4> QED
                BY <2>1, <2>2, <4>1 DEF InBox, r
        <3> QED
            BY <2>4, <3>1, <3>2, <3>3
    <2> QED
        BY <2>3, <2>4
<1> QED
    BY <1>2, <1>3, <1>4 DEF UseBox

\* An invitation leaves the box when it is answered or a list replaces the box.
LEMMA BoxKeeps ==
    ASSUME TypeInv, Calm, [Next]_vars, NEW q \in Clients, NEW n, InBox(q, n)
    PROVE  InBox(q, n)' \/ JustAnswered(q, n) \/ ReceiveNotifications(q)
<1>1. notices \in [Clients -> Seq(Entries)]
    BY DEF TypeInv, TypeOK, BoxTypeOK
<1>2. ASSUME notices'[q] = notices[q] PROVE InBox(q, n)'
    BY <1>2 DEF InBox
<1>3. CASE ReceiveCreateChat(q)
    BY <1>3, LiveEntry DEF InBox
<1>4. ASSUME NEW p \in Clients, p # q, UseBox(p) \/ ReceiveCreateChat(p) \/ ReceiveNotifications(p)
      PROVE  notices'[q] = notices[q]
    BY <1>1, <1>4 DEF UseBox, FetchAllNotifications, OnClick, AnswerInvite, Answer, AnswerOrphan,
        boxVars, ReceiveCreateChat, ReceiveNotifications
<1>5. ASSUME NEW p \in Clients,
             \/ StartClient(p) \/ AcceptConnection(p) \/ UseAccount(p) \/ UsePane(p)
             \/ Receive(p) /\ UNCHANGED boxVars
      PROVE  notices'[q] = notices[q]
    BY <1>5 DEF StartClient, AcceptConnection, UseAccount, UsePane, boxVars
<1>6. ASSUME RunServer \/ UNCHANGED vars
      PROVE  notices'[q] = notices[q]
    BY <1>6 DEF RunServer, vars, boxVars
<1> QED
    BY <1>2, <1>3, <1>4, <1>5, <1>6, UseBoxLeaves DEF Next, Receive, Calm

-----------------------------------------------------------------------------
OpenFor(n, u) ==
    n \in DOMAIN notifications /\ notifications[n].to = u /\ ~notifications[n].checked

Arrives(p, k, n) == replies[p][k].kind = "CreateChat" /\ replies[p][k].invite.nid = n
IsList(p, k)     == replies[p][k].kind = "Notifications"
Lists(p, k, n)   == \E i \in replies[p][k].invites : i.nid = n

\* Invitation n is on its way to p, in the box or being answered.
Reaches(p, n) ==
    \/ InBox(p, n)
    \/ AnswerPending(p, n)
    \/ \E k \in DOMAIN replies[p] : Arrives(p, k, n) \/ (IsList(p, k) /\ Lists(p, k, n))

\* No list on its way to p takes n out of the box for good.
SurvivesLists(p, n) ==
    \A k \in DOMAIN replies[p] :
        IsList(p, k) /\ ~Lists(p, k, n) =>
            \E j \in DOMAIN replies[p] : j > k /\ Arrives(p, j, n)

\* A handler's last step is due until it is done.
LEMMA CheckWaits ==
    ASSUME Calm, [Next]_vars, job.at = "answered"
    PROVE  job' = job \/ SetNotificationChecked
<1>1. \A p \in Clients : ~Reads(p)
    BY DEF Reads, Idle
<1>2. ASSUME NEW p \in Clients,
             \/ RefuseWithoutSession(p) \/ HandleConnection(p) \/ HandleRegister(p)
             \/ HandleAuthorize(p) \/ HandleLogout(p) \/ PrepareNewChatSession(p)
             \/ HandleResponseForInvite(p) \/ HandleClientChatsInfoRequest(p)
             \/ HandleClientNotifications(p) \/ RefuseMessage(p) \/ HandleSendMessage(p)
      PROVE  FALSE
    BY <1>1, <1>2 DEF RefuseWithoutSession, HandleConnection, HandleRegister, HandleAuthorize,
        HandleLogout, PrepareNewChatSession, HandleResponseForInvite,
        HandleClientChatsInfoRequest, HandleClientNotifications, RefuseMessage,
        HandleSendMessage, Serves
<1>3. ~FinishNewChat /\ ~DispatchMessage /\ \A u \in Logins : ~AskClient(u)
    BY DEF FinishNewChat, DispatchMessage, AskClient
<1>4. CASE RunServer
    BY <1>2, <1>3, <1>4 DEF RunServer, ServerStep, Calm
<1>5. CASE ~RunServer
    BY <1>5 DEF Calm, Next, StartClient, AcceptConnection, UseAccount, UsePane, UseBox, Receive,
        vars, serverVars
<1> QED
    BY <1>4, <1>5

\* An answer that is taken, and carries a session, is handled.
LEMMA AnswerIsHandled ==
    ASSUME Calm, ServerStep, NEW p \in Clients, requests \in [Clients -> Seq(Requests)],
           requests'[p] # requests[p], Entitled(p), Current(p).body.kind \in AnswerKinds
    PROVE  job' = [at |-> "answered", nid |-> Current(p).body.nid]
<1>1. ASSUME NEW q \in Clients, Take(q) PROVE q = p
    BY <1>1 DEF Take, Taken
<1>2. ASSUME NEW q \in Clients,
             \/ RefuseWithoutSession(q) \/ HandleConnection(q) \/ HandleRegister(q)
             \/ HandleAuthorize(q) \/ HandleLogout(q) \/ PrepareNewChatSession(q)
             \/ HandleResponseForInvite(q) \/ HandleClientChatsInfoRequest(q)
             \/ HandleClientNotifications(q) \/ RefuseMessage(q) \/ HandleSendMessage(q)
      PROVE  q = p
    BY <1>1, <1>2 DEF RefuseWithoutSession, HandleConnection, HandleRegister, HandleAuthorize,
        HandleLogout, PrepareNewChatSession, HandleResponseForInvite,
        HandleClientChatsInfoRequest, HandleClientNotifications, RefuseMessage,
        HandleSendMessage
<1>3. /\ ~RefuseWithoutSession(p) /\ ~HandleConnection(p) /\ ~HandleRegister(p)
      /\ ~HandleAuthorize(p) /\ ~HandleLogout(p) /\ ~PrepareNewChatSession(p)
      /\ ~HandleClientChatsInfoRequest(p)
      /\ ~HandleClientNotifications(p) /\ ~RefuseMessage(p) /\ ~HandleSendMessage(p)
    BY DEF AnswerKinds, RefuseWithoutSession, HandleConnection, HandleRegister, HandleAuthorize,
        HandleLogout, PrepareNewChatSession,
        HandleClientChatsInfoRequest, HandleClientNotifications, RefuseMessage,
        HandleSendMessage, Serves
<1>4. ~FinishNewChat /\ ~DispatchMessage /\ ~SetNotificationChecked
      /\ \A u \in Logins : ~AskClient(u)
    BY DEF FinishNewChat, DispatchMessage, SetNotificationChecked, AskClient, wireVars
<1>5. HandleResponseForInvite(p)
    BY <1>2, <1>3, <1>4 DEF ServerStep, Calm
<1> QED
    BY <1>5 DEF HandleResponseForInvite

\* An answer stays pending until its invitation is checked off.
LEMMA PendingStep ==
    ASSUME TypeInv, Calm, SeatsAreKept, NobodyIsNamed, AskedInSession, [Next]_vars,
           NEW p \in Clients, LoggedIn[p] # NoId, NEW n, AnswerPending(p, n),
           ~SetNotificationChecked \/ job.nid # n
    PROVE  AnswerPending(p, n)'
<1>1. requests \in [Clients -> Seq(Requests)] /\ WireTypeOK
    BY DEF TypeInv, TypeOK, WireTypeOK
<1>2. CASE job.at = "answered" /\ job.nid = n
    BY <1>2, CheckWaits DEF AnswerPending
<1>3. ASSUME NEW k \in DOMAIN requests[p],
             requests[p][k].body.kind \in AnswerKinds, requests[p][k].body.nid = n
      PROVE  AnswerPending(p, n)'
    <2> DEFINE m == Len(requests[p])
    <2>1. m \in Nat /\ DOMAIN requests[p] = 1 .. m /\ k \in 1 .. m /\ requests[p] \in Seq(Requests)
        BY <1>1, <1>3, LenProperties
    <2> HIDE DEF m
    <2>2. ASSUME NEW j \in DOMAIN requests'[p], requests'[p][j] = requests[p][k]
          PROVE  AnswerPending(p, n)'
        BY <1>3, <2>2 DEF AnswerPending, AnswerKinds
    <2>3. ASSUME NEW b \in RequestBodies, requests'[p] = Append(requests[p], Asked(p, b))
          PROVE  AnswerPending(p, n)'
        <3> DEFINE r == Asked(p, b)
        <3>1. requests[p] \in Seq(Requests \cup {r})
            BY <2>1, ElementOfSeq, SeqDef
        <3> HIDE DEF r
        <3>2. requests'[p] = Append(requests[p], r)
            BY <2>3 DEF r
        <3>3. k \in DOMAIN requests'[p] /\ requests'[p][k] = requests[p][k]
            BY <2>1, <3>1, <3>2, AppendProperties, LenProperties
        <3> QED
            BY <2>2, <3>3
    <2>4. CASE RunServer /\ Reads(p) /\ requests'[p] = Tail(requests[p])
        <3>1. requests[p] # <<>>
            BY <2>4 DEF Reads, Readable
        <3>2. /\ \A j \in 1 .. m - 1 : j \in DOMAIN requests'[p] /\ requests'[p][j] = requests[p][j + 1]
              /\ Len(requests'[p]) = m - 1
            BY <2>1, <2>4, <3>1, HeadTailProperties, LenProperties, EmptySeq DEF m
        <3>3. CASE k = 1
            <4>1. Current(p) = requests[p][1]
                BY <1>1, <2>4, CurrentIsFirst
            <4>2. Entitled(p)
                <5>1. Current(p).from = LoggedIn[p] /\ Current(p).session = Session[p]
                    BY <1>3, <3>3, <4>1 DEF AskedInSession
                <5> QED
                    BY <5>1 DEF Entitled, DoesSessionExist, SeatsAreKept, OpeningSessions
            <4>3. requests'[p] # requests[p]
                BY <2>1, <3>2 DEF m
            <4>4. job' = [at |-> "answered", nid |-> n]
                BY <1>1, <1>3, <2>4, <3>3, <4>1, <4>2, <4>3, AnswerIsHandled DEF RunServer
            <4> QED
                BY <4>4 DEF AnswerPending
        <3>4. CASE k # 1
            <4>1. k - 1 \in 1 .. m - 1 /\ k - 1 + 1 = k
                BY <2>1, <3>4
            <4> QED
                BY <2>2, <3>2, <4>1
        <3> QED
            BY <3>3, <3>4
    <2>5. CASE requests'[p] = requests[p]
        BY <1>3, <2>2, <2>5
    <2>6. Running(p) /\ ~Renamed(p)
        BY NobodyRenamed DEF SeatsAreKept, Admitted
    <2> QED
        BY <2>3, <2>4, <2>5, <2>6, CalmRequests
<1> QED
    BY <1>2, <1>3 DEF AnswerPending, AnswerKinds

LEMMA AnsweredIsPending ==
    ASSUME TypeInv, NEW p \in Clients, NEW n, JustAnswered(p, n)
    PROVE  AnswerPending(p, n)'
<1>1. PICK b \in RequestBodies : /\ b.kind \in AnswerKinds /\ b.nid = n
                                 /\ requests'[p] = Append(requests[p], Asked(p, b))
    BY DEF JustAnswered
<1> DEFINE r == Asked(p, b)
           m == Len(requests[p])
<1>2. r.body = b
    BY DEF Asked
<1>3. requests[p] \in Seq(Requests) /\ m \in Nat /\ DOMAIN requests[p] = 1 .. m
    BY LenProperties DEF TypeInv, TypeOK, WireTypeOK
<1> HIDE DEF r
<1>4. requests[p] \in Seq(Requests \cup {r})
    BY <1>3, ElementOfSeq, SeqDef
<1>5. m + 1 \in DOMAIN requests'[p] /\ requests'[p][m + 1] = r
    BY <1>1, <1>3, <1>4, AppendProperties, LenProperties DEF r
<1> QED
    BY <1>1, <1>2, <1>5 DEF AnswerPending, AnswerKinds

\* A new invitation goes to the end of the queue of its user.
LEMMA LiveInvite ==
    ASSUME TypeInv, ~CoarseClock, NEW u \in Logins, AskClient(u), u \in users,
           NEW p \in Clients, peer[p] = u
    PROVE  LET k == Len(replies[p]) + 1 IN
           /\ k \in DOMAIN replies'[p] /\ DOMAIN replies'[p] = 1 .. k /\ k \in Nat
           /\ replies'[p][k].kind = "CreateChat"
           /\ replies'[p][k].invite.nid = Len(notifications) + 1
<1> DEFINE row == [from |-> job.creator, to |-> u, chat |-> job.chat, checked |-> FALSE]
           n   == Len(replies[p])
<1>1. notifications' = Append(notifications, row) /\ newestNotifications' = {Len(notifications')}
    BY DEF AskClient, NewestAfter
<1>2. Len(notifications') = Len(notifications) + 1
    <2>1. notifications \in Seq(Notifications) /\ row \in Notifications
        BY AskingJob DEF TypeInv, TypeOK, ServerTypeOK, Notifications, AskClient
    <2> HIDE DEF row
    <2> QED
        BY <1>1, <2>1, AppendProperties
<1> DEFINE m == [kind |-> "CreateChat", invite |->
                    [nid |-> Len(notifications) + 1, author |-> job.creator, chat |-> job.chat]]
<1>3. Dispatch({u}, <<m>>)
    BY <1>1, <1>2 DEF AskClient
<1>4. m.kind = "CreateChat" /\ m.invite.nid = Len(notifications) + 1
    OBVIOUS
<1> HIDE DEF m
<1>5. replies'[p] = replies[p] \o <<m>>
    BY <1>3 DEF Dispatch
<1>6. replies[p] \in Seq(Replies) /\ n \in Nat /\ DOMAIN replies[p] = 1 .. n
    BY LenProperties DEF TypeInv, TypeOK, WireTypeOK
<1>7. replies[p] \in Seq(Replies \cup {m}) /\ <<m>> \in Seq(Replies \cup {m}) /\ Len(<<m>>) = 1
    BY <1>6, ElementOfSeq, SeqDef
<1>8. /\ replies[p] \o <<m>> \in Seq(Replies \cup {m})
      /\ Len(replies[p] \o <<m>>) = n + 1
      /\ (replies[p] \o <<m>>)[n + 1] = <<m>>[1]
    BY <1>6, <1>7, ConcatProperties
<1>9. DOMAIN replies'[p] = 1 .. n + 1 /\ replies'[p][n + 1] = m
    BY <1>5, <1>6, <1>8, LenProperties
<1> QED
    BY <1>4, <1>6, <1>9

\* What is to come for p in a calm step: each message stays, moves up, or is received.
LEMMA ReachesStep ==
    ASSUME TypeInv, KnownByIdentity, Calm, SeatsAreKept, NobodyIsNamed, AskedInSession,
           [Next]_vars, NEW p \in Clients, LoggedIn[p] # NoId, NEW n,
           Reaches(p, n), SurvivesLists(p, n),
           ~SetNotificationChecked \/ job.nid # n
    PROVE  Reaches(p, n)'
<1>1. WireTypeOK /\ ~Renamed(p)
    BY NobodyRenamed DEF TypeInv, TypeOK
<1>2. CASE AnswerPending(p, n)
    BY <1>2, PendingStep DEF Reaches
<1>3. ASSUME Receives(p, "Notifications"), ReceiveNotifications(p), ~Lists(p, 1, n)
      PROVE  Reaches(p, n)'
    <2>1. 1 \in DOMAIN replies[p] /\ IsList(p, 1)
        BY <1>1, <1>3, ReceivedIsFirst DEF IsList
    <2>2. PICK j \in DOMAIN replies[p] : j > 1 /\ Arrives(p, j, n)
        BY <1>3, <2>1 DEF SurvivesLists
    <2>3. replies[p] # <<>> /\ replies'[p] = Tail(replies[p])
        BY <1>1, <1>3 DEF Receives, ReceiveNotifications, Consume, WireTypeOK
    <2>4. j - 1 \in DOMAIN replies'[p] /\ replies'[p][j - 1] = replies[p][j]
        BY <1>1, <2>2, <2>3, RestMovesUp
    <2> QED
        BY <2>2, <2>4 DEF Reaches, Arrives
<1>4. CASE InBox(p, n)
    <2>1. CASE ReceiveNotifications(p)
        <3>1. Receives(p, "Notifications") /\ Received(p) = replies[p][1]
            BY <1>1, <2>1, ReceivedIsFirst DEF ReceiveNotifications
        <3>2. CASE Lists(p, 1, n)
            BY <2>1, <3>1, <3>2, ListIsShown DEF Lists, Reaches
        <3> QED
            BY <1>3, <2>1, <3>1, <3>2
    <2>2. CASE ~ReceiveNotifications(p)
        BY <1>4, <2>2, BoxKeeps, AnsweredIsPending DEF Reaches
    <2> QED
        BY <2>1, <2>2
<1>5. ASSUME NEW k \in DOMAIN replies[p], Arrives(p, k, n) \/ (IsList(p, k) /\ Lists(p, k, n))
      PROVE  Reaches(p, n)'
    <2>1. ASSUME NEW j \in DOMAIN replies'[p], replies'[p][j] = replies[p][k]
          PROVE  Reaches(p, n)'
        BY <1>5, <2>1 DEF Reaches, Arrives, IsList, Lists
    <2>2. CASE QueueStays(p)
        BY <2>1, <2>2 DEF QueueStays
    <2>3. CASE Receipt(p) /\ k # 1
        <3>1. 1 < k
            BY <1>1, <2>3, LenProperties DEF WireTypeOK
        <3> QED
            BY <1>1, <2>1, <2>3, <3>1, RestMovesUp DEF Receipt
    <2>4. CASE Receipt(p) /\ k = 1
        <3>1. Received(p) = replies[p][1] /\ Receive(p)
            BY <1>1, <2>4, QueueMovesUp DEF Receipt
        <3>2. CASE Arrives(p, 1, n)
            <4>1. Received(p).kind = "CreateChat" /\ Received(p).invite.nid = n
                BY <3>1, <3>2 DEF Arrives
            <4>2. ReceiveCreateChat(p)
                BY <3>1, <4>1 DEF Receive, Receives, Received, ReceiveRegister, ReceiveAuthorize,
                    ReceiveAlreadyAuthorized, ReceiveNotAuthorized, ReceiveNewClientName,
                    ReceiveNewChat, ReceiveNotifications, ReceiveClientChats,
                    ReceiveIncomingMessage
            <4>3. LET m == Len(notices[p]) IN
                  m + 1 \in DOMAIN notices'[p] /\ notices'[p][m + 1].nid = n
                BY <4>1, <4>2, LiveEntry
            <4> QED
                BY <4>3 DEF Reaches, InBox
        <3>3. CASE IsList(p, 1) /\ Lists(p, 1, n)
            <4>1. Received(p).kind = "Notifications"
                BY <3>1, <3>3 DEF IsList
            <4>2. ReceiveNotifications(p)
                BY <3>1, <4>1 DEF Receive, Receives, Received, ReceiveRegister, ReceiveAuthorize,
                    ReceiveAlreadyAuthorized, ReceiveNotAuthorized, ReceiveNewClientName,
                    ReceiveNewChat, ReceiveCreateChat, ReceiveClientChats,
                    ReceiveIncomingMessage
            <4> QED
                BY <3>1, <3>3, <4>2, ListIsShown DEF Lists, Reaches
        <3> QED
            BY <1>5, <2>4, <3>2, <3>3
    <2> QED
        BY <1>1, <2>2, <2>3, <2>4, CalmQueue
<1> QED
    BY <1>2, <1>4, <1>5 DEF Reaches

\* A list that has just been sent misses no open invitation, and those before it stay
\* in front of the live invitations.
LEMMA SurvivesListsStep ==
    ASSUME TypeInv, KnownByIdentity, Calm, NobodyIsNamed, [Next]_vars,
           NEW p \in Clients, Admitted(p), NEW n,
           OpenFor(n, identity[p]), SurvivesLists(p, n)
    PROVE  SurvivesLists(p, n)'
<1>1. WireTypeOK
    BY DEF TypeInv, TypeOK
<1> SUFFICES ASSUME NEW k \in DOMAIN replies'[p], IsList(p, k)', ~Lists(p, k, n)'
             PROVE  \E j \in DOMAIN replies'[p] : j > k /\ Arrives(p, j, n)'
    BY DEF SurvivesLists, IsList, Lists, Arrives
<1> DEFINE m == replies'[p][k]
<1>2. m.kind = "Notifications" /\ \A i \in m.invites : i.nid # n
    BY DEF IsList, Lists
<1>3. CASE QueueStays(p) /\ k \in DOMAIN replies[p] /\ m = replies[p][k]
    <2>1. PICK j \in DOMAIN replies[p] : j > k /\ Arrives(p, j, n)
        BY <1>2, <1>3 DEF SurvivesLists, IsList, Lists
    <2> QED
        BY <1>3, <2>1 DEF QueueStays, Arrives
<1>4. CASE JustSent(m, p)
    <2>1. m.invites = GetClientNotifications(identity[p])
        BY <1>2, <1>4 DEF JustSent, TellingKinds, Admitted
    <2>2. [nid |-> n, author |-> notifications[n].from, chat |-> notifications[n].chat] \in m.invites
        BY <2>1 DEF GetClientNotifications, OpenFor
    <2> QED
        BY <1>2, <2>2
<1>5. CASE Receipt(p) /\ k + 1 \in DOMAIN replies[p] /\ m = replies[p][k + 1]
    <2>1. PICK j \in DOMAIN replies[p] : j > k + 1 /\ Arrives(p, j, n)
        BY <1>2, <1>5 DEF SurvivesLists, IsList, Lists
    <2>2. j \in Nat /\ k \in Nat /\ 1 < j /\ j - 1 > k
        BY <1>1, <1>5, <2>1, CalmReplies, LenProperties DEF WireTypeOK
    <2>3. j - 1 \in DOMAIN replies'[p] /\ replies'[p][j - 1] = replies[p][j]
        BY <1>1, <1>5, <2>2, RestMovesUp DEF Receipt
    <2> QED
        BY <2>1, <2>2, <2>3 DEF Arrives
<1> QED
    BY <1>3, <1>4, <1>5, CalmReplies

\* A new invitation reaches its user, and comes after every list.
LEMMA NewReaches ==
    ASSUME TypeInv, TypeInv', ~CoarseClock, NEW p \in Clients, Admitted(p), identity[p] \in Logins,
           AskClient(identity[p]), identity[p] \in users, NEW n, n = Len(notifications) + 1
    PROVE  Reaches(p, n)' /\ SurvivesLists(p, n)'
<1>0. PICK k, m : k = Len(replies[p]) + 1 /\ m = n
    OBVIOUS
<1>1. /\ k \in DOMAIN replies'[p] /\ DOMAIN replies'[p] = 1 .. k /\ k \in Nat
      /\ replies'[p][k].kind = "CreateChat" /\ replies'[p][k].invite.nid = m
    BY <1>0, LiveInvite DEF Admitted
<1>2. Arrives(p, k, m)'
    BY <1>1 DEF Arrives
<1>3. Reaches(p, m)'
    BY <1>1, <1>2 DEF Reaches, Arrives
<1>4. ASSUME NEW i \in DOMAIN replies'[p], IsList(p, i)'
      PROVE  \E j \in DOMAIN replies'[p] : j > i /\ Arrives(p, j, m)'
    <2>1. i # k
        BY <1>1, <1>4 DEF IsList
    <2>2. i \in 1 .. k /\ k > i
        BY <1>1, <2>1
    <2> QED
        BY <1>1, <2>2 DEF Arrives
<1> QED
    BY <1>0, <1>3, <1>4 DEF Reaches, SurvivesLists, IsList, Lists, Arrives

\* An invitation that is open after a step was so before, and has not been checked off,
\* or its user has just been asked.
LEMMA OpenBefore ==
    ASSUME TypeInv, ~CoarseClock, [Next]_vars, NEW n, NEW u, OpenFor(n, u)'
    PROVE  \/ OpenFor(n, u) /\ (~SetNotificationChecked \/ job.nid # n)
           \/ u \in Logins /\ AskClient(u) /\ u \in users /\ n = Len(notifications) + 1
<1>1. /\ DOMAIN notifications = 1 .. Len(notifications) /\ Len(notifications) \in Nat
      /\ \A i \in DOMAIN notifications : notifications[i] \in Notifications
    <2>1. notifications \in Seq(Notifications)
        BY DEF TypeInv, TypeOK, ServerTypeOK
    <2> QED
        BY <2>1, ElementOfSeq, LenProperties
<1>2. CASE SetNotificationChecked
    <2>1. notifications' = [i \in DOMAIN notifications |->
                IF i = job.nid THEN [notifications[i] EXCEPT !.checked = TRUE]
                               ELSE notifications[i]]
        BY <1>2 DEF SetNotificationChecked
    <2>2. n \in DOMAIN notifications
        BY <2>1 DEF OpenFor
    <2>3. n # job.nid
        <3> SUFFICES ASSUME n = job.nid PROVE FALSE
            OBVIOUS
        <3>1. notifications'[n] = [notifications[n] EXCEPT !.checked = TRUE]
            BY <2>1, <2>2
        <3>2. notifications'[n].checked = TRUE
            BY <1>1, <2>2, <3>1 DEF Notifications
        <3> QED
            BY <3>2 DEF OpenFor
    <2> QED
        BY <2>1, <2>2, <2>3 DEF OpenFor
<1>3. CASE ~SetNotificationChecked /\ UNCHANGED notifications
    BY <1>3 DEF OpenFor
<1>4. CASE RowChecked /\ ~SetNotificationChecked
    <2>1. n \in DOMAIN notifications
        BY <1>4 DEF RowChecked, OpenFor
    <2>2. CASE n # job.nid
        BY <1>4, <2>1, <2>2 DEF RowChecked, OpenFor
    <2>3. CASE n = job.nid
        <3>1. notifications'[n] = [notifications[n] EXCEPT !.checked = TRUE]
            BY <1>4, <2>1, <2>3 DEF RowChecked
        <3>2. notifications'[n].checked = TRUE
            BY <1>1, <2>1, <3>1 DEF Notifications
        <3> QED
            BY <3>2 DEF OpenFor
    <2> QED
        BY <2>2, <2>3
<1>5. ASSUME NEW v \in Logins, AskClient(v), v \in users,
             RowAdded([from |-> job.creator, to |-> v, chat |-> job.chat, checked |-> FALSE])
      PROVE  \/ OpenFor(n, u) /\ (~SetNotificationChecked \/ job.nid # n)
             \/ u \in Logins /\ AskClient(u) /\ u \in users /\ n = Len(notifications) + 1
    <2>1. ~SetNotificationChecked
        BY <1>5 DEF SetNotificationChecked, AskClient
    <2>2. CASE n \in DOMAIN notifications
        BY <1>5, <2>1, <2>2 DEF RowAdded, OpenFor
    <2>3. CASE n \notin DOMAIN notifications
        <3>1. n = Len(notifications) + 1
            BY <1>1, <1>5, <2>3 DEF RowAdded, OpenFor
        <3>2. notifications'[n].to = v
            BY <1>5, <3>1 DEF RowAdded
        <3>3. u = v
            BY <3>2 DEF OpenFor
        <3> QED
            BY <1>5, <3>1, <3>3
    <2> QED
        BY <2>2, <2>3
<1> QED
    BY <1>2, <1>3, <1>4, <1>5, RowsAfterStep

NotLost ==
    \A p \in Clients, n \in DOMAIN notifications :
        Admitted(p) /\ OpenFor(n, identity[p]) => Reaches(p, n) /\ SurvivesLists(p, n)

LEMMA NotLostMeans == Undisturbed => (InvitationNotLost <=> NotLost)
BY DEF InvitationNotLost, NotLost, OpenFor, Reaches, SurvivesLists, Arrives, IsList, Lists, InBox

LEMMA NotLostStep ==
    ASSUME TypeInv, TypeInv', KnownByIdentity, ~CoarseClock, Calm, SeatsAreKept, SeatsAreKept',
           NobodyIsNamed, AskedInSession, NotLost, [Next]_vars
    PROVE  NotLost'
<1> SUFFICES ASSUME NEW p \in Clients, NEW n, Admitted(p)', OpenFor(n, identity[p])'
             PROVE  Reaches(p, n)' /\ SurvivesLists(p, n)'
    BY DEF NotLost
<1>1. identity'[p] \in Logins
    <2>1. notifications' \in Seq(Notifications) /\ n \in DOMAIN notifications'
          /\ notifications'[n].to = identity'[p]
        BY DEF OpenFor, TypeInv, TypeOK, ServerTypeOK
    <2>2. notifications'[n] \in Notifications
        BY <2>1, ElementOfSeq, LenProperties
    <2> QED
        BY <2>1, <2>2 DEF Notifications
<1>2. LoggedIn[p] # NoId /\ identity'[p] = LoggedIn[p]
    BY <1>1 DEF SeatsAreKept
<1>3. identity[p] = LoggedIn[p] /\ Admitted(p)
    BY <1>2 DEF SeatsAreKept
<1>4. PICK u : u = identity[p]
    OBVIOUS
<1>5. OpenFor(n, u)'
    BY <1>2, <1>3, <1>4 DEF OpenFor
<1>6. CASE OpenFor(n, u) /\ (~SetNotificationChecked \/ job.nid # n)
    <2>1. Reaches(p, n) /\ SurvivesLists(p, n)
        BY <1>3, <1>4, <1>6 DEF NotLost, OpenFor
    <2> QED
        BY <1>2, <1>3, <1>4, <1>6, <2>1, ReachesStep, SurvivesListsStep
<1>7. CASE u \in Logins /\ AskClient(u) /\ u \in users /\ n = Len(notifications) + 1
    BY <1>3, <1>4, <1>7, NewReaches
<1> QED
    BY <1>5, <1>6, <1>7, OpenBefore

\* What InvitationNotLost says, where the connections and the box are as after the step.
LEMMA NotLostNext ==
    ASSUME NotLost'
    PROVE  InvitationNotLost'
BY DEF InvitationNotLost, NotLost, OpenFor, Reaches, SurvivesLists, Arrives, IsList, Lists, InBox

LEMMA LostStep ==
    ASSUME LostInv, ~MembershipKey, ~CoarseClock, [Next]_vars
    PROVE  LostInv'
<1>1. PageInv' /\ OwnInv'
    BY PageStep, OwnStep DEF LostInv
<1>2. ASSUME Undisturbed', NobodyLeaves'
      PROVE  SeatsAreKept' /\ NobodyIsNamed' /\ AskedInSession' /\ InvitationNotLost'
    <2>1. TypeInv /\ TypeInv' /\ KnownByIdentity /\ DownIsHalted
        BY <1>1 DEF LostInv, PageInv
    <2>2. Calm /\ Undisturbed
        BY <1>2, <2>1, CalmStep DEF Calm
    <2>3. NobodyLeaves /\ spent'["logout"] = 0
        BY <1>2, <2>1, NobodyLeft DEF NobodyLeaves
    <2>4. /\ SeatsAreKept /\ NobodyIsNamed /\ AskedInSession /\ NotLost
          /\ NamesFollow /\ OnlyStartsAsk
        BY <2>2, <2>3, NotLostMeans DEF LostInv, PageInv, OwnInv, UserStays, NobodyLeaves
    <2>5. SeatsAreKept' /\ NobodyIsNamed' /\ AskedInSession'
        BY <2>1, <2>2, <2>3, <2>4, SeatsAreKeptStep, NobodyIsNamedStep, AskedInSessionStep
    <2>6. NotLost'
        BY <2>1, <2>2, <2>4, <2>5, NotLostStep
    <2> QED
        BY <2>5, <2>6, NotLostNext
<1> QED
    BY <1>1, <1>2 DEF LostInv

LEMMA LostInit == Init => LostInv
<1> SUFFICES ASSUME Init PROVE LostInv
    OBVIOUS
<1>1. PageInv /\ OwnInv
    BY PageInit, OwnInit
<1>2. SeatsAreKept
    <2>1. sessions = OpeningSessions
        BY DEF Init, ServerInit, OpeningSessions
    <2>2. ASSUME NEW p \in Clients, LoggedIn[p] = NoId PROVE identity[p] \notin Logins
        BY <2>2, IdsAssumption DEF Init, WireInit
    <2>3. ASSUME NEW p \in Clients, LoggedIn[p] # NoId
          PROVE  identity[p] = LoggedIn[p] /\ Admitted(p) /\ config[p].session = Session[p]
        BY <2>3 DEF Init, WireInit, ClientInit, Admitted, Running
    <2> QED
        BY <2>1, <2>2, <2>3 DEF SeatsAreKept
<1>3. NobodyIsNamed /\ AskedInSession
    BY DEF Init, WireInit, NobodyIsNamed, AskedInSession
<1>4. InvitationNotLost
    BY DEF Init, ServerInit, InvitationNotLost
<1> QED
    BY <1>1, <1>2, <1>3, <1>4 DEF LostInv

\* No invitation is lost, as long as no process ends and those who are logged in
\* stay: while it is open, the table row of HandleNewChat is known to the box of its
\* user, being answered, or on its way, and a list that ProcessAllNotifications will
\* put in place of the box has it, or the live message that brings it again behind.
THEOREM NoInvitationLost ==
    ASSUME CoarseClock = FALSE, MembershipKey = FALSE
    PROVE  Spec => [](NobodyLeaves => InvitationNotLost)
<1>1. LostInv /\ [Next]_vars => LostInv'
    <2>1. ~MembershipKey /\ ~CoarseClock
        OBVIOUS
    <2> QED
        BY <2>1, LostStep
<1>2. LostInv => (NobodyLeaves => InvitationNotLost)
    BY DEF LostInv, InvitationNotLost
<1> QED
    BY LostInit, <1>1, <1>2, PTL DEF Spec
=============================================================================
