-------------------------- MODULE ChatInviteProofs --------------------------
(***************************************************************************)
(* Invitations and their answers: an answer under way, and the handler     *)
(* that serves it, are those of a user; so are the checks in the table and *)
(* the memberships that come of them.                                      *)
(***************************************************************************)
EXTENDS ChatFlowProofs

\* The answer that request r carries to the server.
AnswerOf(r) ==
    [user |-> r.from, nid |-> r.body.nid, chat |-> r.body.chat,
     yes |-> r.body.kind = "AcceptCreateChat"]

\* Answers under way were given by the user they go by.
AnswersGiven ==
    \A p \in Clients : \A k \in DOMAIN requests[p] :
        requests[p][k].body.kind \in AnswerKinds => AnswerOf(requests[p][k]) \in answers

\* So was the one whose notification is about to be checked off.
CheckIsDue == job.at = "answered" => \E a \in answers : a.nid = job.nid

AnswerInv == TypeInv /\ AnswersGiven /\ CheckIsDue /\ CheckedMeansAnswered

-----------------------------------------------------------------------------
\* The history only grows.
LEMMA AnswersGrow ==
    ASSUME [Next]_vars
    PROVE  answers \subseteq answers'
BY DEF Next, StartClient, QuitClient, OrphanCrash, EndClient, AcceptConnection, UseAccount,
       UsePane, UseBox, AnswerInvite, Receive, HaltServer, RestartServer, RunServer, Spend,
       vars, systemVars

LEMMA AnswersGivenKept ==
    ASSUME TypeInv, AnswersGiven, [Next]_vars
    PROVE  AnswersGiven'
<1> SUFFICES ASSUME NEW p \in Clients, NEW k \in DOMAIN requests'[p],
                    requests'[p][k].body.kind \in AnswerKinds
             PROVE  AnswerOf(requests'[p][k]) \in answers'
    BY DEF AnswersGiven, AnswerOf
<1>1. Kept(requests'[p][k], p) \/ MadeByBox(requests'[p][k], p)
    BY RequestFlow DEF AnswersMadeByBox
<1>2. CASE Kept(requests'[p][k], p)
    <2>1. PICK j \in DOMAIN requests[p] :
            requests'[p][k].from = requests[p][j].from /\ requests'[p][k].body = requests[p][j].body
        BY <1>2 DEF Kept
    <2>2. AnswerOf(requests[p][j]) \in answers
        BY <2>1 DEF AnswersGiven
    <2>3. AnswerOf(requests'[p][k]) = AnswerOf(requests[p][j])
        BY <2>1 DEF AnswerOf
    <2> QED
        BY <2>2, <2>3, AnswersGrow
<1>3. CASE MadeByBox(requests'[p][k], p)
    BY <1>3 DEF MadeByBox, AnswerInvite, AnswerOf
<1> QED
    BY <1>1, <1>2, <1>3

\* The answer a handler serves was given by the user behind the request.
LEMMA ServedAnswer ==
    ASSUME TypeInv, AnswersGiven, NEW p \in Clients,
           Serves(p, "AcceptCreateChat") \/ Serves(p, "DeclineCreateChat")
    PROVE  AnswerOf(Current(p)) \in answers
<1>1. requests[p] # <<>> /\ requests[p] \in Seq(Requests)
    BY DEF Serves, Reads, Readable, TypeInv, TypeOK, WireTypeOK
<1>2. 1 \in DOMAIN requests[p] /\ Current(p) = requests[p][1]
    BY <1>1, HeadTailProperties, LenProperties, EmptySeq DEF Current
<1> QED
    BY <1>2 DEF Serves, AnswersGiven, AnswerKinds

\* The handler that is at its last step after a step of the system is the one that
\* was there before, or has just taken an answer.
LEMMA CheckIsDueKept ==
    ASSUME TypeInv, AnswersGiven, CheckIsDue, [Next]_vars
    PROVE  CheckIsDue'
<1> SUFFICES ASSUME job'.at = "answered"
             PROVE  \E a \in answers' : a.nid = job'.nid
    BY DEF CheckIsDue
<1>1. ASSUME UNCHANGED job PROVE \E a \in answers' : a.nid = job'.nid
    BY <1>1, AnswersGrow DEF CheckIsDue
<1>2. ASSUME NEW p \in Clients, HandleResponseForInvite(p)
      PROVE  \E a \in answers' : a.nid = job'.nid
    <2>1. AnswerOf(Current(p)) \in answers
        BY <1>2, ServedAnswer DEF HandleResponseForInvite
    <2>2. job'.nid = Current(p).body.nid /\ AnswerOf(Current(p)).nid = Current(p).body.nid
        BY <1>2 DEF HandleResponseForInvite, AnswerOf
    <2> QED
        BY <2>1, <2>2, AnswersGrow
<1>3. ASSUME NEW p \in Clients, PrepareNewChatSession(p) \/ AcceptFails(p) \/ HandleSendMessage(p)
      PROVE  FALSE
    BY <1>3 DEF PrepareNewChatSession, AcceptFails, HandleSendMessage, GoDown, Idle
<1>4. ASSUME NEW u \in Logins, AskClient(u) PROVE FALSE
    BY <1>4, AskingJob DEF AskClient, TypeInv, TypeOK
<1>5. CASE FinishNewChat \/ FinishNewChatFails \/ SetNotificationChecked \/ DispatchMessage
           \/ HaltServer
    BY <1>5 DEF FinishNewChat, FinishNewChatFails, SetNotificationChecked, DispatchMessage,
                HaltServer, Halt, GoDown, Idle
<1>6. ASSUME NEW p \in Clients,
             \/ RefuseWithoutSession(p) \/ HandleConnection(p) \/ HandleRegister(p)
             \/ HandleAuthorize(p) \/ HandleLogout(p) \/ HandleClientChatsInfoRequest(p)
             \/ HandleClientNotifications(p) \/ RefuseMessage(p)
      PROVE  UNCHANGED job
    BY <1>6 DEF RefuseWithoutSession, HandleConnection, HandleRegister, HandleAuthorize,
        HandleLogout, HandleClientChatsInfoRequest, HandleClientNotifications, RefuseMessage,
        serverVars
<1>7. CASE RunServer
    BY <1>1, <1>2, <1>3, <1>4, <1>5, <1>6, <1>7 DEF RunServer, ServerStep
<1>8. CASE ~RunServer /\ ~HaltServer
    <2>1. UNCHANGED job
        BY <1>8 DEF Next, StartClient, QuitClient, OrphanCrash, EndClient, AcceptConnection,
            UseAccount, UsePane, UseBox, Receive, RestartServer, Restart, vars, serverVars
    <2> QED
        BY <1>1, <2>1
<1> QED
    BY <1>5, <1>7, <1>8

-----------------------------------------------------------------------------
(***************************************************************************)
(* The table of notifications.                                             *)
(***************************************************************************)
\* What a step does to it: nothing, a new open row at the end (AskClient), or the
\* check on the row of the answer that was taken (SetNotificationChecked).
RowAdded(row) ==
    /\ DOMAIN notifications' = 1 .. Len(notifications) + 1
    /\ \A n \in DOMAIN notifications : notifications'[n] = notifications[n]
    /\ notifications'[Len(notifications) + 1] = row

RowChecked ==
    /\ job.at = "answered"
    /\ DOMAIN notifications' = DOMAIN notifications
    /\ \A n \in DOMAIN notifications :
         IF n = job.nid THEN notifications'[n] = [notifications[n] EXCEPT !.checked = TRUE]
                        ELSE notifications'[n] = notifications[n]

LEMMA AskClientRow ==
    ASSUME TypeInv, NEW u \in Logins, AskClient(u), u \in users
    PROVE  RowAdded([from |-> job.creator, to |-> u, chat |-> job.chat, checked |-> FALSE])
<1> DEFINE row == [from |-> job.creator, to |-> u, chat |-> job.chat, checked |-> FALSE]
<1>1. job.creator \in Logins /\ job.chat \in Nat
    BY AskingJob DEF AskClient, TypeInv, TypeOK
<1>2. row \in Notifications /\ notifications \in Seq(Notifications)
    BY <1>1 DEF Notifications, TypeInv, TypeOK, ServerTypeOK
<1>3. notifications' = Append(notifications, row)
    BY DEF AskClient
<1> HIDE DEF row
<1>4. RowAdded(row)
    BY <1>2, <1>3, AppendProperties, LenProperties DEF RowAdded
<1> QED
    BY <1>4 DEF row

LEMMA RowsAfterStep ==
    ASSUME TypeInv, [Next]_vars
    PROVE  \/ UNCHANGED notifications
           \/ RowChecked
           \/ \E u \in Logins :
                /\ AskClient(u) /\ u \in users
                /\ RowAdded([from |-> job.creator, to |-> u, chat |-> job.chat, checked |-> FALSE])
<1>1. CASE SetNotificationChecked
    BY <1>1 DEF SetNotificationChecked, RowChecked
<1>2. ASSUME NEW u \in Logins, AskClient(u), u \notin users PROVE UNCHANGED notifications
    BY <1>2 DEF AskClient
<1>3. ASSUME NEW p \in Clients,
             \/ RefuseWithoutSession(p) \/ HandleConnection(p) \/ HandleRegister(p)
             \/ HandleAuthorize(p) \/ HandleLogout(p) \/ PrepareNewChatSession(p)
             \/ HandleResponseForInvite(p) \/ AcceptFails(p) \/ HandleClientChatsInfoRequest(p)
             \/ HandleClientNotifications(p) \/ RefuseMessage(p) \/ HandleSendMessage(p)
      PROVE  UNCHANGED notifications
    BY <1>3 DEF RefuseWithoutSession, HandleConnection, HandleRegister, HandleAuthorize,
        HandleLogout, PrepareNewChatSession, HandleResponseForInvite, AcceptFails,
        HandleClientChatsInfoRequest, HandleClientNotifications, RefuseMessage,
        HandleSendMessage, serverVars, tableVars, noticeVars
<1>4. CASE FinishNewChat \/ FinishNewChatFails \/ DispatchMessage
    BY <1>4 DEF FinishNewChat, FinishNewChatFails, DispatchMessage, tableVars, noticeVars
<1>5. CASE RunServer
    BY <1>1, <1>2, <1>3, <1>4, <1>5, AskClientRow DEF RunServer, ServerStep
<1>6. CASE ~RunServer
    BY <1>6 DEF Next, StartClient, QuitClient, OrphanCrash, EndClient, AcceptConnection,
        UseAccount, UsePane, UseBox, Receive, HaltServer, Halt, RestartServer, Restart, vars,
        serverVars, tableVars, noticeVars
<1> QED
    BY <1>5, <1>6

LEMMA CheckedMeansAnsweredKept ==
    ASSUME AnswerInv, [Next]_vars
    PROVE  CheckedMeansAnswered'
<1> SUFFICES ASSUME NEW n \in DOMAIN notifications', notifications'[n].checked
             PROVE  \E a \in answers' : a.nid = n
    BY DEF CheckedMeansAnswered
<1>1. /\ DOMAIN notifications = 1 .. Len(notifications) /\ Len(notifications) \in Nat
      /\ \A i \in DOMAIN notifications : notifications[i] \in Notifications
    BY LenProperties, ElementOfSeq DEF AnswerInv, TypeInv, TypeOK, ServerTypeOK
<1>2. ASSUME n \in DOMAIN notifications, notifications[n].checked
      PROVE  \E a \in answers' : a.nid = n
    BY <1>2, AnswersGrow DEF AnswerInv, CheckedMeansAnswered
<1>3. CASE UNCHANGED notifications
    BY <1>2, <1>3
<1>4. CASE RowChecked
    <2>1. CASE n = job.nid
        BY <1>4, <2>1, AnswersGrow DEF RowChecked, AnswerInv, CheckIsDue
    <2>2. CASE n # job.nid
        BY <1>2, <1>4, <2>2 DEF RowChecked
    <2> QED
        BY <2>1, <2>2
<1>5. ASSUME NEW row, RowAdded(row), row.checked = FALSE
      PROVE  \E a \in answers' : a.nid = n
    <2>1. n # Len(notifications) + 1
        BY <1>5 DEF RowAdded
    <2>2. n \in DOMAIN notifications
        BY <1>1, <1>5, <2>1 DEF RowAdded
    <2> QED
        BY <1>2, <1>5, <2>2 DEF RowAdded
<1> QED
    BY <1>3, <1>4, <1>5, RowsAfterStep DEF AnswerInv

LEMMA AnswerInvInit == Init => AnswerInv
<1> SUFFICES ASSUME Init PROVE AnswerInv
    OBVIOUS
<1>1. AnswersGiven
    BY DEF Init, WireInit, AnswersGiven
<1>2. CheckIsDue /\ CheckedMeansAnswered
    BY DEF Init, ServerInit, Idle, CheckIsDue, CheckedMeansAnswered
<1> QED
    BY <1>1, <1>2, InitTyped DEF AnswerInv

LEMMA AnswerInvStep == AnswerInv /\ [Next]_vars => AnswerInv'
BY StepTyped, AnswersGivenKept, CheckIsDueKept, CheckedMeansAnsweredKept DEF AnswerInv

\* Only an answer of some user takes an invitation off the table, whatever crashes,
\* races, ties of created_at and number of users there are.
THEOREM ChecksAreAnswers == Spec => []CheckedMeansAnswered
<1>1. AnswerInv => CheckedMeansAnswered
    BY DEF AnswerInv
<1> QED
    BY AnswerInvInit, AnswerInvStep, <1>1, PTL DEF Spec

-----------------------------------------------------------------------------
(***************************************************************************)
(* Memberships.  From here on, rows inserted one after another differ in   *)
(* created_at, so the handler knows the id of the row it has inserted.     *)
(***************************************************************************)
\* The handler that sends invitations works on a chat its creator asked for.
AsksForOwnChat ==
    job.at = "asking" => job.chat \in DOMAIN chats /\ chats[job.chat] = job.creator

AgreedInv == AnswerInv /\ AsksForOwnChat /\ MembersAgreed

LEMMA NewChatRow ==
    ASSUME TypeInv, ~CoarseClock, NEW p \in Clients, PrepareNewChatSession(p)
    PROVE  /\ DOMAIN chats \subseteq DOMAIN chats' /\ \A c \in DOMAIN chats : chats'[c] = chats[c]
           /\ job'.chat \in DOMAIN chats' /\ chats'[job'.chat] = job'.creator
<1> DEFINE u == Current(p).from
           n == Len(chats)
<1>1. u \in Logins
    BY EntitledIsLogin DEF PrepareNewChatSession, Serves, NonSessionActions, TypeInv, TypeOK
<1>2. chats \in Seq(Logins) /\ chats' = Append(chats, u)
    BY DEF PrepareNewChatSession, TypeInv, TypeOK, ServerTypeOK
<1>3. /\ DOMAIN chats = 1 .. n /\ n \in Nat /\ DOMAIN chats' = 1 .. n + 1 /\ Len(chats') = n + 1
      /\ chats'[n + 1] = u /\ \A c \in 1 .. n : chats'[c] = chats[c]
    BY <1>1, <1>2, AppendProperties, LenProperties
<1>4. newestChats' = {n + 1}
    BY <1>3 DEF PrepareNewChatSession, NewestAfter
<1>5. job'.chat = n + 1 /\ job'.creator = u
    BY <1>4 DEF PrepareNewChatSession
<1> QED
    BY <1>3, <1>5

\* Rows of chats are added and never changed.
LEMMA ChatsAfterStep ==
    ASSUME [Next]_vars
    PROVE  UNCHANGED chats \/ \E p \in Clients : PrepareNewChatSession(p)
<1>1. ASSUME NEW p \in Clients,
             \/ RefuseWithoutSession(p) \/ HandleConnection(p) \/ HandleRegister(p)
             \/ HandleAuthorize(p) \/ HandleLogout(p)
             \/ HandleResponseForInvite(p) \/ AcceptFails(p) \/ HandleClientChatsInfoRequest(p)
             \/ HandleClientNotifications(p) \/ RefuseMessage(p) \/ HandleSendMessage(p)
      PROVE  UNCHANGED chats
    BY <1>1 DEF RefuseWithoutSession, HandleConnection, HandleRegister, HandleAuthorize,
        HandleLogout, HandleResponseForInvite, AcceptFails, HandleClientChatsInfoRequest,
        HandleClientNotifications, RefuseMessage, HandleSendMessage, serverVars, tableVars,
        chatVars
<1>2. CASE FinishNewChat \/ FinishNewChatFails \/ SetNotificationChecked \/ DispatchMessage
           \/ \E u \in Logins : AskClient(u)
    BY <1>2 DEF FinishNewChat, FinishNewChatFails, SetNotificationChecked, DispatchMessage,
        AskClient, tableVars, chatVars
<1>3. CASE RunServer
    BY <1>1, <1>2, <1>3 DEF RunServer, ServerStep
<1>4. CASE ~RunServer
    BY <1>4 DEF Next, StartClient, QuitClient, OrphanCrash, EndClient, AcceptConnection,
        UseAccount, UsePane, UseBox, Receive, HaltServer, Halt, RestartServer, Restart, vars,
        serverVars, tableVars, chatVars
<1> QED
    BY <1>3, <1>4

\* Whoever becomes a member has just said yes, or has founded the chat.
LEMMA MembersAfterStep ==
    ASSUME [Next]_vars
    PROVE  \/ UNCHANGED userChats
           \/ \E p \in Clients : /\ Serves(p, "AcceptCreateChat")
                                 /\ AddClientToChat(Current(p).from, Current(p).body.chat)
           \/ FinishNewChat /\ AddClientToChat(job.creator, job.chat)
<1>1. ASSUME NEW p \in Clients,
             \/ RefuseWithoutSession(p) \/ HandleConnection(p) \/ HandleRegister(p)
             \/ HandleAuthorize(p) \/ HandleLogout(p) \/ PrepareNewChatSession(p)
             \/ AcceptFails(p) \/ HandleClientChatsInfoRequest(p)
             \/ HandleClientNotifications(p) \/ RefuseMessage(p) \/ HandleSendMessage(p)
      PROVE  UNCHANGED userChats
    BY <1>1 DEF RefuseWithoutSession, HandleConnection, HandleRegister, HandleAuthorize,
        HandleLogout, PrepareNewChatSession, AcceptFails, HandleClientChatsInfoRequest,
        HandleClientNotifications, RefuseMessage, HandleSendMessage, serverVars, tableVars,
        chatVars
<1>2. CASE FinishNewChatFails \/ SetNotificationChecked \/ DispatchMessage
           \/ \E u \in Logins : AskClient(u)
    BY <1>2 DEF FinishNewChatFails, SetNotificationChecked, DispatchMessage, AskClient,
        tableVars, chatVars
<1>3. ASSUME NEW p \in Clients, HandleResponseForInvite(p)
      PROVE  \/ UNCHANGED userChats
             \/ /\ Serves(p, "AcceptCreateChat")
                /\ AddClientToChat(Current(p).from, Current(p).body.chat)
    BY <1>3 DEF HandleResponseForInvite
<1>4. CASE FinishNewChat
    BY <1>4 DEF FinishNewChat
<1>5. CASE RunServer
    BY <1>1, <1>2, <1>3, <1>4, <1>5 DEF RunServer, ServerStep
<1>6. CASE ~RunServer
    BY <1>6 DEF Next, StartClient, QuitClient, OrphanCrash, EndClient, AcceptConnection,
        UseAccount, UsePane, UseBox, Receive, HaltServer, Halt, RestartServer, Restart, vars,
        serverVars, tableVars, chatVars
<1> QED
    BY <1>5, <1>6

LEMMA AsksForOwnChatKept ==
    ASSUME ~CoarseClock, AgreedInv, [Next]_vars
    PROVE  AsksForOwnChat'
<1>1. TypeInv
    BY DEF AgreedInv, AnswerInv
<1>2. ASSUME NEW p \in Clients, PrepareNewChatSession(p) PROVE AsksForOwnChat'
    BY <1>1, <1>2, NewChatRow DEF AsksForOwnChat
<1>3. ASSUME UNCHANGED chats, job'.at = "asking" =>
                job.at = "asking" /\ job'.chat = job.chat /\ job'.creator = job.creator
      PROVE  AsksForOwnChat'
    BY <1>3 DEF AsksForOwnChat, AgreedInv
<1>4. ASSUME NEW u \in Logins, AskClient(u)
      PROVE  job.at = "asking" /\ job'.chat = job.chat /\ job'.creator = job.creator
    BY <1>1, <1>4, AskingJob DEF AskClient, TypeInv, TypeOK
<1>5. ASSUME NEW p \in Clients,
             HandleResponseForInvite(p) \/ AcceptFails(p) \/ HandleSendMessage(p)
      PROVE  job'.at # "asking"
    BY <1>5 DEF HandleResponseForInvite, AcceptFails, HandleSendMessage, GoDown, Idle
<1>6. ASSUME FinishNewChat \/ FinishNewChatFails \/ SetNotificationChecked \/ DispatchMessage
             \/ HaltServer
      PROVE  job'.at # "asking"
    BY <1>6 DEF FinishNewChat, FinishNewChatFails, SetNotificationChecked, DispatchMessage,
        HaltServer, Halt, GoDown, Idle
<1>7. ASSUME NEW p \in Clients,
             \/ RefuseWithoutSession(p) \/ HandleConnection(p) \/ HandleRegister(p)
             \/ HandleAuthorize(p) \/ HandleLogout(p) \/ HandleClientChatsInfoRequest(p)
             \/ HandleClientNotifications(p) \/ RefuseMessage(p)
      PROVE  UNCHANGED job
    BY <1>7 DEF RefuseWithoutSession, HandleConnection, HandleRegister, HandleAuthorize,
        HandleLogout, HandleClientChatsInfoRequest, HandleClientNotifications, RefuseMessage,
        serverVars
<1>8. CASE UNCHANGED chats
    <2>1. ASSUME ~RunServer, ~HaltServer PROVE UNCHANGED job
        BY <2>1 DEF Next, StartClient, QuitClient, OrphanCrash, EndClient, AcceptConnection,
            UseAccount, UsePane, UseBox, Receive, RestartServer, Restart, vars, serverVars
    <2>2. CASE ~RunServer
        BY <1>3, <1>6, <1>8, <2>1, <2>2
    <2>3. CASE RunServer
        BY <1>2, <1>3, <1>4, <1>5, <1>6, <1>7, <1>8, <2>3 DEF RunServer, ServerStep
    <2> QED
        BY <2>2, <2>3
<1> QED
    BY <1>2, <1>8, ChatsAfterStep

LEMMA MembersAgreedKept ==
    ASSUME ~CoarseClock, AgreedInv, [Next]_vars
    PROVE  MembersAgreed'
<1> SUFFICES ASSUME NEW m \in userChats'
             PROVE  \/ m.chat \in DOMAIN chats' /\ chats'[m.chat] = m.user
                    \/ \E a \in answers' : a.yes /\ a.user = m.user /\ a.chat = m.chat
    BY DEF MembersAgreed
<1>1. TypeInv /\ AnswersGiven
    BY DEF AgreedInv, AnswerInv
<1>2. ASSUME NEW c \in DOMAIN chats PROVE c \in DOMAIN chats' /\ chats'[c] = chats[c]
    BY <1>1, ChatsAfterStep, NewChatRow
<1>3. CASE m \in userChats
    BY <1>2, <1>3, AnswersGrow DEF AgreedInv, MembersAgreed
<1>4. ASSUME NEW p \in Clients, Serves(p, "AcceptCreateChat"),
             AddClientToChat(Current(p).from, Current(p).body.chat), m \notin userChats
      PROVE  \E a \in answers' : a.yes /\ a.user = m.user /\ a.chat = m.chat
    <2>1. m = [chat |-> Current(p).body.chat, user |-> Current(p).from]
        BY <1>4 DEF AddClientToChat
    <2>2. AnswerOf(Current(p)) \in answers'
        BY <1>1, <1>4, ServedAnswer, AnswersGrow
    <2> QED
        BY <1>4, <2>1, <2>2 DEF AnswerOf, Serves
<1>5. CASE FinishNewChat /\ AddClientToChat(job.creator, job.chat) /\ m \notin userChats
    <2>1. m = [chat |-> job.chat, user |-> job.creator]
        BY <1>5 DEF AddClientToChat
    <2>2. job.chat \in DOMAIN chats /\ chats[job.chat] = job.creator
        BY <1>5 DEF FinishNewChat, AgreedInv, AsksForOwnChat
    <2> QED
        BY <1>2, <2>1, <2>2
<1> QED
    BY <1>3, <1>4, <1>5, MembersAfterStep

\* Nobody is ever in a chat they neither founded nor agreed to join, for any number
\* of users, chats and crashes, as long as no two chats share their created_at.
THEOREM MembershipIsAgreed ==
    ASSUME CoarseClock = FALSE
    PROVE  Spec => []MembersAgreed
<1>1. Init => AgreedInv
    BY AnswerInvInit DEF Init, ServerInit, Idle, AgreedInv, AsksForOwnChat, MembersAgreed
<1>2. AgreedInv /\ [Next]_vars => AgreedInv'
    <2>1. ~CoarseClock
        OBVIOUS
    <2>2. AgreedInv => AnswerInv
        BY DEF AgreedInv
    <2> QED
        BY <2>1, <2>2, AnswerInvStep, AsksForOwnChatKept, MembersAgreedKept DEF AgreedInv
<1>3. AgreedInv => MembersAgreed
    BY DEF AgreedInv
<1> QED
    BY <1>1, <1>2, <1>3, PTL DEF Spec

-----------------------------------------------------------------------------
(***************************************************************************)
(* The rows that invitations name.                                         *)
(***************************************************************************)
RowInv == TypeInv /\ InvitesNameTheirRow

\* A row keeps its sender and its chat.
LEMMA RowsStand ==
    ASSUME TypeInv, [Next]_vars, NEW n, NEW author, NEW c
    PROVE  /\ NamesItsRow(n, author, c) => NamesItsRow(n, author, c)'
           /\ n \in DOMAIN notifications =>
                n \in DOMAIN notifications' /\ notifications'[n].chat = notifications[n].chat
<1>1. /\ DOMAIN notifications = 1 .. Len(notifications) /\ Len(notifications) \in Nat
      /\ \A i \in DOMAIN notifications : notifications[i] \in Notifications
    BY LenProperties, ElementOfSeq DEF TypeInv, TypeOK, ServerTypeOK
<1>2. ASSUME n \in DOMAIN notifications
      PROVE  /\ n \in DOMAIN notifications' /\ notifications'[n].chat = notifications[n].chat
             /\ notifications'[n].from = notifications[n].from
    <2>1. CASE UNCHANGED notifications
        BY <1>2, <2>1
    <2>2. CASE RowChecked
        <3>1. notifications[n] \in Notifications
            BY <1>1, <1>2
        <3>2. notifications'[n] = notifications[n]
              \/ notifications'[n] = [notifications[n] EXCEPT !.checked = TRUE]
            BY <1>2, <2>2 DEF RowChecked
        <3> QED
            BY <1>2, <2>2, <3>1, <3>2 DEF RowChecked, Notifications
    <2>3. ASSUME NEW row, RowAdded(row)
          PROVE  n \in DOMAIN notifications' /\ notifications'[n] = notifications[n]
        BY <1>1, <1>2, <2>3 DEF RowAdded
    <2> QED
        BY <2>1, <2>2, <2>3, RowsAfterStep
<1> QED
    BY <1>2 DEF NamesItsRow

\* Without ties, the newest row is the one just inserted.
LEMMA NewestIsTheRow ==
    ASSUME TypeInv, ~CoarseClock, [Next]_vars, NEW u \in Logins, u \in users, AskClient(u),
           NEW n \in newestNotifications'
    PROVE  /\ n \in DOMAIN notifications'
           /\ notifications'[n] = [from |-> job.creator, to |-> u, chat |-> job.chat,
                                   checked |-> FALSE]
<1>1. RowAdded([from |-> job.creator, to |-> u, chat |-> job.chat, checked |-> FALSE])
    BY AskClientRow
<1>2. newestNotifications' = {Len(notifications')}
    BY DEF AskClient, NewestAfter
<1>3. DOMAIN notifications' = 1 .. Len(notifications')
    BY StepTyped, LenProperties DEF TypeInv, TypeOK, ServerTypeOK
<1>4. Len(notifications) \in Nat /\ Len(notifications') \in Nat
    BY StepTyped, LenProperties DEF TypeInv, TypeOK, ServerTypeOK
<1>5. n = Len(notifications) + 1
    BY <1>1, <1>2, <1>3, <1>4 DEF RowAdded
<1> QED
    BY <1>1, <1>4, <1>5 DEF RowAdded

\* What the invitations of a message say of the table.
TrueMessage(m) ==
    /\ m.kind = "CreateChat" => NamesItsRow(m.invite.nid, m.invite.author, m.invite.chat)
    /\ m.kind = "Notifications" => \A i \in m.invites : NamesItsRow(i.nid, i.author, i.chat)

LEMMA MessagesStayTrue ==
    ASSUME RowInv, ~CoarseClock, [Next]_vars, NEW q \in Clients, NEW m,
           Was(m, q) \/ JustSent(m, q)
    PROVE  TrueMessage(m)'
<1>1. TypeInv
    BY DEF RowInv
<1>2. CASE Was(m, q)
    <2>1. PICK j \in DOMAIN replies[q] : m = replies[q][j]
        BY <1>2 DEF Was
    <2>2. TrueMessage(replies[q][j])
        BY DEF RowInv, InvitesNameTheirRow, TrueMessage
    <2> QED
        BY <1>1, <2>1, <2>2, RowsStand DEF TrueMessage
<1>3. CASE m.kind = "CreateChat" /\ JustSent(m, q)
    <2>1. PICK u \in Logins, n \in newestNotifications' :
            /\ AskClient(u) /\ u \in users
            /\ m.invite = [nid |-> n, author |-> job.creator, chat |-> job.chat]
        BY <1>3 DEF JustSent, TellingKinds
    <2>2. /\ n \in DOMAIN notifications' /\ notifications'[n].from = job.creator
          /\ notifications'[n].chat = job.chat
        <3>1. /\ n \in DOMAIN notifications'
              /\ notifications'[n] = [from |-> job.creator, to |-> u, chat |-> job.chat,
                                      checked |-> FALSE]
            BY <1>1, <2>1, NewestIsTheRow
        <3> QED
            BY <3>1
    <2>3. /\ m.invite.nid = n /\ m.invite.author = job.creator /\ m.invite.chat = job.chat
        BY <2>1
    <2> QED
        BY <1>3, <2>2, <2>3 DEF TrueMessage, NamesItsRow
<1>4. CASE m.kind = "Notifications" /\ JustSent(m, q)
    <2>1. PICK p \in Clients : HandleClientNotifications(p)
                               /\ m.invites = GetClientNotifications(Current(p).from)
        BY <1>4 DEF JustSent, TellingKinds
    <2>2. \A i \in m.invites : NamesItsRow(i.nid, i.author, i.chat)
        BY <2>1 DEF GetClientNotifications, NamesItsRow
    <2> QED
        BY <1>1, <1>4, <2>2, RowsStand DEF TrueMessage
<1>5. CASE m.kind \notin {"CreateChat", "Notifications"}
    BY <1>5 DEF TrueMessage
<1> QED
    BY <1>2, <1>3, <1>4, <1>5

LEMMA RemoveAtElements ==
    ASSUME NEW S, NEW q \in Seq(S), NEW i \in DOMAIN q, NEW k \in DOMAIN RemoveAt(q, i)
    PROVE  \E j \in DOMAIN q : RemoveAt(q, i)[k] = q[j]
<1> DEFINE T == {q[j] : j \in DOMAIN q}
<1>1. DOMAIN q = 1 .. Len(q) /\ Len(q) \in Nat /\ q \in [1 .. Len(q) -> S]
    BY LenProperties
<1>2. q \in [1 .. Len(q) -> T]
    BY <1>1
<1> HIDE DEF T
<1>3. q \in Seq(T)
    BY <1>1, <1>2
<1>4. RemoveAt(q, i) \in Seq(T)
    BY <1>3, RemoveAtTyped
<1>5. k \in 1 .. Len(RemoveAt(q, i))
    BY <1>4, LenProperties
<1>6. RemoveAt(q, i)[k] \in T
    BY <1>4, <1>5, ElementOfSeq
<1> QED
    BY <1>6 DEF T

SameInvite(e, f) == e.nid = f.nid /\ e.author = f.author /\ e.chat = f.chat

\* An entry of q's box is one it had, or one made from the message just received.
EntryKnown(e, q) ==
    \/ \E j \in DOMAIN notices[q] : SameInvite(e, notices[q][j])
    \/ Receives(q, "CreateChat") /\ SameInvite(e, Received(q).invite)
    \/ Receives(q, "Notifications") /\ \E i \in Received(q).invites : SameInvite(e, i)

LEMMA ReceivedEntries ==
    ASSUME TypeInv, NEW p \in Clients, ReceiveCreateChat(p) \/ ReceiveNotifications(p),
           NEW i \in DOMAIN notices'[p]
    PROVE  EntryKnown(notices'[p][i], p)
<1>1. /\ notices[p] \in Seq(Entries) /\ notices \in [Clients -> Seq(Entries)]
      /\ Len(notices[p]) \in Nat /\ DOMAIN notices[p] = 1 .. Len(notices[p])
    BY LenProperties DEF TypeInv, TypeOK, BoxTypeOK
<1>2. CASE ReceiveCreateChat(p)
    <2> DEFINE e == Entry(Received(p).invite)
    <2>1. Receives(p, "CreateChat") /\ notices'[p] = Append(notices[p], e)
        BY <1>1, <1>2 DEF ReceiveCreateChat
    <2>2. SameInvite(e, Received(p).invite)
        BY DEF Entry, SameInvite
    <2> HIDE DEF e
    <2>3. notices[p] \in Seq(Entries \cup {e})
        <3>1. notices[p] \in [1 .. Len(notices[p]) -> Entries \cup {e}]
            BY <1>1, ElementOfSeq
        <3> QED
            BY <1>1, <3>1, SeqDef
    <2>4. /\ DOMAIN notices'[p] = 1 .. Len(notices[p]) + 1
          /\ \A j \in 1 .. Len(notices[p]) : notices'[p][j] = notices[p][j]
          /\ notices'[p][Len(notices[p]) + 1] = e
        BY <1>1, <2>1, <2>3, AppendProperties, LenProperties
    <2>5. CASE i = Len(notices[p]) + 1
        BY <2>1, <2>2, <2>4, <2>5 DEF EntryKnown
    <2>6. CASE i # Len(notices[p]) + 1
        <3>1. i \in DOMAIN notices[p] /\ notices'[p][i] = notices[p][i]
            BY <1>1, <2>4, <2>6
        <3> QED
            BY <3>1 DEF EntryKnown, SameInvite
    <2> QED
        BY <2>5, <2>6
<1>3. CASE ReceiveNotifications(p)
    <2> DEFINE I    == Received(p).invites
               list == {Entry(j) : j \in I}
               f    == [j \in I |-> Entry(j)]
    <2>1. Receives(p, "Notifications") /\ notices'[p] = SetToSeq(list)
        BY <1>1, <1>3 DEF ReceiveNotifications
    <2>2. IsFiniteSet(I)
        BY <2>1, HeadReplyTyped, ReplyFields DEF Receives, Received, TypeInv, TypeOK
    <2>3. f \in Surjection(I, list)
        BY DEF Surjection
    <2> HIDE DEF f
    <2>4. IsFiniteSet(list)
        BY <2>2, <2>3, FS_Surjection
    <2> HIDE DEF list
    <2>5. notices'[p] \in Seq(list)
        BY <2>1, <2>4, SetToSeqTyped
    <2>6. notices'[p][i] \in list
        BY <2>5, ElementOfSeq, LenProperties
    <2>7. PICK j \in I : notices'[p][i] = Entry(j)
        BY <2>6 DEF list
    <2> QED
        BY <2>1, <2>7 DEF EntryKnown, SameInvite, Entry
<1> QED
    BY <1>2, <1>3

LEMMA UseBoxEntries ==
    ASSUME TypeInv, NEW p \in Clients, UseBox(p), NEW q \in Clients, NEW i \in DOMAIN notices'[q]
    PROVE  EntryKnown(notices'[q][i], q)
<1>1. /\ notices[p] \in Seq(Entries) /\ notices \in [Clients -> Seq(Entries)]
      /\ Len(notices[p]) \in Nat /\ DOMAIN notices[p] = 1 .. Len(notices[p])
    BY LenProperties DEF TypeInv, TypeOK, BoxTypeOK
<1>2. ASSUME notices'[q] = notices[q] PROVE EntryKnown(notices'[q][i], q)
    BY <1>2 DEF EntryKnown, SameInvite
<1>3. CASE FetchAllNotifications(p) \/ AnswerOrphan(p)
    BY <1>2, <1>3 DEF FetchAllNotifications, AnswerOrphan, boxVars
<1>4. ASSUME NEW j \in DOMAIN notices[p], OnClick(p, j) PROVE EntryKnown(notices'[q][i], q)
    <2>1. notices' = [notices EXCEPT ![p][j].open = @ + 1]
        BY <1>4 DEF OnClick
    <2>2. CASE q # p
        BY <1>1, <1>2, <2>1, <2>2
    <2>3. CASE q = p
        <3>1. notices'[p] = [notices[p] EXCEPT ![j] = [notices[p][j] EXCEPT !.open = @ + 1]]
            BY <1>1, <2>1
        <3>2. DOMAIN notices'[p] = DOMAIN notices[p]
            BY <3>1
        <3>3. CASE i # j
            BY <2>3, <3>1, <3>2, <3>3 DEF EntryKnown, SameInvite
        <3>4. CASE i = j
            <4>1. notices'[p][i] = [notices[p][j] EXCEPT !.open = @ + 1]
                BY <3>1, <3>4
            <4>2. notices[p][j] \in Entries
                BY <1>1, ElementOfSeq
            <4>3. SameInvite(notices'[p][i], notices[p][j])
                BY <4>1, <4>2 DEF SameInvite, Entries
            <4> QED
                BY <2>3, <4>3 DEF EntryKnown
        <3> QED
            BY <3>3, <3>4
    <2> QED
        BY <2>2, <2>3
<1>5. ASSUME NEW j \in DOMAIN notices[p], NEW accept \in BOOLEAN, AnswerInvite(p, j, accept)
      PROVE  EntryKnown(notices'[q][i], q)
    <2>1. notices' = [notices EXCEPT ![p] = RemoveAt(@, j)]
        BY <1>5 DEF AnswerInvite, Answer
    <2>2. CASE q # p
        BY <1>1, <1>2, <2>1, <2>2
    <2>3. CASE q = p
        <3>1. notices'[p] = RemoveAt(notices[p], j)
            BY <1>1, <2>1
        <3>2. \E h \in DOMAIN notices[p] : notices'[p][i] = notices[p][h]
            BY <1>1, <2>3, <3>1, RemoveAtElements
        <3> QED
            BY <2>3, <3>2 DEF EntryKnown, SameInvite
    <2> QED
        BY <2>2, <2>3
<1> QED
    BY <1>3, <1>4, <1>5 DEF UseBox

LEMMA EntriesAfterStep ==
    ASSUME TypeInv, [Next]_vars, NEW q \in Clients, NEW i \in DOMAIN notices'[q]
    PROVE  EntryKnown(notices'[q][i], q)
<1>1. notices \in [Clients -> Seq(Entries)]
    BY DEF TypeInv, TypeOK, BoxTypeOK
<1>2. ASSUME notices'[q] = notices[q] PROVE EntryKnown(notices'[q][i], q)
    BY <1>2 DEF EntryKnown, SameInvite
<1>3. ASSUME NEW p \in Clients, QuitClient(p) \/ OrphanCrash(p)
      PROVE  EntryKnown(notices'[q][i], q)
    <2>1. notices' = [notices EXCEPT ![p] = <<>>]
        BY <1>3 DEF QuitClient, OrphanCrash, EndClient, CloseBox
    <2>2. q # p
        BY <1>1, <2>1
    <2> QED
        BY <1>1, <1>2, <2>1, <2>2
<1>4. ASSUME NEW p \in Clients, UseBox(p) PROVE EntryKnown(notices'[q][i], q)
    BY <1>4, UseBoxEntries
<1>5. ASSUME NEW p \in Clients, ReceiveCreateChat(p) \/ ReceiveNotifications(p)
      PROVE  EntryKnown(notices'[q][i], q)
    <2>1. CASE q = p
        BY <1>5, <2>1, ReceivedEntries
    <2>2. CASE q # p
        <3>1. notices'[q] = notices[q]
            BY <1>1, <1>5, <2>2 DEF ReceiveCreateChat, ReceiveNotifications
        <3> QED
            BY <1>2, <3>1
    <2> QED
        BY <2>1, <2>2
<1>6. ASSUME NEW p \in Clients,
             \/ StartClient(p) \/ AcceptConnection(p) \/ UseAccount(p) \/ UsePane(p)
             \/ Receive(p) /\ UNCHANGED boxVars
      PROVE  UNCHANGED notices
    BY <1>6 DEF StartClient, AcceptConnection, UseAccount, UsePane, boxVars
<1>7. ASSUME HaltServer \/ RestartServer \/ RunServer \/ UNCHANGED vars
      PROVE  UNCHANGED notices
    BY <1>7 DEF HaltServer, RestartServer, RunServer, vars, boxVars
<1> QED
    BY <1>2, <1>3, <1>4, <1>5, <1>6, <1>7 DEF Next, Receive

LEMMA EntriesStayTrue ==
    ASSUME RowInv, [Next]_vars, NEW q \in Clients, NEW e, EntryKnown(e, q)
    PROVE  NamesItsRow(e.nid, e.author, e.chat)'
<1>1. NamesItsRow(e.nid, e.author, e.chat)
    <2>1. ASSUME NEW j \in DOMAIN notices[q], SameInvite(e, notices[q][j])
          PROVE  NamesItsRow(e.nid, e.author, e.chat)
        BY <2>1 DEF SameInvite, RowInv, InvitesNameTheirRow
    <2>2. ASSUME NEW kind, Receives(q, kind)
          PROVE  TrueMessage(Received(q)) /\ Received(q).kind = kind
        <3>1. replies[q] # <<>> /\ replies[q] \in Seq(Replies) /\ Received(q).kind = kind
            BY <2>2 DEF Receives, Received, RowInv, TypeInv, TypeOK, WireTypeOK
        <3>2. 1 \in DOMAIN replies[q] /\ Received(q) = replies[q][1]
            BY <3>1, HeadTailProperties, LenProperties, EmptySeq DEF Received
        <3> QED
            BY <3>1, <3>2 DEF RowInv, InvitesNameTheirRow, TrueMessage
    <2>3. CASE Receives(q, "CreateChat") /\ SameInvite(e, Received(q).invite)
        BY <2>2, <2>3 DEF TrueMessage, SameInvite
    <2>4. CASE Receives(q, "Notifications") /\ \E i \in Received(q).invites : SameInvite(e, i)
        BY <2>2, <2>4 DEF TrueMessage, SameInvite
    <2> QED
        BY <2>1, <2>3, <2>4 DEF EntryKnown
<1> QED
    BY <1>1, RowsStand DEF RowInv

\* Answers under way name a row of their chat.
TrueAnswer(b) ==
    b.kind \in AnswerKinds => b.nid \in DOMAIN notifications /\ notifications[b.nid].chat = b.chat

LEMMA AnswersStayTrue ==
    ASSUME RowInv, [Next]_vars, NEW q \in Clients, NEW r,
           Kept(r, q) \/ r.body.kind \notin AnswerKinds \/ MadeByBox(r, q)
    PROVE  TrueAnswer(r.body)'
<1>1. TrueAnswer(r.body)
    <2>1. CASE Kept(r, q)
        <3>1. PICK j \in DOMAIN requests[q] : r.body = requests[q][j].body
            BY <2>1 DEF Kept
        <3> QED
            BY <3>1 DEF RowInv, InvitesNameTheirRow, TrueAnswer, AnswerKinds
    <2>2. CASE MadeByBox(r, q)
        <3>1. PICK i \in DOMAIN notices[q] :
                r.body.nid = notices[q][i].nid /\ r.body.chat = notices[q][i].chat
            BY <2>2 DEF MadeByBox
        <3>2. NamesItsRow(notices[q][i].nid, notices[q][i].author, notices[q][i].chat)
            BY <3>1 DEF RowInv, InvitesNameTheirRow
        <3> QED
            BY <3>1, <3>2 DEF NamesItsRow, TrueAnswer
    <2> QED
        BY <2>1, <2>2 DEF TrueAnswer
<1> QED
    BY <1>1, RowsStand DEF RowInv, TrueAnswer

LEMMA RowInvStep ==
    ASSUME RowInv, ~CoarseClock, [Next]_vars
    PROVE  RowInv'
<1>1. TypeInv /\ TypeInv'
    BY StepTyped DEF RowInv
<1>2. ASSUME NEW q \in Clients, NEW k \in DOMAIN replies'[q], NEW m, m = replies'[q][k]
      PROVE  TrueMessage(m)'
    BY <1>1, <1>2, MessageFlow, MessagesStayTrue
<1>3. ASSUME NEW q \in Clients, NEW i \in DOMAIN notices'[q], NEW e, e = notices'[q][i]
      PROVE  NamesItsRow(e.nid, e.author, e.chat)'
    BY <1>1, <1>3, EntriesAfterStep, EntriesStayTrue
<1>4. ASSUME NEW q \in Clients, NEW k \in DOMAIN requests'[q], NEW r, r = requests'[q][k]
      PROVE  TrueAnswer(r.body)'
    BY <1>1, <1>4, RequestFlow, AnswersStayTrue DEF AnswersMadeByBox
<1>5. InvitesNameTheirRow'
    BY <1>2, <1>3, <1>4 DEF InvitesNameTheirRow, TrueMessage, TrueAnswer, NamesItsRow, AnswerKinds
<1> QED
    BY <1>1, <1>5 DEF RowInv

\* Wherever an invitation is, on its way, in a box or in an answer, it carries the
\* id of the very row it was made from, for any number of users and chats, as long
\* as no two notifications share their created_at.
THEOREM InvitesAreTrue ==
    ASSUME CoarseClock = FALSE
    PROVE  Spec => []InvitesNameTheirRow
<1>1. Init => RowInv
    <2>1. Init => InvitesNameTheirRow
        BY DEF Init, WireInit, BoxInit, InvitesNameTheirRow
    <2> QED
        BY <2>1, InitTyped DEF RowInv
<1>2. RowInv /\ [Next]_vars => RowInv'
    <2>1. ~CoarseClock
        OBVIOUS
    <2> QED
        BY <2>1, RowInvStep
<1>3. RowInv => InvitesNameTheirRow
    BY DEF RowInv
<1> QED
    BY <1>1, <1>2, <1>3, PTL DEF Spec

-----------------------------------------------------------------------------
(***************************************************************************)
(* The box.  An invitation comes up in it once: the live message comes     *)
(* before every list that has it, and takes the id of a row just inserted. *)
(***************************************************************************)
InBox(p, n) == \E i \in DOMAIN notices[p] : notices[p][i].nid = n

Mentions(m, n) ==
    \/ m.kind = "CreateChat" /\ m.invite.nid = n
    \/ m.kind = "Notifications" /\ \E i \in m.invites : i.nid = n

\* A live invitation under way is neither in the box nor in a message before it.
ArrivesOnce ==
    \A p \in Clients : \A k \in DOMAIN replies[p] : replies[p][k].kind = "CreateChat" =>
        LET n == replies[p][k].invite.nid
        IN  ~InBox(p, n) /\ \A j \in DOMAIN replies[p] : j < k => ~Mentions(replies[p][j], n)

OnceInv == RowInv /\ ArrivesOnce /\ NoDoubleEntry

\* The entries of q after a step are some of those before.
EntriesStay(q) ==
    \E f :
        /\ \A i \in DOMAIN notices'[q] :
             f[i] \in DOMAIN notices[q] /\ notices'[q][i].nid = notices[q][f[i]].nid
        /\ \A i, j \in DOMAIN notices'[q] : f[i] = f[j] => i = j

LEMMA SameEntries ==
    ASSUME NEW q, notices'[q] = notices[q]
    PROVE  EntriesStay(q)
<1> DEFINE f == [i \in DOMAIN notices[q] |-> i]
<1>1. \A i \in DOMAIN notices'[q] :
        f[i] \in DOMAIN notices[q] /\ notices'[q][i].nid = notices[q][f[i]].nid
    OBVIOUS
<1>2. \A i, j \in DOMAIN notices'[q] : f[i] = f[j] => i = j
    OBVIOUS
<1> HIDE DEF f
<1> QED
    BY <1>1, <1>2 DEF EntriesStay

\* The elements that are left when one is taken out.
LEMMA RemoveAtPlaces ==
    ASSUME NEW S, NEW q \in Seq(S), NEW i \in DOMAIN q
    PROVE  LET r == RemoveAt(q, i) IN
           /\ DOMAIN r = 1 .. Len(q) - 1 /\ Len(q) \in Nat /\ i \in 1 .. Len(q)
           /\ \A k \in DOMAIN r : r[k] = IF k < i THEN q[k] ELSE q[k + 1]
<1> DEFINE n == Len(q)
           a == SubSeq(q, 1, i - 1)
           b == SubSeq(q, i + 1, n)
<1>1. n \in Nat /\ i \in 1 .. n /\ DOMAIN q = 1 .. n
    BY LenProperties
<1>2. /\ a \in Seq(S) /\ Len(a) = i - 1 /\ \A k \in 1 .. i - 1 : a[k] = q[k]
    BY <1>1, PrefixTyped, PrefixElements, SubSeqProperties, LenProperties
<1>3. b \in Seq(S) /\ Len(b) = n - i
    BY <1>1, SuffixTyped, SubSeqProperties
<1>4. \A k \in 1 .. n - i : b[k] = q[k + i]
    <2> SUFFICES ASSUME NEW k \in 1 .. n - i PROVE b[k] = q[k + i]
        OBVIOUS
    <2>1. k \in DOMAIN SubSeq(q, i + 1, Len(q)) /\ i + 1 \in 1 .. Len(q) + 1
        BY <1>1, <1>3, LenProperties
    <2>2. b[k] = q[(i + 1) + k - 1]
        BY <2>1, SuffixElements
    <2> QED
        BY <1>1, <2>2
<1> HIDE DEF a, b
<1>5. RemoveAt(q, i) = a \o b
    BY DEF RemoveAt, a, b
<1>6. Len(a \o b) = n - 1 /\ a \o b \in Seq(S)
      /\ \A k \in 1 .. n - 1 : (a \o b)[k] = IF k <= i - 1 THEN a[k] ELSE b[k - (i - 1)]
    <2>1. /\ a \o b \in Seq(S) /\ Len(a \o b) = Len(a) + Len(b)
          /\ \A k \in 1 .. Len(a) + Len(b) :
               (a \o b)[k] = IF k <= Len(a) THEN a[k] ELSE b[k - Len(a)]
        BY <1>2, <1>3, ConcatProperties
    <2>2. Len(a) + Len(b) = n - 1 /\ Len(a) = i - 1
        BY <1>1, <1>2, <1>3
    <2> QED
        BY <2>1, <2>2
<1>7. ASSUME NEW k \in 1 .. n - 1
      PROVE  (a \o b)[k] = IF k < i THEN q[k] ELSE q[k + 1]
    <2>1. CASE k < i
        BY <1>1, <1>2, <1>6, <2>1
    <2>2. CASE ~(k < i)
        <3>0. ~(k <= i - 1)
            BY <1>1, <2>2
        <3>1. (a \o b)[k] = b[k - (i - 1)]
            BY <1>6, <3>0
        <3>2. k - (i - 1) \in 1 .. n - i /\ k - (i - 1) + i = k + 1
            BY <1>1, <2>2
        <3>3. b[k - (i - 1)] = q[k - (i - 1) + i]
            BY <1>4, <3>2
        <3> QED
            BY <2>2, <3>1, <3>2, <3>3
    <2> QED
        BY <2>1, <2>2
<1> QED
    BY <1>1, <1>5, <1>6, <1>7, LenProperties

LEMMA AnswerLeavesEntries ==
    ASSUME TypeInv, NEW p \in Clients, NEW i \in DOMAIN notices[p],
           notices' = [notices EXCEPT ![p] = RemoveAt(@, i)]
    PROVE  EntriesStay(p)
<1>1. notices[p] \in Seq(Entries) /\ notices'[p] = RemoveAt(notices[p], i)
    BY DEF TypeInv, TypeOK, BoxTypeOK
<1> DEFINE n == Len(notices[p])
           f == [k \in 1 .. n - 1 |-> IF k < i THEN k ELSE k + 1]
<1>2. /\ DOMAIN notices'[p] = 1 .. n - 1 /\ n \in Nat /\ i \in 1 .. n
      /\ \A k \in 1 .. n - 1 : notices'[p][k] = IF k < i THEN notices[p][k] ELSE notices[p][k + 1]
    BY <1>1, RemoveAtPlaces
<1>3. DOMAIN notices[p] = 1 .. n
    BY <1>1, LenProperties
<1> HIDE DEF n
<1>4. \A k \in 1 .. n - 1 : f[k] \in 1 .. n /\ notices'[p][k].nid = notices[p][f[k]].nid
    BY <1>2
<1>5. \A k, j \in 1 .. n - 1 : f[k] = f[j] => k = j
    BY <1>2
<1> HIDE DEF f
<1>6. /\ \A k \in DOMAIN notices'[p] :
           f[k] \in DOMAIN notices[p] /\ notices'[p][k].nid = notices[p][f[k]].nid
      /\ \A k, j \in DOMAIN notices'[p] : f[k] = f[j] => k = j
    BY <1>2, <1>3, <1>4, <1>5
<1> QED
    BY <1>6 DEF EntriesStay

LEMMA UseBoxKeepsEntries ==
    ASSUME TypeInv, NEW p \in Clients, UseBox(p), NEW q \in Clients
    PROVE  EntriesStay(q)
<1>1. notices \in [Clients -> Seq(Entries)] /\ \A i \in DOMAIN notices[p] : notices[p][i] \in Entries
    <2>1. notices \in [Clients -> Seq(Entries)]
        BY DEF TypeInv, TypeOK, BoxTypeOK
    <2> QED
        BY <2>1, ElementOfSeq, LenProperties
<1>2. CASE FetchAllNotifications(p) \/ AnswerOrphan(p)
    BY <1>2, SameEntries DEF FetchAllNotifications, AnswerOrphan, boxVars
<1>3. ASSUME NEW j \in DOMAIN notices[p], OnClick(p, j) PROVE EntriesStay(q)
    <2>1. notices' = [notices EXCEPT ![p][j].open = @ + 1]
        BY <1>3 DEF OnClick
    <2>2. DOMAIN notices'[q] = DOMAIN notices[q]
          /\ \A i \in DOMAIN notices[q] : notices'[q][i].nid = notices[q][i].nid
        <3>1. CASE q # p
            BY <1>1, <2>1, <3>1
        <3>2. CASE q = p
            <4>1. notices'[p] = [notices[p] EXCEPT ![j] = [notices[p][j] EXCEPT !.open = @ + 1]]
                BY <1>1, <2>1
            <4>2. [notices[p][j] EXCEPT !.open = @ + 1].nid = notices[p][j].nid
                BY <1>1 DEF Entries
            <4> QED
                BY <3>2, <4>1, <4>2
        <3> QED
            BY <3>1, <3>2
    <2> DEFINE f == [i \in DOMAIN notices[q] |-> i]
    <2>3. /\ \A i \in DOMAIN notices'[q] :
               f[i] \in DOMAIN notices[q] /\ notices'[q][i].nid = notices[q][f[i]].nid
          /\ \A i, k \in DOMAIN notices'[q] : f[i] = f[k] => i = k
        BY <2>2
    <2> HIDE DEF f
    <2> QED
        BY <2>3 DEF EntriesStay
<1>4. ASSUME NEW j \in DOMAIN notices[p], NEW accept \in BOOLEAN, AnswerInvite(p, j, accept)
      PROVE  EntriesStay(q)
    <2>1. notices' = [notices EXCEPT ![p] = RemoveAt(@, j)]
        BY <1>4 DEF AnswerInvite, Answer
    <2>2. CASE q # p
        BY <1>1, <2>1, <2>2, SameEntries
    <2> QED
        BY <1>4, <2>1, <2>2, AnswerLeavesEntries
<1> QED
    BY <1>2, <1>3, <1>4 DEF UseBox

\* Entries are added only by what is received.
LEMMA BoxAfterStep ==
    ASSUME TypeInv, [Next]_vars, NEW q \in Clients
    PROVE  \/ ReceiveCreateChat(q) \/ ReceiveNotifications(q)
           \/ EntriesStay(q)
<1>1. notices \in [Clients -> Seq(Entries)]
    BY DEF TypeInv, TypeOK, BoxTypeOK
<1>2. ASSUME NEW p \in Clients, QuitClient(p) \/ OrphanCrash(p) PROVE EntriesStay(q)
    <2>1. notices' = [notices EXCEPT ![p] = <<>>]
        BY <1>2 DEF QuitClient, OrphanCrash, EndClient, CloseBox
    <2>2. CASE q = p
        BY <1>1, <2>1, <2>2 DEF EntriesStay
    <2>3. CASE q # p
        BY <1>1, <2>1, <2>3, SameEntries
    <2> QED
        BY <2>2, <2>3
<1>3. ASSUME NEW p \in Clients, p # q, ReceiveCreateChat(p) \/ ReceiveNotifications(p)
      PROVE  EntriesStay(q)
    <2>1. notices'[q] = notices[q]
        BY <1>1, <1>3 DEF ReceiveCreateChat, ReceiveNotifications
    <2> QED
        BY <2>1, SameEntries
<1>4. ASSUME NEW p \in Clients,
             \/ StartClient(p) \/ AcceptConnection(p) \/ UseAccount(p) \/ UsePane(p)
             \/ Receive(p) /\ UNCHANGED boxVars
      PROVE  EntriesStay(q)
    BY <1>4, SameEntries DEF StartClient, AcceptConnection, UseAccount, UsePane, boxVars
<1>5. ASSUME HaltServer \/ RestartServer \/ RunServer \/ UNCHANGED vars
      PROVE  EntriesStay(q)
    BY <1>5, SameEntries DEF HaltServer, RestartServer, RunServer, vars, boxVars
<1> QED
    BY <1>2, <1>3, <1>4, <1>5, UseBoxKeepsEntries DEF Next, Receive

\* A live invitation is appended to the box.
LEMMA LiveEntry ==
    ASSUME TypeInv, NEW q \in Clients, ReceiveCreateChat(q)
    PROVE  LET n == Len(notices[q]) IN
           /\ n \in Nat /\ DOMAIN notices[q] = 1 .. n /\ DOMAIN notices'[q] = 1 .. n + 1
           /\ \A i \in 1 .. n : notices'[q][i] = notices[q][i]
           /\ notices'[q][n + 1].nid = Received(q).invite.nid
<1> DEFINE e == Entry(Received(q).invite)
           n == Len(notices[q])
<1>1. notices \in [Clients -> Seq(Entries)] /\ notices[q] \in Seq(Entries)
      /\ n \in Nat /\ DOMAIN notices[q] = 1 .. n
    BY LenProperties DEF TypeInv, TypeOK, BoxTypeOK
<1>2. notices'[q] = Append(notices[q], e)
    BY <1>1 DEF ReceiveCreateChat
<1>3. e.nid = Received(q).invite.nid
    BY DEF Entry
<1> HIDE DEF e
<1>4. notices[q] \in Seq(Entries \cup {e})
    BY <1>1, ElementOfSeq, SeqDef
<1>5. /\ DOMAIN notices'[q] = 1 .. n + 1
      /\ \A i \in 1 .. n : notices'[q][i] = notices[q][i]
      /\ notices'[q][n + 1] = e
    BY <1>1, <1>2, <1>4, AppendProperties, LenProperties
<1> QED
    BY <1>1, <1>3, <1>5

LEMMA SetToSeqDiffers ==
    ASSUME NEW S, IsFiniteSet(S)
    PROVE  LET s == SetToSeq(S) IN
           /\ \A i \in DOMAIN s : s[i] \in S
           /\ \A i, j \in DOMAIN s : s[i] = s[j] => i = j
<1>1. Cardinality(S) \in Nat /\ ExistsBijection(1 .. Cardinality(S), S)
    BY FS_CardinalityType
<1>2. \E f \in [1 .. Cardinality(S) -> S] : IsInjective(f)
    BY <1>1 DEF ExistsBijection, Bijection, Injection
<1>3. SetToSeq(S) \in [1 .. Cardinality(S) -> S] /\ IsInjective(SetToSeq(S))
    BY <1>2 DEF SetToSeq
<1> QED
    BY <1>3 DEF IsInjective

\* A list fills the box with entries that differ.
LEMMA ListEntries ==
    ASSUME TypeInv, NEW q \in Clients, ReceiveNotifications(q)
    PROVE  /\ \A i \in DOMAIN notices'[q] :
                \E v \in Received(q).invites : notices'[q][i] = Entry(v)
           /\ \A i, j \in DOMAIN notices'[q] : notices'[q][i] = notices'[q][j] => i = j
<1> DEFINE I    == Received(q).invites
           list == {Entry(v) : v \in I}
           f    == [v \in I |-> Entry(v)]
<1>1. Receives(q, "Notifications") /\ notices'[q] = SetToSeq(list)
    BY DEF ReceiveNotifications, TypeInv, TypeOK, BoxTypeOK
<1>2. IsFiniteSet(I)
    BY <1>1, HeadReplyTyped, ReplyFields DEF Receives, Received, TypeInv, TypeOK
<1>3. f \in Surjection(I, list)
    BY DEF Surjection
<1> HIDE DEF f
<1>4. IsFiniteSet(list)
    BY <1>2, <1>3, FS_Surjection
<1>5. \A e \in list : \E v \in I : e = Entry(v)
    OBVIOUS
<1> HIDE DEF list
<1> QED
    BY <1>1, <1>4, <1>5, SetToSeqDiffers

\* The rows of invitations under way and in the box are there, and the row of an
\* invitation just sent is new.
LEMMA MentionsRow ==
    ASSUME RowInv, NEW q \in Clients, NEW n
    PROVE  /\ InBox(q, n) => n \in DOMAIN notifications
           /\ \A j \in DOMAIN replies[q] : Mentions(replies[q][j], n) => n \in DOMAIN notifications
BY DEF RowInv, InvitesNameTheirRow, NamesItsRow, InBox, Mentions

LEMMA NewInviteIsNew ==
    ASSUME TypeInv, ~CoarseClock, [Next]_vars, NEW q \in Clients, NEW m,
           m.kind = "CreateChat", JustSent(m, q)
    PROVE  m.invite.nid \notin DOMAIN notifications
<1>1. PICK u \in Logins, n \in newestNotifications' :
        /\ AskClient(u) /\ u \in users
        /\ m.invite = [nid |-> n, author |-> job.creator, chat |-> job.chat]
    BY DEF JustSent, TellingKinds
<1>2. RowAdded([from |-> job.creator, to |-> u, chat |-> job.chat, checked |-> FALSE])
    BY <1>1, AskClientRow
<1>3. /\ DOMAIN notifications' = 1 .. Len(notifications') /\ Len(notifications') \in Nat
      /\ DOMAIN notifications = 1 .. Len(notifications) /\ Len(notifications) \in Nat
    BY StepTyped, LenProperties DEF TypeInv, TypeOK, ServerTypeOK
<1>4. n = Len(notifications')
    BY <1>1 DEF AskClient, NewestAfter
<1>5. n = Len(notifications) + 1
    BY <1>2, <1>3, <1>4 DEF RowAdded
<1> QED
    BY <1>1, <1>3, <1>5

LEMMA InviteIsLast ==
    ASSUME WireTypeOK, NEW q \in Clients, NEW m, m.kind = "CreateChat", JustSent(m, q)
    PROVE  \A k \in DOMAIN replies'[q] : k <= Len(replies[q]) + 1
<1>1. PICK u \in Logins, n \in newestNotifications' : AskClient(u) /\ u \in users
    BY DEF JustSent, TellingKinds
<1>2. PICK v : Dispatch({u}, <<v>>)
    BY <1>1 DEF AskClient
<1> QED
    BY <1>2, OneIsLast

\* A live invitation stays the first to tell of its row until it is received.
LEMMA ArrivesOnceKept ==
    ASSUME OnceInv, ~CoarseClock, [Next]_vars
    PROVE  ArrivesOnce'
<1>1. TypeInv /\ WireTypeOK /\ RowInv /\ ArrivesOnce
    BY DEF OnceInv, RowInv, TypeInv, TypeOK
<1> SUFFICES ASSUME NEW q \in Clients, NEW k \in DOMAIN replies'[q],
                    NEW m, m = replies'[q][k], m.kind = "CreateChat",
                    NEW n, n = m.invite.nid
             PROVE  ~InBox(q, n)' /\ \A j \in DOMAIN replies'[q] : j < k => ~Mentions(replies'[q][j], n)
    BY DEF ArrivesOnce, InBox
<1>2. PICK d \in {0, 1} : \A j \in DOMAIN replies'[q] :
        \/ Shifted(q, j, d)
        \/ d = 0 /\ j > Len(replies[q]) /\ JustSent(replies'[q][j], q)
    BY <1>1, MessageOrder DEF MessagesInOrder
<1>3. /\ DOMAIN replies[q] = 1 .. Len(replies[q]) /\ Len(replies[q]) \in Nat
      /\ DOMAIN replies'[q] = 1 .. Len(replies'[q]) /\ Len(replies'[q]) \in Nat
    BY <1>1, StepTyped, LenProperties DEF TypeInv, TypeOK, WireTypeOK
<1>4. ASSUME EntriesStay(q), ~InBox(q, n) PROVE ~InBox(q, n)'
    BY <1>4 DEF EntriesStay, InBox
<1>5. CASE Shifted(q, k, d)
    <2>1. /\ k + d \in DOMAIN replies[q] /\ replies[q][k + d] = m
          /\ ~InBox(q, n) /\ \A j \in DOMAIN replies[q] : j < k + d => ~Mentions(replies[q][j], n)
        BY <1>1, <1>5 DEF Shifted, ArrivesOnce
    <2>2. ASSUME NEW j \in DOMAIN replies'[q], j < k PROVE ~Mentions(replies'[q][j], n)
        <3>1. Shifted(q, j, d)
            BY <1>2, <1>3, <2>1, <2>2
        <3>2. j + d \in DOMAIN replies[q] /\ j + d < k + d /\ replies'[q][j] = replies[q][j + d]
            BY <1>3, <2>2, <3>1 DEF Shifted
        <3> QED
            BY <2>1, <3>2
    <2>3. ASSUME ReceiveCreateChat(q) \/ ReceiveNotifications(q)
          PROVE  ~Mentions(Received(q), n) /\ Received(q).kind \in {"CreateChat", "Notifications"}
        <3>1. /\ replies[q] # <<>> /\ replies'[q] = Tail(replies[q])
              /\ Received(q).kind \in {"CreateChat", "Notifications"}
            BY <1>1, <2>3 DEF ReceiveCreateChat, ReceiveNotifications, Receives, Received, Consume,
                WireTypeOK
        <3>2. /\ 1 \in DOMAIN replies[q] /\ Received(q) = replies[q][1]
              /\ 1 < k + 1 /\ k + 1 \in DOMAIN replies[q] /\ replies[q][k + 1] = m
            BY <1>1, <3>1, QueueMovesUp
        <3> QED
            BY <1>1, <3>1, <3>2 DEF ArrivesOnce
    <2>4. ASSUME ReceiveCreateChat(q) PROVE ~InBox(q, n)'
        <3>1. Received(q).invite.nid # n
            BY <2>3, <2>4 DEF Mentions, ReceiveCreateChat, Receives, Received
        <3> QED
            BY <1>1, <2>1, <2>4, <3>1, LiveEntry DEF InBox
    <2>5. ASSUME ReceiveNotifications(q) PROVE ~InBox(q, n)'
        <3>1. \A v \in Received(q).invites : v.nid # n
            BY <2>3, <2>5 DEF Mentions, ReceiveNotifications, Receives, Received
        <3>2. \A v : Entry(v).nid = v.nid
            BY DEF Entry
        <3>3. ASSUME NEW i \in DOMAIN notices'[q], notices'[q][i].nid = n PROVE FALSE
            <4>1. PICK v \in Received(q).invites : notices'[q][i] = Entry(v)
                BY <1>1, <2>5, ListEntries
            <4> QED
                BY <3>1, <3>2, <3>3, <4>1
        <3> QED
            BY <3>3 DEF InBox
    <2> QED
        BY <1>1, <1>4, <2>1, <2>2, <2>4, <2>5, BoxAfterStep
<1>6. CASE d = 0 /\ k > Len(replies[q]) /\ JustSent(m, q)
    <2>1. n \notin DOMAIN notifications
        BY <1>1, <1>6, NewInviteIsNew
    <2>2. ASSUME NEW j \in DOMAIN replies'[q], j < k PROVE ~Mentions(replies'[q][j], n)
        <3>1. CASE Shifted(q, j, d)
            BY <1>1, <2>1, <3>1, MentionsRow DEF Shifted
        <3>2. CASE j > Len(replies[q])
            BY <1>1, <1>3, <1>6, <2>2, <3>2, InviteIsLast
        <3> QED
            BY <1>2, <3>1, <3>2
    <2>3. ~ReceiveCreateChat(q) /\ ~ReceiveNotifications(q)
        <3> SUFFICES ASSUME ReceiveCreateChat(q) \/ ReceiveNotifications(q) PROVE FALSE
            OBVIOUS
        <3>1. replies[q] # <<>> /\ replies'[q] = Tail(replies[q])
            BY <1>1 DEF ReceiveCreateChat, ReceiveNotifications, Receives, Consume, WireTypeOK
        <3>2. k + 1 \in DOMAIN replies[q]
            BY <1>1, <3>1, QueueMovesUp
        <3> QED
            BY <1>3, <1>6, <3>2
    <2>4. ~InBox(q, n)
        BY <1>1, <2>1, MentionsRow
    <2> QED
        BY <1>1, <1>4, <2>2, <2>3, <2>4, BoxAfterStep
<1> QED
    BY <1>2, <1>5, <1>6

LEMMA NoDoubleEntryKept ==
    ASSUME OnceInv, [Next]_vars
    PROVE  NoDoubleEntry'
<1>1. TypeInv /\ WireTypeOK /\ RowInv /\ ArrivesOnce /\ NoDoubleEntry
    BY DEF OnceInv, RowInv, TypeInv, TypeOK
<1> SUFFICES ASSUME NEW q \in Clients, NEW i \in DOMAIN notices'[q], NEW j \in DOMAIN notices'[q],
                    notices'[q][i].nid = notices'[q][j].nid
             PROVE  i = j
    BY DEF NoDoubleEntry
<1>2. CASE EntriesStay(q)
    BY <1>1, <1>2 DEF EntriesStay, NoDoubleEntry
<1>3. CASE ReceiveCreateChat(q)
    <2>1. /\ 1 \in DOMAIN replies[q] /\ Received(q) = replies[q][1]
          /\ Received(q).kind = "CreateChat"
        BY <1>1, <1>3, ReceivedIsFirst DEF ReceiveCreateChat
    <2>2. ~InBox(q, Received(q).invite.nid)
        BY <1>1, <2>1 DEF ArrivesOnce
    <2>3. PICK n \in Nat :
        /\ DOMAIN notices[q] = 1 .. n /\ DOMAIN notices'[q] = 1 .. n + 1
        /\ \A k \in 1 .. n : notices'[q][k] = notices[q][k]
        /\ notices'[q][n + 1].nid = Received(q).invite.nid
        BY <1>1, <1>3, LiveEntry
    <2>4. \A k \in 1 .. n : notices'[q][k].nid # notices'[q][n + 1].nid
        <3>1. \A k \in 1 .. n : notices[q][k].nid # Received(q).invite.nid
            BY <2>2, <2>3 DEF InBox
        <3>2. ASSUME NEW k \in 1 .. n PROVE notices'[q][k].nid # notices'[q][n + 1].nid
            <4>1. notices'[q][k] = notices[q][k]
                BY <2>3
            <4>2. notices'[q][n + 1].nid = Received(q).invite.nid
                BY <2>3
            <4> QED
                BY <3>1, <4>1, <4>2
        <3> QED
            BY <3>2
    <2>5. CASE i \in 1 .. n /\ j \in 1 .. n
        <3>1. notices'[q][i] = notices[q][i] /\ notices'[q][j] = notices[q][j]
            BY <2>3, <2>5
        <3>2. notices[q][i].nid = notices[q][j].nid /\ i \in DOMAIN notices[q] /\ j \in DOMAIN notices[q]
            BY <2>3, <2>5, <3>1
        <3> QED
            BY <1>1, <3>2 DEF NoDoubleEntry
    <2>6. CASE i = n + 1 \/ j = n + 1
        BY <2>3, <2>4, <2>6
    <2>7. i \in 1 .. n + 1 /\ j \in 1 .. n + 1
        BY <2>3
    <2> QED
        BY <2>5, <2>6, <2>7
<1>4. CASE ReceiveNotifications(q)
    <2>1. /\ 1 \in DOMAIN replies[q] /\ Received(q) = replies[q][1]
          /\ Received(q).kind = "Notifications"
        BY <1>1, <1>4, ReceivedIsFirst DEF ReceiveNotifications
    <2>2. \A v \in Received(q).invites : NamesItsRow(v.nid, v.author, v.chat)
        BY <1>1, <2>1 DEF RowInv, InvitesNameTheirRow
    <2>3. PICK v \in Received(q).invites : notices'[q][i] = Entry(v)
        BY <1>1, <1>4, ListEntries
    <2>4. PICK w \in Received(q).invites : notices'[q][j] = Entry(w)
        BY <1>1, <1>4, ListEntries
    <2>5. v.nid = w.nid
        BY <2>3, <2>4 DEF Entry
    <2>6. v.author = w.author /\ v.chat = w.chat
        BY <2>2, <2>5 DEF NamesItsRow
    <2>7. notices'[q][i] = notices'[q][j]
        BY <2>3, <2>4, <2>5, <2>6 DEF Entry
    <2> QED
        BY <1>1, <1>4, <2>7, ListEntries
<1> QED
    BY <1>1, <1>2, <1>3, <1>4, BoxAfterStep

LEMMA OnceStep ==
    ASSUME OnceInv, ~CoarseClock, [Next]_vars
    PROVE  OnceInv'
BY RowInvStep, ArrivesOnceKept, NoDoubleEntryKept DEF OnceInv

\* The box never shows an invitation twice, for any number of users, chats, lists
\* asked for, reconnections, crashes and restarts, as long as no two notifications
\* share their created_at.
THEOREM ShownOnce ==
    ASSUME CoarseClock = FALSE
    PROVE  Spec => []NoDoubleEntry
<1>1. Init => OnceInv
    <2>1. Init => ArrivesOnce /\ NoDoubleEntry /\ InvitesNameTheirRow
        BY DEF Init, WireInit, BoxInit, ArrivesOnce, NoDoubleEntry, InvitesNameTheirRow
    <2> QED
        BY <2>1, InitTyped DEF OnceInv, RowInv
<1>2. OnceInv /\ [Next]_vars => OnceInv'
    <2>1. ~CoarseClock
        OBVIOUS
    <2> QED
        BY <2>1, OnceStep
<1>3. OnceInv => NoDoubleEntry
    BY DEF OnceInv
<1> QED
    BY <1>1, <1>2, <1>3, PTL DEF Spec
=============================================================================
