--------------------------- MODULE ChatTypeProofs ---------------------------
(***************************************************************************)
(* Type correctness of ChatSystem.                                         *)
(***************************************************************************)
EXTENDS ChatProperties, SequenceTheorems, FiniteSetTheorems, WellFoundedInduction, TLAPS

-----------------------------------------------------------------------------
(***************************************************************************)
(* The sockets.                                                            *)
(***************************************************************************)
LEMMA PostTyped ==
    ASSUME WireTypeOK, NEW p \in Clients, NEW s \in Nat, NEW b \in RequestBodies,
           Running(p), Post(p, s, b)
    PROVE  requests' \in [Clients -> Seq(Requests)]
<1> DEFINE r == [from |-> identity[p], session |-> s, sent |-> FALSE, body |-> b]
<1>1. r \in Requests
    BY DEF WireTypeOK, Running, Requests
<1>2. requests[p] \in Seq(Requests)
    BY DEF WireTypeOK
<1>3. Append(requests[p], r) \in Seq(Requests)
    BY <1>1, <1>2, AppendProperties
<1> QED
    BY <1>3 DEF Post, WireTypeOK

LEMMA DispatchTyped ==
    ASSUME WireTypeOK, NEW ids, NEW ms \in Seq(Replies), Dispatch(ids, ms)
    PROVE  replies' \in [Clients -> Seq(Replies)]
<1>1. ASSUME NEW p \in Clients PROVE replies[p] \o ms \in Seq(Replies)
    BY ConcatProperties DEF WireTypeOK
<1> QED
    BY <1>1 DEF Dispatch, WireTypeOK

LEMMA HeadRequestTyped ==
    ASSUME WireTypeOK, NEW p \in Clients, requests[p] # <<>>
    PROVE  Head(requests[p]) \in Requests /\ Tail(requests[p]) \in Seq(Requests)
BY HeadTailProperties DEF WireTypeOK

LEMMA HeadReplyTyped ==
    ASSUME WireTypeOK, NEW p \in Clients, replies[p] # <<>>
    PROVE  Head(replies[p]) \in Replies /\ Tail(replies[p]) \in Seq(Replies)
BY HeadTailProperties DEF WireTypeOK

LEMMA SuffixTyped ==
    ASSUME NEW S, NEW q \in Seq(S), NEW n \in 1 .. Len(q) + 1
    PROVE  SubSeq(q, n, Len(q)) \in Seq(S)
BY SubSeqProperties, LenProperties, ElementOfSeq

LEMMA PrefixTyped ==
    ASSUME NEW S, NEW q \in Seq(S), NEW n \in 0 .. Len(q)
    PROVE  SubSeq(q, 1, n) \in Seq(S)
BY SubSeqProperties, LenProperties, ElementOfSeq

LEMMA SuffixElements ==
    ASSUME NEW S, NEW q \in Seq(S), NEW n \in 1 .. Len(q) + 1,
           NEW k \in DOMAIN SubSeq(q, n, Len(q))
    PROVE  k \in 1 .. Len(q) - n + 1 /\ SubSeq(q, n, Len(q))[k] = q[n + k - 1]
<1>1. Len(q) \in Nat /\ \A i \in n .. Len(q) : q[i] \in S
    BY LenProperties, ElementOfSeq
<1>2. /\ SubSeq(q, n, Len(q)) \in Seq(S)
      /\ Len(SubSeq(q, n, Len(q))) = IF n <= Len(q) THEN Len(q) - n + 1 ELSE 0
      /\ \A i \in 1 .. Len(q) - n + 1 : SubSeq(q, n, Len(q))[i] = q[n + i - 1]
    BY <1>1, SubSeqProperties
<1> QED
    BY <1>1, <1>2, LenProperties

LEMMA PrefixElements ==
    ASSUME NEW S, NEW q \in Seq(S), NEW n \in 0 .. Len(q), NEW k \in DOMAIN SubSeq(q, 1, n)
    PROVE  k \in 1 .. n /\ SubSeq(q, 1, n)[k] = q[k]
<1>1. Len(q) \in Nat /\ \A i \in 1 .. n : q[i] \in S
    BY LenProperties, ElementOfSeq
<1>2. /\ SubSeq(q, 1, n) \in Seq(S)
      /\ Len(SubSeq(q, 1, n)) = IF 1 <= n THEN n ELSE 0
      /\ \A i \in 1 .. n : SubSeq(q, 1, n)[i] = q[i]
    BY <1>1, SubSeqProperties
<1> QED
    BY <1>1, <1>2, LenProperties

LEMMA StaleTyped ==
    ASSUME WireTypeOK, NEW p \in Clients
    PROVE  Stale(p) \in 0 .. Len(requests[p])
<1> DEFINE q == requests[p]
<1>1. q \in Seq(Requests) /\ Len(q) \in Nat /\ DOMAIN q = 1 .. Len(q)
    BY LenProperties DEF WireTypeOK
<1>2. IsFiniteSet(1 .. Len(q)) /\ Cardinality(1 .. Len(q)) = Len(q)
    BY <1>1, FS_Interval
<1>3. {i \in DOMAIN q : q[i].sent} \in SUBSET (1 .. Len(q))
    BY <1>1
<1> QED
    BY <1>1, <1>2, <1>3, FS_Subset, FS_CardinalityType DEF Stale

\* A connection that closes leaves marked requests behind, and nothing else.
LEMMA TransmittedTyped ==
    ASSUME WireTypeOK, NEW p \in Clients, NEW left \in Transmitted(p)
    PROVE  left \in Seq(Requests)
<1> DEFINE q == requests[p]
<1>1. q \in Seq(Requests) /\ Len(q) \in Nat /\ DOMAIN q = 1 .. Len(q)
    BY LenProperties DEF WireTypeOK
<1>2. Stale(p) \in 0 .. Len(q)
    BY StaleTyped
<1>3. PICK n \in 0 .. Len(q) : left = [i \in 1 .. n |-> [q[i] EXCEPT !.sent = TRUE]]
    BY <1>1, <1>2 DEF Transmitted
<1>4. ASSUME NEW i \in 1 .. n PROVE left[i] \in Requests
    <2>1. q[i] \in Requests
        BY <1>1, <1>3, ElementOfSeq
    <2> QED
        BY <1>3, <2>1 DEF Requests
<1> QED
    BY <1>1, <1>3, <1>4

LEMMA ReconnectTyped ==
    ASSUME WireTypeOK, NEW p \in Clients, NEW id \in Ids \cup {NoId}, Reconnect(p, id)
    PROVE  WireTypeOK'
<1>1. requests' \in [Clients -> Seq(Requests)]
    BY TransmittedTyped DEF Reconnect, WireTypeOK
<1>2. replies' \in [Clients -> Seq(Replies)]
    BY EmptySeq DEF Reconnect, WireTypeOK
<1> QED
    BY <1>1, <1>2 DEF Reconnect, WireTypeOK

LEMMA BreakTyped ==
    ASSUME WireTypeOK, NEW unread \in [Clients -> Seq(Requests)], BreakConnections(unread)
    PROVE  WireTypeOK'
<1>1. ASSUME NEW p \in Clients PROVE requests'[p] \in Seq(Requests)
    <2>1. requests'[p] \in Resendable(unread[p])
        BY DEF BreakConnections
    <2>2. unread[p] \in Seq(Requests)
        OBVIOUS
    <2> QED
        BY <2>1, <2>2, SuffixTyped DEF Resendable
<1>2. ASSUME NEW p \in Clients PROVE replies'[p] \in Seq(Replies)
    <2>1. replies'[p] \in Arrived(replies[p])
        BY DEF BreakConnections
    <2>2. replies[p] \in Seq(Replies)
        BY DEF WireTypeOK
    <2> QED
        BY <2>1, <2>2, PrefixTyped DEF Arrived
<1>3. requests' \in [Clients -> Seq(Requests)]
    BY <1>1 DEF BreakConnections
<1>4. replies' \in [Clients -> Seq(Replies)]
    BY <1>2 DEF BreakConnections
<1> QED
    BY <1>3, <1>4 DEF BreakConnections, WireTypeOK

\* The fields of a request and of a message are those of its kind.
LEMMA BodyFields ==
    ASSUME NEW b \in RequestBodies
    PROVE  /\ b.kind \in {"Connect", "ChangeName", "Register", "Authorize"} => b.login \in Logins
           /\ b.kind = "SendMessage" => b.chat \in Int
           /\ b.kind = "CreateChat" => b.invited \subseteq Logins
           /\ b.kind \in {"AcceptCreateChat", "DeclineCreateChat"} =>
                 b.nid \in Nat /\ b.chat \in Nat
BY DEF RequestBodies

LEMMA ReplyFields ==
    ASSUME NEW m \in Replies
    PROVE  /\ m.kind = "NewClientName" => m.login \in Logins
           /\ m.kind = "Authorize" => m.session \in Nat
           /\ m.kind = "NewChat" => m.chat \in Nat
           /\ m.kind = "ClientChats" => m.chats \subseteq Nat
           /\ m.kind = "CreateChat" => m.invite \in Invites
           /\ m.kind = "Notifications" => m.invites \subseteq Invites /\ IsFiniteSet(m.invites)
           /\ m.kind = "IncomingMessage" =>
                 m.author \in Logins /\ m.chat \in Int /\ m.id \in Nat
BY DEF Replies

-----------------------------------------------------------------------------
(***************************************************************************)
(* The server.                                                             *)
(***************************************************************************)
\* What a handler that serves p's request may rely on.
LEMMA CurrentTyped ==
    ASSUME WireTypeOK, NEW p \in Clients, Reads(p)
    PROVE  /\ requests[p] # <<>>
           /\ Current(p).from \in Ids
           /\ Current(p).session \in Nat
           /\ Current(p).body \in RequestBodies
BY HeadRequestTyped DEF Reads, Readable, Current, Requests

LEMMA TakenTyped ==
    ASSUME WireTypeOK, NEW p \in Clients, Reads(p)
    PROVE  Taken(p) \in [Clients -> Seq(Requests)]
BY HeadRequestTyped DEF Reads, Readable, Taken, WireTypeOK

LEMMA TakeTyped ==
    ASSUME WireTypeOK, NEW p \in Clients, Reads(p), Take(p),
           replies' \in [Clients -> Seq(Replies)]
    PROVE  WireTypeOK'
BY TakenTyped DEF Take, WireTypeOK

\* The user behind a request that needs a session is one with a session.
LEMMA EntitledIsLogin ==
    ASSUME WireTypeOK, ServerTypeOK, NEW p \in Clients, Reads(p), Entitled(p),
           Current(p).body.kind \notin NonSessionActions
    PROVE  Current(p).from \in Logins
<1>1. [user |-> Current(p).from, device |-> p, id |-> Current(p).session]
          \in [user : Logins, device : Clients, id : Nat]
    BY DEF Entitled, DoesSessionExist, ServerTypeOK
<1> QED
    BY <1>1

LEMMA GoDownTyped ==
    ASSUME WireTypeOK, ServerTypeOK, NEW unread \in [Clients -> Seq(Requests)],
           GoDown(unread), UNCHANGED tableVars
    PROVE  WireTypeOK' /\ ServerTypeOK'
<1>1. WireTypeOK'
    BY BreakTyped DEF GoDown
<1>2. ServerTypeOK'
    BY DEF GoDown, ServerTypeOK, Jobs, tableVars, accountVars, chatVars, noticeVars
<1> QED
    BY <1>1, <1>2

LEMMA ReplyTyped ==
    ASSUME WireTypeOK, NEW p \in Clients, Reads(p), Take(p),
           NEW ms \in Seq(Replies), Reply(p, ms)
    PROVE  WireTypeOK'
BY DispatchTyped, TakeTyped DEF Reply

LEMMA RefuseWithoutSessionTyped ==
    ASSUME WireTypeOK, NEW p \in Clients, RefuseWithoutSession(p)
    PROVE  WireTypeOK'
<1>1. <<NotAuthorized>> \in Seq(Replies)
    BY DEF NotAuthorized, Replies
<1> QED
    BY <1>1, ReplyTyped DEF RefuseWithoutSession

LEMMA HandleConnectionTyped ==
    ASSUME WireTypeOK, NEW p \in Clients, HandleConnection(p)
    PROVE  WireTypeOK'
<1> DEFINE login == Current(p).body.login
<1>1. Reads(p) /\ Take(p) /\ login \in Logins
    BY CurrentTyped, BodyFields DEF HandleConnection, Serves
<1>2. <<NotAuthorized>> \in Seq(Replies)
    BY DEF NotAuthorized, Replies
<1>3. <<[kind |-> "AlreadyAuthorized"], [kind |-> "NewClientName", login |-> login]>> \in Seq(Replies)
    BY <1>1 DEF Replies
<1> QED
    BY <1>1, <1>2, <1>3, ReplyTyped DEF HandleConnection

LEMMA HandleRegisterTyped ==
    ASSUME WireTypeOK, ServerTypeOK, NEW p \in Clients, HandleRegister(p)
    PROVE  WireTypeOK' /\ ServerTypeOK'
<1> DEFINE b == Current(p).body
           ok == b.valid /\ b.login \notin users
<1>1. Reads(p) /\ Take(p) /\ b.login \in Logins /\ b.valid \in BOOLEAN
    BY CurrentTyped DEF HandleRegister, Serves, RequestBodies
<1>2. <<[kind |-> "Register", registered |-> ok]>> \in Seq(Replies)
    BY <1>1 DEF Replies
<1>3. WireTypeOK'
    BY <1>1, <1>2, ReplyTyped DEF HandleRegister
<1>4. ServerTypeOK'
    BY <1>1 DEF HandleRegister, ServerTypeOK, chatVars, noticeVars
<1> QED
    BY <1>3, <1>4

LEMMA HandleAuthorizeTyped ==
    ASSUME WireTypeOK, ServerTypeOK, NEW p \in Clients, HandleAuthorize(p)
    PROVE  WireTypeOK' /\ ServerTypeOK'
<1> DEFINE login == Current(p).body.login
<1>1. Reads(p) /\ Take(p) /\ login \in Logins
    BY CurrentTyped, BodyFields DEF FreshSessionId, HandleAuthorize, Serves
<1>2. issued' \in Nat
    BY DEF FreshSessionId, HandleAuthorize, ServerTypeOK
<1>3. /\ <<[kind |-> "Authorize", session |-> issued'],
            [kind |-> "NewClientName", login |-> login]>> \in Seq(Replies)
      /\ <<[kind |-> "Authorize", session |-> 0]>> \in Seq(Replies)
    BY <1>1, <1>2 DEF Replies
<1>4. WireTypeOK'
    BY <1>1, <1>3, ReplyTyped DEF FreshSessionId, HandleAuthorize
<1>5. sessions' \subseteq [user : Logins, device : Clients, id : Nat]
    BY <1>1, <1>2 DEF FreshSessionId, HandleAuthorize, ServerTypeOK
<1>6. ServerTypeOK'
    BY <1>2, <1>5 DEF FreshSessionId, HandleAuthorize, ServerTypeOK, chatVars, noticeVars
<1> QED
    BY <1>4, <1>6

LEMMA HandleLogoutTyped ==
    ASSUME WireTypeOK, ServerTypeOK, NEW p \in Clients, HandleLogout(p)
    PROVE  WireTypeOK' /\ ServerTypeOK'
<1>1. <<NotAuthorized>> \in Seq(Replies)
    BY DEF NotAuthorized, Replies
<1>2. WireTypeOK'
    BY <1>1, ReplyTyped DEF HandleLogout, Serves
<1>3. ServerTypeOK'
    BY DEF HandleLogout, ServerTypeOK, chatVars, noticeVars
<1> QED
    BY <1>2, <1>3

LEMMA NewestAfterTyped ==
    ASSUME NEW newest, NEW n \in Nat, newest \subseteq 1 .. n, NEW x \in NewestAfter(newest, n + 1)
    PROVE  x \subseteq 1 .. n + 1
BY DEF NewestAfter

LEMMA PrepareNewChatSessionTyped ==
    ASSUME WireTypeOK, ServerTypeOK, NEW p \in Clients, PrepareNewChatSession(p)
    PROVE  WireTypeOK' /\ ServerTypeOK'
<1> DEFINE u == Current(p).from
<1>1. Reads(p) /\ Take(p) /\ u \in Logins
    BY EntitledIsLogin DEF PrepareNewChatSession, Serves, NonSessionActions
<1>2. Current(p).body.invited \subseteq Logins
    BY <1>1, CurrentTyped, BodyFields DEF PrepareNewChatSession, Serves
<1>3. WireTypeOK'
    BY <1>1, TakeTyped DEF PrepareNewChatSession, WireTypeOK
<1>4. /\ Len(chats) \in Nat /\ DOMAIN chats = 1 .. Len(chats)
      /\ chats' \in Seq(Logins) /\ Len(chats') = Len(chats) + 1 /\ DOMAIN chats' = 1 .. Len(chats')
    BY <1>1, AppendProperties, LenProperties DEF PrepareNewChatSession, ServerTypeOK
<1>5. newestChats' \subseteq DOMAIN chats'
    BY <1>4, NewestAfterTyped DEF PrepareNewChatSession, ServerTypeOK
<1>6. PICK c \in newestChats' :
        job' = [at |-> "asking", creator |-> u, chat |-> c,
                rest |-> Current(p).body.invited \ {u}]
    BY DEF PrepareNewChatSession
<1>7. job' \in Jobs
    BY <1>1, <1>2, <1>4, <1>5, <1>6 DEF Jobs
<1>8. ServerTypeOK'
    BY <1>4, <1>5, <1>7 DEF PrepareNewChatSession, ServerTypeOK, accountVars, noticeVars
<1> QED
    BY <1>3, <1>8

LEMMA AskingJob ==
    ASSUME ServerTypeOK, job.at = "asking"
    PROVE  /\ job.creator \in Logins /\ job.chat \in Nat /\ job.rest \subseteq Logins
           /\ job \in [at : {"asking"}, creator : Logins, chat : Nat, rest : SUBSET Logins]
BY DEF ServerTypeOK, Jobs, Idle

LEMMA AskClientTyped ==
    ASSUME WireTypeOK, ServerTypeOK, NEW u \in Logins, AskClient(u)
    PROVE  WireTypeOK' /\ ServerTypeOK'
<1>1. /\ job.creator \in Logins /\ job.chat \in Nat
      /\ job \in [at : {"asking"}, creator : Logins, chat : Nat, rest : SUBSET Logins]
    BY AskingJob DEF AskClient
<1>2. job' \in Jobs
    BY <1>1 DEF AskClient, Jobs
<1>3. CASE u \in users
    <2> DEFINE row == [from |-> job.creator, to |-> u, chat |-> job.chat, checked |-> FALSE]
    <2>1. row \in Notifications
        BY <1>1 DEF Notifications
    <2>2. notifications' = Append(notifications, row)
        BY <1>3 DEF AskClient
    <2>3. /\ Len(notifications) \in Nat /\ DOMAIN notifications = 1 .. Len(notifications)
          /\ notifications' \in Seq(Notifications)
          /\ Len(notifications') = Len(notifications) + 1
          /\ DOMAIN notifications' = 1 .. Len(notifications')
        BY <2>1, <2>2, AppendProperties, LenProperties DEF ServerTypeOK
    <2>4. newestNotifications' \subseteq DOMAIN notifications'
        BY <1>3, <2>3, NewestAfterTyped DEF AskClient, ServerTypeOK
    <2>5. PICK n \in newestNotifications' :
            Dispatch({u}, <<[kind |-> "CreateChat", invite |->
                [nid |-> n, author |-> job.creator, chat |-> job.chat]]>>)
        BY <1>3 DEF AskClient
    <2>6. <<[kind |-> "CreateChat", invite |->
                [nid |-> n, author |-> job.creator, chat |-> job.chat]]>> \in Seq(Replies)
        BY <1>1, <2>3, <2>4 DEF Replies, Invites
    <2>7. replies' \in [Clients -> Seq(Replies)]
        BY <2>5, <2>6, DispatchTyped
    <2> QED
        BY <1>2, <2>3, <2>4, <2>7
           DEF AskClient, ServerTypeOK, WireTypeOK, accountVars, chatVars
<1>4. CASE u \notin users
    BY <1>2, <1>4 DEF AskClient, ServerTypeOK, WireTypeOK, accountVars, chatVars
<1> QED
    BY <1>3, <1>4

LEMMA AddClientToChatTyped ==
    ASSUME ServerTypeOK, NEW u \in Logins, NEW c \in Nat, AddClientToChat(u, c)
    PROVE  userChats' \subseteq Memberships
BY DEF ServerTypeOK, AddClientToChat, Memberships

LEMMA FinishNewChatTyped ==
    ASSUME WireTypeOK, ServerTypeOK, FinishNewChat
    PROVE  WireTypeOK' /\ ServerTypeOK'
<1>1. job.creator \in Logins /\ job.chat \in Nat
    BY AskingJob DEF FinishNewChat
<1>2. <<[kind |-> "NewChat", chat |-> job.chat]>> \in Seq(Replies)
    BY <1>1 DEF Replies
<1>3. replies' \in [Clients -> Seq(Replies)]
    BY <1>2, DispatchTyped DEF FinishNewChat
<1>4. userChats' \subseteq Memberships
    BY <1>1, AddClientToChatTyped DEF FinishNewChat
<1>5. ServerTypeOK'
    BY <1>4 DEF FinishNewChat, ServerTypeOK, Jobs, accountVars, noticeVars
<1> QED
    BY <1>3, <1>5 DEF FinishNewChat, WireTypeOK

LEMMA FinishNewChatFailsTyped ==
    ASSUME WireTypeOK, ServerTypeOK, FinishNewChatFails
    PROVE  WireTypeOK' /\ ServerTypeOK'
BY GoDownTyped DEF FinishNewChatFails, WireTypeOK

LEMMA AnswerFields ==
    ASSUME WireTypeOK, ServerTypeOK, NEW p \in Clients,
           Serves(p, "AcceptCreateChat") \/ Serves(p, "DeclineCreateChat")
    PROVE  /\ Reads(p) /\ Current(p).from \in Logins
           /\ Current(p).body.nid \in Nat /\ Current(p).body.chat \in Nat
BY EntitledIsLogin, CurrentTyped, BodyFields DEF Serves, NonSessionActions

LEMMA HandleResponseForInviteTyped ==
    ASSUME WireTypeOK, ServerTypeOK, NEW p \in Clients, HandleResponseForInvite(p)
    PROVE  WireTypeOK' /\ ServerTypeOK'
<1> DEFINE u == Current(p).from
           c == Current(p).body.chat
<1>1. Reads(p) /\ Take(p) /\ u \in Logins /\ Current(p).body.nid \in Nat /\ c \in Nat
    BY AnswerFields DEF HandleResponseForInvite
<1>2. job' \in Jobs
    BY <1>1 DEF HandleResponseForInvite, Jobs
<1>3. CASE Serves(p, "AcceptCreateChat") /\ AddClientToChat(u, c)
              /\ Reply(p, <<[kind |-> "NewChat", chat |-> c]>>)
    <2>1. <<[kind |-> "NewChat", chat |-> c]>> \in Seq(Replies)
        BY <1>1 DEF Replies
    <2>2. WireTypeOK'
        BY <1>1, <1>3, <2>1, ReplyTyped
    <2>3. userChats' \subseteq Memberships
        BY <1>1, <1>3, AddClientToChatTyped
    <2> QED
        BY <1>2, <2>2, <2>3 DEF HandleResponseForInvite, ServerTypeOK, accountVars, noticeVars
<1>4. CASE UNCHANGED <<userChats, replies>>
    <2>1. WireTypeOK'
        BY <1>1, <1>4, TakeTyped DEF WireTypeOK
    <2> QED
        BY <1>2, <1>4, <2>1 DEF HandleResponseForInvite, ServerTypeOK, accountVars, noticeVars
<1> QED
    BY <1>3, <1>4 DEF HandleResponseForInvite

LEMMA AcceptFailsTyped ==
    ASSUME WireTypeOK, ServerTypeOK, NEW p \in Clients, AcceptFails(p)
    PROVE  WireTypeOK' /\ ServerTypeOK'
<1>1. Taken(p) \in [Clients -> Seq(Requests)]
    BY TakenTyped DEF AcceptFails, Serves
<1> QED
    BY <1>1, GoDownTyped DEF AcceptFails

LEMMA SetNotificationCheckedTyped ==
    ASSUME WireTypeOK, ServerTypeOK, SetNotificationChecked
    PROVE  WireTypeOK' /\ ServerTypeOK'
<1> DEFINE row(n) == IF n = job.nid THEN [notifications[n] EXCEPT !.checked = TRUE]
                                    ELSE notifications[n]
<1>1. DOMAIN notifications = 1 .. Len(notifications) /\ Len(notifications) \in Nat
    BY LenProperties DEF ServerTypeOK
<1>2. ASSUME NEW n \in 1 .. Len(notifications) PROVE row(n) \in Notifications
    <2>1. notifications[n] \in Notifications
        BY ElementOfSeq DEF ServerTypeOK
    <2> QED
        BY <2>1 DEF Notifications
<1>3. notifications' = [n \in 1 .. Len(notifications) |-> row(n)]
    BY <1>1 DEF SetNotificationChecked
<1> HIDE DEF row
<1>4. notifications' \in Seq(Notifications) /\ DOMAIN notifications' = DOMAIN notifications
    BY <1>1, <1>2, <1>3
<1>5. ServerTypeOK'
    BY <1>4 DEF SetNotificationChecked, ServerTypeOK, Jobs, accountVars, chatVars
<1>6. WireTypeOK'
    BY DEF SetNotificationChecked, WireTypeOK, wireVars
<1> QED
    BY <1>5, <1>6

LEMMA HandleClientChatsInfoRequestTyped ==
    ASSUME WireTypeOK, ServerTypeOK, NEW p \in Clients, HandleClientChatsInfoRequest(p)
    PROVE  WireTypeOK'
<1>1. GetClientChats(Current(p).from) \subseteq Nat
    BY DEF GetClientChats, ServerTypeOK, Memberships
<1>2. <<[kind |-> "ClientChats", chats |-> GetClientChats(Current(p).from)]>> \in Seq(Replies)
    BY <1>1 DEF Replies
<1> QED
    BY <1>2, ReplyTyped DEF HandleClientChatsInfoRequest, Serves

\* The open invitations of a user: finitely many, one per row.
LEMMA ClientNotificationsTyped ==
    ASSUME ServerTypeOK, NEW u
    PROVE  GetClientNotifications(u) \subseteq Invites /\ IsFiniteSet(GetClientNotifications(u))
<1> DEFINE waiting == {i \in DOMAIN notifications :
                          notifications[i].to = u /\ ~notifications[i].checked}
           invite(n) == [nid |-> n, author |-> notifications[n].from, chat |-> notifications[n].chat]
           f == [n \in waiting |-> invite(n)]
<1>1. DOMAIN notifications = 1 .. Len(notifications) /\ Len(notifications) \in Nat
    BY LenProperties DEF ServerTypeOK
<1>2. ASSUME NEW n \in waiting PROVE invite(n) \in Invites
    <2>1. notifications[n] \in Notifications
        BY <1>1, ElementOfSeq DEF ServerTypeOK
    <2> QED
        BY <1>1, <2>1 DEF Notifications, Invites
<1>3. IsFiniteSet(waiting)
    <2>1. IsFiniteSet(1 .. Len(notifications))
        BY <1>1, FS_Interval
    <2>2. waiting \in SUBSET (1 .. Len(notifications))
        BY <1>1
    <2> QED
        BY <2>1, <2>2, FS_Subset
<1>4. GetClientNotifications(u) = {invite(n) : n \in waiting}
    BY DEF GetClientNotifications
<1>5. f \in Surjection(waiting, {invite(n) : n \in waiting})
    BY DEF Surjection
<1> QED
    BY <1>2, <1>3, <1>4, <1>5, FS_Surjection

LEMMA HandleClientNotificationsTyped ==
    ASSUME WireTypeOK, ServerTypeOK, NEW p \in Clients, HandleClientNotifications(p)
    PROVE  WireTypeOK'
<1> DEFINE list == GetClientNotifications(Current(p).from)
<1>1. list \subseteq Invites /\ IsFiniteSet(list)
    BY ClientNotificationsTyped
<1> HIDE DEF list
<1>2. <<[kind |-> "Notifications", invites |-> list]>> \in Seq(Replies)
    BY <1>1 DEF Replies
<1> QED
    BY <1>2, ReplyTyped DEF HandleClientNotifications, Serves, list

LEMMA RefuseMessageTyped ==
    ASSUME WireTypeOK, NEW p \in Clients, RefuseMessage(p)
    PROVE  WireTypeOK'
BY TakeTyped DEF RefuseMessage, Serves, WireTypeOK

\* MAX(id) + 1 is a number because ids do not run ahead of the table.
IdsBounded == \A i \in DOMAIN messages : messages[i].id \in 1 .. i

LEMMA MaxOfBounded ==
    ASSUME NEW n \in Nat, NEW S \in SUBSET (0 .. n), S # {}
    PROVE  Max(S) \in S /\ \A y \in S : Max(S) >= y
<1> DEFINE R == OpToRel(<, Nat)
           bounds == {k \in 0 .. n : \A y \in S : k >= y}
<1>1. bounds \subseteq Nat /\ bounds # {}
    <2>1. n \in bounds
        OBVIOUS
    <2> QED
        BY <2>1
<1>2. IsWellFoundedOn(R, Nat)
    BY NatLessThanWellFounded
<1>3. \A x, y \in Nat : x < y => <<x, y>> \in R
    BY DEF OpToRel
<1> HIDE DEF R, bounds
<1>4. \E m \in bounds : \A k \in bounds : ~ (<<k, m>> \in R)
    BY <1>1, <1>2, WFMin
<1>5. PICK m \in bounds : \A k \in bounds : ~ (k < m)
    BY <1>1, <1>3, <1>4
<1> USE DEF bounds
<1>6. m \in S
    <2>1. SUFFICES ASSUME m \notin S PROVE FALSE
        OBVIOUS
    <2>2. m \in 0 .. n /\ \A y \in S : y \in 0 .. n /\ m >= y /\ y # m
        BY <1>5, <2>1
    <2>3. PICK y \in S : TRUE
        OBVIOUS
    <2>4. m - 1 \in 0 .. n /\ \A z \in S : m - 1 >= z
        BY <2>2, <2>3
    <2>5. m - 1 \in bounds
        BY <2>4
    <2> QED
        BY <1>5, <2>2, <2>5
<1>7. \E x \in S : \A y \in S : x >= y
    BY <1>5, <1>6
<1> QED
    BY <1>7 DEF Max

LEMMA NextMessageIdTyped ==
    ASSUME ServerTypeOK, IdsBounded, NEW c
    PROVE  NextMessageId(c) \in 1 .. Len(messages) + 1
<1> DEFINE ids == {0} \cup {messages[i].id : i \in {j \in DOMAIN messages : messages[j].chat = c}}
<1>1. DOMAIN messages = 1 .. Len(messages) /\ Len(messages) \in Nat
    BY LenProperties DEF ServerTypeOK
<1>2. ids \in SUBSET (0 .. Len(messages)) /\ ids # {}
    BY <1>1 DEF IdsBounded
<1>3. Max(ids) \in 0 .. Len(messages)
    BY <1>1, <1>2, MaxOfBounded
<1> QED
    BY <1>1, <1>3 DEF NextMessageId

LEMMA HandleSendMessageTyped ==
    ASSUME WireTypeOK, ServerTypeOK, IdsBounded, NEW p \in Clients, HandleSendMessage(p)
    PROVE  WireTypeOK' /\ ServerTypeOK' /\ IdsBounded'
<1> DEFINE c == Current(p).body.chat
           n == NextMessageId(c)
           row == [chat |-> c, id |-> n]
<1>1. Reads(p) /\ Take(p) /\ Current(p).from \in Logins /\ c \in Int
    BY EntitledIsLogin, CurrentTyped, BodyFields
       DEF HandleSendMessage, Serves, NonSessionActions
<1>2. n \in 1 .. Len(messages) + 1
    BY NextMessageIdTyped
<1>3. DOMAIN messages = 1 .. Len(messages) /\ Len(messages) \in Nat
    BY LenProperties DEF ServerTypeOK
<1>4. messages' = Append(messages, row)
      /\ job' = [at |-> "stored", author |-> Current(p).from, chat |-> c, id |-> n]
    BY DEF HandleSendMessage
<1> HIDE DEF c, n
<1>5. row \in MessageRows /\ messages \in Seq(MessageRows)
    BY <1>1, <1>2, <1>3 DEF MessageRows, ServerTypeOK
<1>6. /\ messages' \in Seq(MessageRows)
      /\ DOMAIN messages' = 1 .. Len(messages) + 1
      /\ \A i \in 1 .. Len(messages) : messages'[i] = messages[i]
      /\ messages'[Len(messages) + 1] = row
    BY <1>4, <1>5, AppendProperties, LenProperties
<1> HIDE DEF row
<1>7. IdsBounded'
    BY <1>2, <1>3, <1>6 DEF IdsBounded, row
<1>8. job' \in Jobs
    BY <1>1, <1>2, <1>3, <1>4 DEF Jobs
<1>9. ServerTypeOK'
    BY <1>6, <1>8 DEF HandleSendMessage, ServerTypeOK, accountVars, chatVars, noticeVars
<1>10. WireTypeOK'
    BY <1>1, TakeTyped DEF HandleSendMessage, WireTypeOK
<1> QED
    BY <1>7, <1>9, <1>10

LEMMA DispatchMessageTyped ==
    ASSUME WireTypeOK, ServerTypeOK, DispatchMessage
    PROVE  WireTypeOK' /\ ServerTypeOK'
<1> DEFINE m == [kind |-> "IncomingMessage", author |-> job.author, chat |-> job.chat, id |-> job.id]
<1>1. job.author \in Logins /\ job.chat \in Int /\ job.id \in Nat
    BY DEF DispatchMessage, ServerTypeOK, Jobs, Idle
<1>2. <<m>> \in Seq(Replies)
    BY <1>1 DEF Replies
<1>3. replies' \in [Clients -> Seq(Replies)]
    BY <1>2, DispatchTyped DEF DispatchMessage
<1>4. ServerTypeOK'
    BY DEF DispatchMessage, ServerTypeOK, Jobs, tableVars, accountVars, chatVars, noticeVars
<1> QED
    BY <1>3, <1>4 DEF DispatchMessage, WireTypeOK

LEMMA HaltTyped ==
    ASSUME WireTypeOK, ServerTypeOK, Halt
    PROVE  WireTypeOK' /\ ServerTypeOK'
BY GoDownTyped DEF Halt, WireTypeOK

LEMMA RestartTyped ==
    ASSUME WireTypeOK, ServerTypeOK, Restart
    PROVE  WireTypeOK' /\ ServerTypeOK'
BY DEF Restart, WireTypeOK, wireVars, ServerTypeOK, tableVars, accountVars, chatVars, noticeVars

\* Only HandleSendMessage writes the table of messages.
LEMMA MessagesKept ==
    ASSUME NEW p \in Clients,
           \/ RefuseWithoutSession(p) \/ HandleConnection(p) \/ HandleRegister(p)
           \/ HandleAuthorize(p) \/ HandleLogout(p) \/ PrepareNewChatSession(p)
           \/ HandleResponseForInvite(p) \/ AcceptFails(p) \/ HandleClientChatsInfoRequest(p)
           \/ HandleClientNotifications(p) \/ RefuseMessage(p)
    PROVE  UNCHANGED messages
BY DEF RefuseWithoutSession, HandleConnection, HandleRegister, HandleAuthorize, HandleLogout,
       PrepareNewChatSession, HandleResponseForInvite, AcceptFails,
       HandleClientChatsInfoRequest, HandleClientNotifications, RefuseMessage,
       serverVars, tableVars

LEMMA ServerStepTyped ==
    ASSUME WireTypeOK, ServerTypeOK, IdsBounded, ServerStep
    PROVE  WireTypeOK' /\ ServerTypeOK' /\ IdsBounded'
<1>1. ASSUME NEW p \in Clients,
             \/ RefuseWithoutSession(p) \/ HandleConnection(p)
             \/ HandleClientChatsInfoRequest(p) \/ HandleClientNotifications(p)
             \/ RefuseMessage(p)
      PROVE  WireTypeOK' /\ ServerTypeOK' /\ IdsBounded'
    <2>1. WireTypeOK'
        BY <1>1, RefuseWithoutSessionTyped, HandleConnectionTyped,
           HandleClientChatsInfoRequestTyped, HandleClientNotificationsTyped, RefuseMessageTyped
    <2>2. UNCHANGED serverVars
        BY <1>1 DEF RefuseWithoutSession, HandleConnection, HandleClientChatsInfoRequest,
                    HandleClientNotifications, RefuseMessage
    <2> QED
        BY <2>1, <2>2 DEF serverVars, tableVars, accountVars, chatVars, noticeVars,
                          ServerTypeOK, IdsBounded
<1>2. ASSUME NEW p \in Clients,
             \/ HandleRegister(p) \/ HandleAuthorize(p) \/ HandleLogout(p)
             \/ PrepareNewChatSession(p) \/ HandleResponseForInvite(p) \/ AcceptFails(p)
      PROVE  WireTypeOK' /\ ServerTypeOK' /\ IdsBounded'
    <2>1. WireTypeOK' /\ ServerTypeOK'
        BY <1>2, HandleRegisterTyped, HandleAuthorizeTyped, HandleLogoutTyped,
           PrepareNewChatSessionTyped, HandleResponseForInviteTyped, AcceptFailsTyped
    <2>2. UNCHANGED messages
        BY <1>2, MessagesKept
    <2> QED
        BY <2>1, <2>2 DEF IdsBounded
<1>3. ASSUME NEW p \in Clients, HandleSendMessage(p)
      PROVE  WireTypeOK' /\ ServerTypeOK' /\ IdsBounded'
    BY <1>3, HandleSendMessageTyped
<1>4. ASSUME \/ \E u \in Logins : AskClient(u)
             \/ FinishNewChat \/ FinishNewChatFails \/ SetNotificationChecked \/ DispatchMessage
      PROVE  WireTypeOK' /\ ServerTypeOK' /\ IdsBounded'
    <2>1. WireTypeOK' /\ ServerTypeOK'
        BY <1>4, AskClientTyped, FinishNewChatTyped, FinishNewChatFailsTyped,
           SetNotificationCheckedTyped, DispatchMessageTyped
    <2>2. UNCHANGED messages
        BY <1>4 DEF AskClient, FinishNewChat, FinishNewChatFails, SetNotificationChecked,
                    DispatchMessage, tableVars
    <2> QED
        BY <2>1, <2>2 DEF IdsBounded
<1> QED
    BY <1>1, <1>2, <1>3, <1>4 DEF ServerStep

-----------------------------------------------------------------------------
(***************************************************************************)
(* The clients.                                                            *)
(***************************************************************************)
LEMMA SendRequestTyped ==
    ASSUME WireTypeOK, ClientTypeOK, NEW p \in Clients, NEW b \in RequestBodies,
           SendRequest(p, b)
    PROVE  WireTypeOK'
<1>1. config[p].session \in Nat
    BY DEF ClientTypeOK
<1>2. requests' \in [Clients -> Seq(Requests)]
    BY <1>1, PostTyped DEF SendRequest
<1> QED
    BY <1>2 DEF SendRequest, WireTypeOK

LEMMA ConsumeTyped ==
    ASSUME WireTypeOK, NEW p \in Clients, NEW kind, Receives(p, kind)
    PROVE  /\ Received(p) \in Replies /\ Received(p).kind = kind
           /\ Consume(p) => WireTypeOK'
<1>1. Received(p) \in Replies /\ Tail(replies[p]) \in Seq(Replies)
    BY HeadReplyTyped DEF Receives, Received
<1> QED
    BY <1>1 DEF Receives, Received, Consume, WireTypeOK

LEMMA StartTyped ==
    ASSUME WireTypeOK, ClientTypeOK, NEW p \in Clients, NEW self \in Logins, Start(p, self)
    PROVE  WireTypeOK' /\ ClientTypeOK'
<1> DEFINE b == [kind  |-> "Connect",
                 login |-> IF config[p].identity = NoId THEN self ELSE config[p].identity]
<1>1. PICK t \in FreshTempIds :
        /\ identity' = [identity EXCEPT ![p] = t]
        /\ requests' = [requests EXCEPT ![p] = Append(@,
             [from |-> t, session |-> config[p].session, sent |-> FALSE, body |-> b])]
    BY DEF Start
<1>2. t \in Ids
    BY DEF FreshTempIds, Ids
<1>3. config[p].session \in Nat /\ config[p].identity \in Logins \cup {NoId}
    BY DEF ClientTypeOK
<1>4. b \in RequestBodies
    BY <1>3 DEF RequestBodies
<1> HIDE DEF b
<1>5. [from |-> t, session |-> config[p].session, sent |-> FALSE, body |-> b] \in Requests
    BY <1>2, <1>3, <1>4 DEF Requests
<1>6. requests[p] \in Seq(Requests)
    BY DEF WireTypeOK
<1>7. requests' \in [Clients -> Seq(Requests)]
    BY <1>1, <1>5, <1>6, AppendProperties DEF WireTypeOK
<1> QED
    BY <1>1, <1>2, <1>7 DEF Start, WireTypeOK, ClientTypeOK, clientVars

LEMMA CloseClientTyped ==
    ASSUME WireTypeOK, ClientTypeOK, NEW p \in Clients, CloseClient(p)
    PROVE  WireTypeOK' /\ ClientTypeOK'
<1>1. WireTypeOK'
    BY ReconnectTyped DEF CloseClient
<1> QED
    BY <1>1 DEF CloseClient, Show, ClientTypeOK

\* The requests users make about their accounts, and the pages they leaf through.
LEMMA AccountRequestTyped ==
    ASSUME WireTypeOK, ClientTypeOK, NEW p \in Clients, NEW u \in Logins, NEW v \in BOOLEAN,
           \/ SwitchPage(p) \/ RequestRegister(p, u, v) \/ RequestAuthorize(p, u, v)
           \/ RequestLogout(p) \/ RequestChangeIdentity(p, u)
    PROVE  WireTypeOK' /\ ClientTypeOK'
<1>1. CASE SwitchPage(p)
    BY <1>1 DEF SwitchPage, Show, WireTypeOK, wireVars, ClientTypeOK
<1>2. ASSUME NEW b \in {[kind |-> "Register", login |-> u, valid |-> v],
                        [kind |-> "Authorize", login |-> u, valid |-> v],
                        [kind |-> "Logout"], [kind |-> "ChangeName", login |-> u]},
             SendRequest(p, b), UNCHANGED clientVars
      PROVE  WireTypeOK' /\ ClientTypeOK'
    <2>1. b \in RequestBodies
        BY <1>2 DEF RequestBodies
    <2> QED
        BY <1>2, <2>1, SendRequestTyped DEF ClientTypeOK, clientVars
<1> QED
    BY <1>1, <1>2
       DEF RequestRegister, RequestAuthorize, RequestLogout, RequestChangeIdentity

LEMMA ReceiveNewClientNameTyped ==
    ASSUME WireTypeOK, ClientTypeOK, NEW p \in Clients, ReceiveNewClientName(p)
    PROVE  WireTypeOK' /\ ClientTypeOK'
<1>1. Received(p).login \in Logins /\ (Consume(p) => WireTypeOK')
    BY ConsumeTyped, ReplyFields DEF ReceiveNewClientName
<1>2. WireTypeOK'
    BY <1>1, ReconnectTyped DEF ReceiveNewClientName, Ids
<1> QED
    BY <1>1, <1>2 DEF ReceiveNewClientName, ClientTypeOK

LEMMA AccountReplyTyped ==
    ASSUME WireTypeOK, ClientTypeOK, NEW p \in Clients,
           \/ ReceiveRegister(p) \/ ReceiveAuthorize(p) \/ ReceiveAlreadyAuthorized(p)
           \/ ReceiveNotAuthorized(p) \/ ReceiveNewChat(p)
    PROVE  WireTypeOK' /\ ClientTypeOK'
<1>1. CASE ReceiveRegister(p)
    BY <1>1, ConsumeTyped DEF ReceiveRegister, Show, ClientTypeOK
<1>2. CASE ReceiveAuthorize(p)
    <2>1. Received(p).session \in Nat /\ WireTypeOK'
        BY <1>2, ConsumeTyped, ReplyFields DEF ReceiveAuthorize
    <2> QED
        BY <1>2, <2>1 DEF ReceiveAuthorize, Show, ClientTypeOK
<1>3. CASE ReceiveAlreadyAuthorized(p)
    BY <1>3, ConsumeTyped DEF ReceiveAlreadyAuthorized, Show, ClientTypeOK
<1>4. CASE ReceiveNotAuthorized(p)
    BY <1>4, ConsumeTyped DEF ReceiveNotAuthorized, Show, ClientTypeOK
<1>5. CASE ReceiveNewChat(p)
    <2>1. Received(p).chat \in Nat /\ WireTypeOK'
        BY <1>5, ConsumeTyped, ReplyFields DEF ReceiveNewChat
    <2> QED
        BY <1>5, <2>1 DEF ReceiveNewChat, ClientTypeOK
<1> QED
    BY <1>1, <1>2, <1>3, <1>4, <1>5

-----------------------------------------------------------------------------
(***************************************************************************)
(* The box of invitations.                                                 *)
(***************************************************************************)
LEMMA EntryTyped ==
    ASSUME NEW i \in Invites
    PROVE  Entry(i) \in Entries
BY MaxWindowsAssumption DEF Invites, Entry, Entries

\* The entries made from a list are some sequence of them.
LEMMA SetToSeqTyped ==
    ASSUME NEW T, NEW S \in SUBSET T, IsFiniteSet(S)
    PROVE  SetToSeq(S) \in Seq(T)
<1>1. Cardinality(S) \in Nat /\ ExistsBijection(1 .. Cardinality(S), S)
    BY FS_CardinalityType
<1>2. \E f \in [1 .. Cardinality(S) -> S] : IsInjective(f)
    BY <1>1 DEF ExistsBijection, Bijection, Injection
<1>3. SetToSeq(S) \in [1 .. Cardinality(S) -> S]
    BY <1>2 DEF SetToSeq
<1> QED
    BY <1>1, <1>3

LEMMA ListTyped ==
    ASSUME NEW I \in SUBSET Invites, IsFiniteSet(I)
    PROVE  SetToSeq({Entry(i) : i \in I}) \in Seq(Entries)
<1> DEFINE S == {Entry(i) : i \in I}
           f == [i \in I |-> Entry(i)]
<1>1. f \in Surjection(I, S)
    BY DEF Surjection
<1>2. IsFiniteSet(S)
    BY <1>1, FS_Surjection
<1>3. S \in SUBSET Entries
    BY EntryTyped
<1> QED
    BY <1>2, <1>3, SetToSeqTyped

LEMMA WindowsTyped ==
    ASSUME BoxTypeOK, NEW p \in Clients
    PROVE  Windows(p) \in Nat
<1> DEFINE A == DOMAIN notices[p]
           B == 1 .. MaxWindows
           W == {w \in A \X B : w[2] <= notices[p][w[1]].open}
<1>1. A = 1 .. Len(notices[p]) /\ Len(notices[p]) \in Nat
    BY LenProperties DEF BoxTypeOK
<1>2. IsFiniteSet(A) /\ IsFiniteSet(B)
    BY <1>1, FS_Interval, MaxWindowsAssumption
<1> HIDE DEF A, B
<1>3. IsFiniteSet(A \X B)
    BY <1>2, FS_Product
<1>4. IsFiniteSet(W)
    BY <1>3, FS_Subset
<1>5. Cardinality(W) \in Nat
    BY <1>4, FS_CardinalityType
<1> QED
    BY <1>5 DEF Windows, A, B

LEMMA RemoveAtTyped ==
    ASSUME NEW S, NEW q \in Seq(S), NEW i \in DOMAIN q
    PROVE  RemoveAt(q, i) \in Seq(S)
<1>1. i \in 1 .. Len(q) /\ Len(q) \in Nat
    BY LenProperties
<1>2. SubSeq(q, 1, i - 1) \in Seq(S) /\ SubSeq(q, i + 1, Len(q)) \in Seq(S)
    BY <1>1, PrefixTyped, SuffixTyped
<1> QED
    BY <1>2, ConcatProperties DEF RemoveAt

LEMMA ReceiveInvitesTyped ==
    ASSUME WireTypeOK, ClientTypeOK, BoxTypeOK, NEW p \in Clients,
           ReceiveCreateChat(p) \/ ReceiveNotifications(p)
    PROVE  WireTypeOK' /\ ClientTypeOK' /\ BoxTypeOK'
<1>1. CASE ReceiveCreateChat(p)
    <2>1. WireTypeOK' /\ Received(p).invite \in Invites
        BY <1>1, ConsumeTyped, ReplyFields DEF ReceiveCreateChat
    <2>2. notices[p] \in Seq(Entries) /\ Entry(Received(p).invite) \in Entries
        BY <2>1, EntryTyped DEF BoxTypeOK
    <2>3. Append(notices[p], Entry(Received(p).invite)) \in Seq(Entries)
        BY <2>2, AppendProperties
    <2> QED
        BY <1>1, <2>1, <2>3 DEF ReceiveCreateChat, ClientTypeOK, clientVars, BoxTypeOK
<1>2. CASE ReceiveNotifications(p)
    <2> DEFINE list == SetToSeq({Entry(i) : i \in Received(p).invites})
    <2>1. WireTypeOK' /\ Received(p).invites \subseteq Invites /\ IsFiniteSet(Received(p).invites)
        BY <1>2, ConsumeTyped, ReplyFields DEF ReceiveNotifications
    <2>2. list \in Seq(Entries)
        BY <2>1, ListTyped
    <2>3. notices' = [notices EXCEPT ![p] = list]
        BY <1>2 DEF ReceiveNotifications
    <2> HIDE DEF list
    <2>4. notices' \in [Clients -> Seq(Entries)]
        BY <2>2, <2>3 DEF BoxTypeOK
    <2>5. orphans' \in [Clients -> Nat]
        BY <1>2, WindowsTyped DEF ReceiveNotifications, BoxTypeOK
    <2> QED
        BY <1>2, <2>1, <2>4, <2>5 DEF ReceiveNotifications, ClientTypeOK, clientVars, BoxTypeOK
<1> QED
    BY <1>1, <1>2

LEMMA OnClickTyped ==
    ASSUME WireTypeOK, ClientTypeOK, BoxTypeOK, NEW p \in Clients,
           NEW i \in DOMAIN notices[p], OnClick(p, i)
    PROVE  WireTypeOK' /\ ClientTypeOK' /\ BoxTypeOK'
<1> DEFINE e == notices[p][i]
           n == [e EXCEPT !.open = @ + 1]
<1>1. notices[p] \in Seq(Entries) /\ i \in 1 .. Len(notices[p]) /\ Len(notices[p]) \in Nat
    BY LenProperties DEF BoxTypeOK
<1>2. e \in Entries
    BY <1>1, ElementOfSeq
<1>3. e.open < MaxWindows
    <2> DEFINE A == DOMAIN notices[p]
               B == 1 .. MaxWindows
               W == {w \in A \X B : w[2] <= notices[p][w[1]].open}
               M == {<<i, k>> : k \in B}
               f == [k \in B |-> <<i, k>>]
    <2>1. SUFFICES ASSUME ~ (e.open < MaxWindows) PROVE FALSE
        OBVIOUS
    <2>2. e.open = MaxWindows
        BY <1>2, <2>1, MaxWindowsAssumption DEF Entries
    <2>3. IsFiniteSet(A) /\ IsFiniteSet(B) /\ Cardinality(B) = MaxWindows
        <3>1. A = 1 .. Len(notices[p]) /\ Len(notices[p]) \in Int
            BY <1>1, LenProperties
        <3>2. IsFiniteSet(A)
            BY <3>1, FS_Interval
        <3>3. MaxWindows \in Int /\ MaxWindows >= 0
            BY MaxWindowsAssumption
        <3>4. IsFiniteSet(B) /\ Cardinality(B) = MaxWindows
            BY <3>3, FS_Interval
        <3> QED
            BY <3>2, <3>4
    <2>4. IsFiniteSet(W)
        <3>1. IsFiniteSet(A \X B)
            BY <2>3, FS_Product
        <3> QED
            BY <3>1, FS_Subset
    <2>5. f \in Injection(B, M)
        BY DEF Injection, IsInjective
    <2>6. f \in Surjection(B, M)
        BY DEF Surjection
    <2>7. Cardinality(M) = MaxWindows /\ IsFiniteSet(M)
        BY <2>3, <2>5, <2>6, FS_Bijection DEF ExistsBijection, Bijection
    <2>8. M \in SUBSET W
        BY <1>1, <2>2
    <2>9. Cardinality(M) <= Cardinality(W)
        BY <2>4, <2>8, FS_Subset
    <2> QED
        BY <2>4, <2>7, <2>9, FS_CardinalityType, MaxWindowsAssumption DEF OnClick, Windows
<1>4. n \in Entries
    BY <1>2, <1>3, MaxWindowsAssumption DEF Entries
<1>5. [notices[p] EXCEPT ![i] = n] \in Seq(Entries)
    BY <1>1, <1>4, ExceptSeq
<1>6. notices' = [notices EXCEPT ![p] = [notices[p] EXCEPT ![i] = n]]
    BY DEF OnClick
<1> HIDE DEF n
<1>7. notices' \in [Clients -> Seq(Entries)]
    BY <1>5, <1>6 DEF BoxTypeOK
<1> QED
    BY <1>7 DEF OnClick, WireTypeOK, wireVars, ClientTypeOK, clientVars, BoxTypeOK

LEMMA AnswerTyped ==
    ASSUME WireTypeOK, ClientTypeOK, BoxTypeOK, NEW p \in Clients,
           NEW i \in DOMAIN notices[p], NEW accept \in BOOLEAN, Answer(p, i, accept)
    PROVE  /\ WireTypeOK' /\ ClientTypeOK' /\ BoxTypeOK'
           /\ notices[p][i] \in Entries /\ identity[p] \in Ids
<1> DEFINE e == notices[p][i]
           b == [kind |-> IF accept THEN "AcceptCreateChat" ELSE "DeclineCreateChat",
                 nid |-> e.nid, chat |-> e.chat]
<1>1. e \in Entries
    BY LenProperties, ElementOfSeq DEF BoxTypeOK
<1>2. b \in RequestBodies
    BY <1>1 DEF Entries, RequestBodies
<1>3. SendRequest(p, b)
    BY DEF Answer
<1> HIDE DEF b
<1>4. WireTypeOK'
    BY <1>2, <1>3, SendRequestTyped
<1>5. RemoveAt(notices[p], i) \in Seq(Entries)
    BY RemoveAtTyped DEF BoxTypeOK
<1>6. notices' \in [Clients -> Seq(Entries)]
    BY <1>5 DEF Answer, BoxTypeOK
<1>7. orphans' \in [Clients -> Nat]
    <2>1. e.open > 0 /\ e.open \in Nat
        BY <1>1, MaxWindowsAssumption DEF Answer, Entries
    <2>2. orphans[p] + e.open - 1 \in Nat
        BY <2>1 DEF BoxTypeOK
    <2> QED
        BY <2>2 DEF Answer, BoxTypeOK
<1>8. identity[p] \in Ids
    BY <1>3 DEF SendRequest, Running, WireTypeOK
<1> QED
    BY <1>1, <1>4, <1>6, <1>7, <1>8 DEF Answer, ClientTypeOK, clientVars, BoxTypeOK

LEMMA FetchAllNotificationsTyped ==
    ASSUME WireTypeOK, ClientTypeOK, BoxTypeOK, NEW p \in Clients, FetchAllNotifications(p)
    PROVE  WireTypeOK' /\ ClientTypeOK' /\ BoxTypeOK'
<1>1. [kind |-> "Notifications"] \in RequestBodies
    BY DEF RequestBodies
<1>2. WireTypeOK'
    BY <1>1, SendRequestTyped DEF FetchAllNotifications
<1> QED
    BY <1>2 DEF FetchAllNotifications, ClientTypeOK, clientVars, BoxTypeOK, boxVars

LEMMA AnswerOrphanTyped ==
    ASSUME WireTypeOK, ClientTypeOK, BoxTypeOK, NEW p \in Clients, AnswerOrphan(p)
    PROVE  WireTypeOK' /\ ClientTypeOK' /\ BoxTypeOK'
BY DEF AnswerOrphan, WireTypeOK, wireVars, ClientTypeOK, clientVars, BoxTypeOK

LEMMA CloseBoxTyped ==
    ASSUME BoxTypeOK, NEW p \in Clients, CloseBox(p)
    PROVE  BoxTypeOK'
BY EmptySeq DEF CloseBox, BoxTypeOK

-----------------------------------------------------------------------------
(***************************************************************************)
(* The list of chats and the text frame.                                   *)
(***************************************************************************)
LEMMA PaneRequestTyped ==
    ASSUME WireTypeOK, ClientTypeOK, PaneTypeOK, NEW p \in Clients, NEW invited \in SUBSET Logins,
           \/ PopUp(p) \/ SendText(p) \/ SendLine(p) \/ RequestToCreateChat(p, invited)
    PROVE  WireTypeOK' /\ ClientTypeOK' /\ PaneTypeOK'
<1>1. ASSUME NEW b \in {[kind |-> "ClientChats"], [kind |-> "SendMessage", chat |-> current[p]],
                        [kind |-> "SendMessage", chat |-> chatId[p]],
                        [kind |-> "CreateChat", invited |-> invited]},
             SendRequest(p, b), UNCHANGED <<clientVars, paneVars>>
      PROVE  WireTypeOK' /\ ClientTypeOK' /\ PaneTypeOK'
    <2>1. current[p] \in Int /\ chatId[p] \in Int
        BY DEF PaneTypeOK, ClientTypeOK
    <2>2. b \in RequestBodies
        BY <1>1, <2>1 DEF RequestBodies
    <2> QED
        BY <1>1, <2>2, SendRequestTyped DEF ClientTypeOK, clientVars, PaneTypeOK, paneVars
<1> QED
    BY <1>1 DEF PopUp, SendText, SendLine, RequestToCreateChat

LEMMA SelectChatTyped ==
    ASSUME WireTypeOK, ClientTypeOK, PaneTypeOK, NEW p \in Clients, NEW c, SelectChat(p, c)
    PROVE  WireTypeOK' /\ ClientTypeOK' /\ PaneTypeOK'
<1>1. c \in Int
    BY DEF SelectChat, PaneTypeOK
<1>2. selected' \in [Clients -> Int] /\ current' \in [Clients -> Int] /\ UNCHANGED combo
    BY <1>1 DEF SelectChat, PaneTypeOK
<1>3. shown' \in [Clients -> Seq(Messages)]
    <2>1. <<>> \in Seq(Messages)
        BY EmptySeq
    <2>2. shown' = shown \/ shown' = [shown EXCEPT ![p] = <<>>]
        BY DEF SelectChat
    <2> QED
        BY <2>1, <2>2 DEF PaneTypeOK
<1>4. PaneTypeOK'
    BY <1>2, <1>3 DEF PaneTypeOK
<1> QED
    BY <1>4 DEF SelectChat, WireTypeOK, wireVars, ClientTypeOK, clientVars

LEMMA PaneReplyTyped ==
    ASSUME WireTypeOK, ClientTypeOK, PaneTypeOK, NEW p \in Clients,
           ReceiveClientChats(p) \/ ReceiveIncomingMessage(p)
    PROVE  WireTypeOK' /\ ClientTypeOK' /\ PaneTypeOK'
<1>1. CASE ReceiveClientChats(p)
    <2>1. WireTypeOK' /\ Received(p).chats \subseteq Nat
        BY <1>1, ConsumeTyped, ReplyFields DEF ReceiveClientChats
    <2> QED
        BY <1>1, <2>1 DEF ReceiveClientChats, ClientTypeOK, clientVars, PaneTypeOK
<1>2. CASE ReceiveIncomingMessage(p)
    <2> DEFINE m == [author |-> Received(p).author, chat |-> Received(p).chat,
                     id |-> Received(p).id]
    <2>1. WireTypeOK' /\ m \in Messages
        BY <1>2, ConsumeTyped, ReplyFields DEF ReceiveIncomingMessage, Messages
    <2>2. shown' = shown \/ shown' = [shown EXCEPT ![p] = Append(shown[p], m)]
        BY <1>2 DEF ReceiveIncomingMessage
    <2> HIDE DEF m
    <2>3. Append(shown[p], m) \in Seq(Messages)
        BY <2>1, AppendProperties DEF PaneTypeOK
    <2> QED
        BY <1>2, <2>1, <2>2, <2>3
           DEF ReceiveIncomingMessage, ClientTypeOK, clientVars, PaneTypeOK
<1> QED
    BY <1>1, <1>2

LEMMA ClosePaneTyped ==
    ASSUME PaneTypeOK, NEW p \in Clients, ClosePane(p)
    PROVE  PaneTypeOK'
BY EmptySeq DEF ClosePane, PaneTypeOK

-----------------------------------------------------------------------------
(***************************************************************************)
(* The system.                                                             *)
(***************************************************************************)
TypeInv == TypeOK /\ IdsBounded

HistoryTypeOK ==
    /\ spent \in [Kinds -> Nat]
    /\ answers \subseteq Answers
    /\ granted \subseteq [user : Logins, device : Clients, id : Nat]

LEMMA ServerKept ==
    ASSUME ServerTypeOK, IdsBounded, UNCHANGED serverVars
    PROVE  ServerTypeOK' /\ IdsBounded'
BY DEF serverVars, tableVars, accountVars, chatVars, noticeVars, ServerTypeOK, IdsBounded

LEMMA BoxKept ==
    ASSUME BoxTypeOK, UNCHANGED boxVars
    PROVE  BoxTypeOK'
BY DEF boxVars, BoxTypeOK

LEMMA PaneKept ==
    ASSUME PaneTypeOK, UNCHANGED paneVars
    PROVE  PaneTypeOK'
BY DEF paneVars, PaneTypeOK

LEMMA ClientKept ==
    ASSUME ClientTypeOK, UNCHANGED clientVars
    PROVE  ClientTypeOK'
BY DEF clientVars, ClientTypeOK

LEMMA SystemKept ==
    ASSUME HistoryTypeOK, UNCHANGED systemVars
    PROVE  HistoryTypeOK'
BY DEF systemVars, HistoryTypeOK

LEMMA SpendTyped ==
    ASSUME HistoryTypeOK, NEW kind \in Kinds, Spend(kind)
    PROVE  HistoryTypeOK'
BY DEF Spend, HistoryTypeOK

\* The tables as LoadDB finds them and the empty pipes, boxes and clients of the
\* start are all of their types.
THEOREM InitTyped == Init => TypeInv
<1> SUFFICES ASSUME Init PROVE TypeInv
    OBVIOUS
<1> USE SystemAssumption
<1>1. WireTypeOK
    BY EmptySeq DEF Init, WireInit, WireTypeOK, Ids
<1>2. ServerTypeOK /\ IdsBounded
    <2>1. sessions \subseteq [user : Logins, device : Clients, id : Nat]
        BY DEF Init, ServerInit
    <2> QED
        BY <2>1, EmptySeq DEF Init, ServerInit, ServerTypeOK, IdsBounded, Jobs
<1>3. ClientTypeOK
    BY DEF Init, ClientInit, ClientTypeOK
<1>4. BoxTypeOK
    BY EmptySeq DEF Init, BoxInit, BoxTypeOK
<1>5. PaneTypeOK
    BY EmptySeq DEF Init, PaneInit, PaneTypeOK
<1>6. HistoryTypeOK
    BY <1>2 DEF Init, HistoryTypeOK, ServerTypeOK
<1> QED
    BY <1>1, <1>2, <1>3, <1>4, <1>5, <1>6 DEF TypeInv, TypeOK, HistoryTypeOK

\* Every step of a client, of the loop, of a send thread, and every crash keeps the
\* types: one step of the proof for each action of Next.
THEOREM StepTyped == TypeInv /\ [Next]_vars => TypeInv'
<1> SUFFICES ASSUME TypeInv, [Next]_vars PROVE TypeInv'
    OBVIOUS
<1> DEFINE Typed == /\ WireTypeOK /\ ServerTypeOK /\ IdsBounded /\ ClientTypeOK
                    /\ BoxTypeOK /\ PaneTypeOK /\ HistoryTypeOK
<1> USE DEF Kinds
<1>1. Typed
    BY DEF TypeInv, TypeOK, HistoryTypeOK
<1>2. SUFFICES Typed'
    BY DEF TypeInv, TypeOK, HistoryTypeOK
<1>3. ASSUME NEW p \in Clients, StartClient(p) PROVE Typed'
    BY <1>1, <1>3, StartTyped, SpendTyped, ServerKept, BoxKept, PaneKept DEF StartClient
<1>4. ASSUME NEW p \in Clients, QuitClient(p) \/ OrphanCrash(p) PROVE Typed'
    <2>1. EndClient(p) /\ HistoryTypeOK'
        BY <1>1, <1>4, SpendTyped DEF QuitClient, OrphanCrash
    <2> QED
        BY <1>1, <2>1, CloseClientTyped, CloseBoxTyped, ClosePaneTyped, ServerKept
           DEF EndClient
<1>5. ASSUME NEW p \in Clients, AcceptConnection(p) PROVE Typed'
    <2>1. WireTypeOK'
        BY <1>1, <1>5 DEF AcceptConnection, Accept, WireTypeOK, Running
    <2> QED
        BY <1>1, <1>5, <2>1, ServerKept, ClientKept, BoxKept, PaneKept, SystemKept
           DEF AcceptConnection
<1>6. ASSUME NEW p \in Clients, UseAccount(p) PROVE Typed'
    <2>1. WireTypeOK' /\ ClientTypeOK' /\ HistoryTypeOK'
        <3>1. CASE SwitchPage(p) /\ Spend("page")
            BY <1>1, <3>1, SpendTyped, AccountRequestTyped DEF SwitchPage, Show, ClientTypeOK, WireTypeOK, wireVars
        <3>2. CASE \E u \in Logins, valid \in BOOLEAN :
                    RequestRegister(p, u, valid) /\ Spend("register")
            BY <1>1, <3>2, SpendTyped, AccountRequestTyped
        <3>3. CASE \E u \in Logins, valid \in BOOLEAN :
                    RequestAuthorize(p, u, valid) /\ Spend("authorize")
            BY <1>1, <3>3, SpendTyped, AccountRequestTyped
        <3>4. CASE RequestLogout(p) /\ Spend("logout")
            <4>1. [kind |-> "Logout"] \in RequestBodies
                BY DEF RequestBodies
            <4> QED
                BY <1>1, <3>4, <4>1, SpendTyped, SendRequestTyped, ClientKept DEF RequestLogout
        <3>5. CASE \E u \in Logins : RequestChangeIdentity(p, u) /\ Spend("changeName")
            BY <1>1, <3>5, SpendTyped, AccountRequestTyped
        <3> QED
            BY <1>6, <3>1, <3>2, <3>3, <3>4, <3>5 DEF UseAccount
    <2> QED
        BY <1>1, <1>6, <2>1, ServerKept, BoxKept, PaneKept DEF UseAccount
<1>7. ASSUME NEW p \in Clients, UsePane(p) PROVE Typed'
    <2>1. WireTypeOK' /\ ClientTypeOK' /\ PaneTypeOK' /\ HistoryTypeOK'
        <3>1. CASE \E invited \in InviteSets : RequestToCreateChat(p, invited) /\ Spend("create")
            BY <1>1, <3>1, SystemAssumption, SpendTyped, PaneRequestTyped
        <3>2. CASE PopUp(p) /\ Spend("popup")
            BY <1>1, <3>2, SpendTyped, PaneRequestTyped
        <3>3. CASE \E c \in combo[p] \cup {-1} : SelectChat(p, c) /\ Spend("select")
            BY <1>1, <3>3, SpendTyped, SelectChatTyped
        <3>4. CASE SendText(p) /\ Spend("send")
            BY <1>1, <3>4, SpendTyped, PaneRequestTyped
        <3>5. CASE SendLine(p) /\ Spend("line")
            BY <1>1, <3>5, SpendTyped, PaneRequestTyped
        <3> QED
            BY <1>7, <3>1, <3>2, <3>3, <3>4, <3>5 DEF UsePane
    <2> QED
        BY <1>1, <1>7, <2>1, ServerKept, BoxKept DEF UsePane
<1>8. ASSUME NEW p \in Clients, UseBox(p) PROVE Typed'
    <2>1. WireTypeOK' /\ ClientTypeOK' /\ BoxTypeOK' /\ HistoryTypeOK'
        <3>1. CASE FetchAllNotifications(p) /\ Spend("update")
            BY <1>1, <3>1, SpendTyped, FetchAllNotificationsTyped
        <3>2. CASE \E i \in DOMAIN notices[p] : OnClick(p, i) /\ UNCHANGED systemVars
            BY <1>1, <3>2, SystemKept, OnClickTyped
        <3>3. ASSUME NEW i \in DOMAIN notices[p], NEW accept \in BOOLEAN,
                     AnswerInvite(p, i, accept)
              PROVE  WireTypeOK' /\ ClientTypeOK' /\ BoxTypeOK' /\ HistoryTypeOK'
            <4>1. /\ WireTypeOK' /\ ClientTypeOK' /\ BoxTypeOK'
                  /\ notices[p][i] \in Entries /\ identity[p] \in Ids
                BY <1>1, <3>3, AnswerTyped DEF AnswerInvite
            <4>2. answers' \subseteq Answers
                BY <1>1, <3>3, <4>1 DEF AnswerInvite, HistoryTypeOK, Answers, Entries
            <4> QED
                BY <1>1, <3>3, <4>1, <4>2 DEF AnswerInvite, HistoryTypeOK
        <3>4. CASE AnswerOrphan(p) /\ UNCHANGED systemVars
            BY <1>1, <3>4, SystemKept, AnswerOrphanTyped
        <3> QED
            BY <1>8, <3>1, <3>2, <3>3, <3>4 DEF UseBox
    <2> QED
        BY <1>1, <1>8, <2>1, ServerKept, PaneKept DEF UseBox
<1>9. ASSUME NEW p \in Clients, Receive(p) PROVE Typed'
    <2>1. CASE /\ \/ ReceiveRegister(p) \/ ReceiveAuthorize(p) \/ ReceiveAlreadyAuthorized(p)
                  \/ ReceiveNotAuthorized(p) \/ ReceiveNewClientName(p) \/ ReceiveNewChat(p)
               /\ UNCHANGED <<boxVars, paneVars>>
        BY <1>1, <1>9, <2>1, AccountReplyTyped, ReceiveNewClientNameTyped,
           ServerKept, BoxKept, PaneKept, SystemKept DEF Receive
    <2>2. CASE (ReceiveCreateChat(p) \/ ReceiveNotifications(p)) /\ UNCHANGED paneVars
        BY <1>1, <1>9, <2>2, ReceiveInvitesTyped, ServerKept, PaneKept, SystemKept DEF Receive
    <2>3. CASE (ReceiveClientChats(p) \/ ReceiveIncomingMessage(p)) /\ UNCHANGED boxVars
        BY <1>1, <1>9, <2>3, PaneReplyTyped, ServerKept, BoxKept, SystemKept DEF Receive
    <2> QED
        BY <1>9, <2>1, <2>2, <2>3 DEF Receive
<1>10. CASE HaltServer
    <2>1. IdsBounded'
        BY <1>1, <1>10 DEF HaltServer, Halt, tableVars, IdsBounded
    <2> QED
        BY <1>1, <1>10, <2>1, HaltTyped, ClientKept, BoxKept, PaneKept, SpendTyped DEF HaltServer
<1>11. CASE RestartServer
    <2>1. IdsBounded'
        BY <1>1, <1>11 DEF RestartServer, Restart, tableVars, IdsBounded
    <2> QED
        BY <1>1, <1>11, <2>1, RestartTyped, ClientKept, BoxKept, PaneKept, SystemKept
           DEF RestartServer
<1>12. CASE RunServer
    <2>1. WireTypeOK' /\ ServerTypeOK' /\ IdsBounded'
        BY <1>1, <1>12, ServerStepTyped DEF RunServer
    <2>2. HistoryTypeOK'
        BY <1>1, <1>12, <2>1 DEF RunServer, HistoryTypeOK, ServerTypeOK
    <2> QED
        BY <1>1, <1>12, <2>1, <2>2, ClientKept, BoxKept, PaneKept DEF RunServer
<1>13. CASE UNCHANGED vars
    BY <1>1, <1>13 DEF vars, wireVars, serverVars, tableVars, accountVars, chatVars, noticeVars,
        clientVars, boxVars, paneVars, systemVars, WireTypeOK, ServerTypeOK, IdsBounded,
        ClientTypeOK, BoxTypeOK, PaneTypeOK, HistoryTypeOK
<1> QED
    BY <1>3, <1>4, <1>5, <1>6, <1>7, <1>8, <1>9, <1>10, <1>11, <1>12, <1>13 DEF Next

\* In every reachable state every variable has its type: the tables, the queues of
\* the sockets, the files and the windows hold nothing but what the code puts there.
THEOREM TypeCorrect == Spec => []TypeOK
<1>1. TypeInv => TypeOK
    BY DEF TypeInv
<1> QED
    BY InitTyped, StepTyped, <1>1, PTL DEF Spec
=============================================================================
