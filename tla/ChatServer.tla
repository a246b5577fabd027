----------------------------- MODULE ChatServer -----------------------------
(***************************************************************************)
(* The server (Server/server.cpp) and its database                         *)
(* (Server/database/database_connection.cpp).                              *)
(*                                                                         *)
(* The server is one thread that takes one request at a time.  A handler   *)
(* that writes to the database more than once, or writes and then answers, *)
(* is split after each write, with what is left of it in "job": a crash,   *)
(* or the shutdown of the ZeroMQ context (which makes the next send throw),*)
(* can leave the later writes undone.  The tables survive it.              *)
(***************************************************************************)
EXTENDS ChatWire, FiniteSetsExt

CONSTANTS
    CoarseClock,    \* BOOLEAN: rows inserted one after another may get the same created_at
    MembershipKey   \* BOOLEAN: (chat_id, user_identity) is a unique key of user_chats

ASSUME SchemaAssumption == CoarseClock \in BOOLEAN /\ MembershipKey \in BOOLEAN

VARIABLES
    users,          \* table users: the registered logins
    sessions,       \* table sessions
    issued,         \* number of session ids drawn so far; session n is the nth
    chats,          \* table chats, by id; a row stands for the login whose request made it
    newestChats,    \* ids of the rows of chats with the latest created_at
    userChats,      \* table user_chats
    messages,       \* table messages, in the order of insertion
    notifications,  \* table notifications, by id
    newestNotifications, \* ids of its rows with the latest created_at
    job,            \* what is left of the handler that is running
    up              \* the server process is running

accountVars == <<users, sessions, issued>>
chatVars    == <<chats, newestChats, userChats>>
noticeVars  == <<notifications, newestNotifications>>
tableVars   == <<accountVars, chatVars, messages, noticeVars>>
serverVars  == <<tableVars, job, up>>

Memberships   == [chat : Nat, user : Logins]
MessageRows   == [chat : Int, id : Nat]
Notifications == [from : Logins, to : Logins, chat : Nat, checked : BOOLEAN]

Idle == [at |-> "idle"]
Jobs == {Idle}
    \cup [at : {"asking"}, creator : Logins, chat : Nat, rest : SUBSET Logins]
    \cup [at : {"answered"}, nid : Nat]
    \cup [at : {"stored"}, author : Logins, chat : Int, id : Nat]

ServerTypeOK ==
    /\ users \subseteq Logins
    /\ sessions \subseteq [user : Logins, device : Clients, id : Nat]
    /\ issued \in Nat
    /\ chats \in Seq(Logins)
    /\ newestChats \subseteq DOMAIN chats
    /\ userChats \subseteq Memberships
    /\ messages \in Seq(MessageRows)
    /\ notifications \in Seq(Notifications)
    /\ newestNotifications \subseteq DOMAIN notifications
    /\ job \in Jobs
    /\ up \in BOOLEAN

-----------------------------------------------------------------------------
(***************************************************************************)
(* The queries.                                                            *)
(***************************************************************************)
\* Faults: the session may be one of any device; no session is needed.
SessionOnAnyDevice(login, p) == \E s \in sessions : s.user = login
RegisteredSuffices(login, p) == login \in users

UserDeviceSession(login, p) == \E s \in sessions : s.user = login /\ s.device = p

DoesSessionExist(id, p, sid) == [user |-> id, device |-> p, id |-> sid] \in sessions

\* Fault: the chat is not looked at.
GetEveryone(c) == users

GetChatClients(c) == {m.user : m \in {x \in userChats : x.chat = c}}

\* Fault: the user is not looked at.
GetEveryChat(u) == DOMAIN chats

GetClientChats(u) == {m.chat : m \in {x \in userChats : x.user = u}}

\* Fault: the id of the last message is given again.
LastMessageId(c) ==
    Max({0} \cup {messages[i].id : i \in {j \in DOMAIN messages : messages[j].chat = c}})

\* MAX(id) of an empty chat is NULL, which getUInt64 reads as 0.
NextMessageId(c) ==
    Max({0} \cup {messages[i].id : i \in {j \in DOMAIN messages : messages[j].chat = c}}) + 1

\* Fault: the chat is taken for the id of the row.
NotificationsByChat(u) ==
    {[nid |-> notifications[n].chat, author |-> notifications[n].from,
      chat |-> notifications[n].chat] :
        n \in {i \in DOMAIN notifications :
                  notifications[i].to = u /\ ~notifications[i].checked}}

\* Fault: the columns of the two users are swapped.
NotificationsByAddressee(u) ==
    {[nid |-> n, author |-> notifications[n].to, chat |-> notifications[n].chat] :
        n \in {i \in DOMAIN notifications :
                  notifications[i].to = u /\ ~notifications[i].checked}}

\* The unchecked notifications of u; the query asks for no order.
GetClientNotifications(u) ==
    {[nid |-> n, author |-> notifications[n].from, chat |-> notifications[n].chat] :
        n \in {i \in DOMAIN notifications :
                  notifications[i].to = u /\ ~notifications[i].checked}}

\* The ids that share the latest created_at once row id is inserted.
NewestAfter(newest, id) ==
    IF CoarseClock THEN {{id}, newest \cup {id}} ELSE {{id}}

-----------------------------------------------------------------------------
(***************************************************************************)
(* Reading a request.                                                      *)
(***************************************************************************)
NonSessionActions == {"Connect", "Register", "Authorize"}

Current(p) == Head(requests[p])

\* The loop of Run reads the request of p: the server is at its recv.
Reads(p) == up /\ job = Idle /\ Readable(p)

Entitled(p) ==
    \/ Current(p).body.kind \in NonSessionActions
    \/ DoesSessionExist(Current(p).from, p, Current(p).session)

\* p's request is one of the given kind and passes the session gate.
Serves(p, kind) == Reads(p) /\ Current(p).body.kind = kind /\ Entitled(p)

Taken(p) == [requests EXCEPT ![p] = Tail(@)]

Take(p) == requests' = Taken(p) /\ UNCHANGED <<identity, peer>>

Reply(p, ms) == Dispatch({Current(p).from}, ms)

NotAuthorized == [kind |-> "NotAuthorized"]

RefuseWithoutSession(p) ==
    /\ Reads(p)
    /\ ~Entitled(p)
    /\ Take(p)
    /\ Reply(p, <<NotAuthorized>>)
    /\ UNCHANGED serverVars

\* The process ends: SIGINT, a crash or an exception Run does not catch.
GoDown(unread) ==
    /\ up' = FALSE
    /\ job' = Idle
    /\ BreakConnections(unread)

-----------------------------------------------------------------------------
(***************************************************************************)
(* Accounts and sessions.                                                  *)
(***************************************************************************)
\* Fault: a session on any device will do.
ConnectOnAnySession(p) ==
    /\ Serves(p, "Connect") \/ Serves(p, "ChangeName")
    /\ LET login == Current(p).body.login IN
        IF SessionOnAnyDevice(login, p)
        THEN Reply(p, <<[kind |-> "AlreadyAuthorized"],
                        [kind |-> "NewClientName", login |-> login]>>)
        ELSE Reply(p, <<NotAuthorized>>)
    /\ Take(p)
    /\ UNCHANGED serverVars

HandleConnection(p) ==
    /\ Serves(p, "Connect") \/ Serves(p, "ChangeName")
    /\ LET login == Current(p).body.login IN
        IF UserDeviceSession(login, p)
        THEN Reply(p, <<[kind |-> "AlreadyAuthorized"],
                        [kind |-> "NewClientName", login |-> login]>>)
        ELSE Reply(p, <<NotAuthorized>>)
    /\ Take(p)
    /\ UNCHANGED serverVars

\* valid: the password and its repetition are the same.
HandleRegister(p) ==
    /\ Serves(p, "Register")
    /\ LET b  == Current(p).body
           ok == b.valid /\ b.login \notin users
       IN  /\ users' = IF ok THEN users \cup {b.login} ELSE users
           /\ Reply(p, <<[kind |-> "Register", registered |-> ok]>>)
    /\ Take(p)
    /\ UNCHANGED <<sessions, issued, chatVars, messages, noticeVars, job, up>>

\* Fault: the sessions are counted, which gives out the id of a closed one again.
CountedSessionId == Cardinality(sessions) + 1

\* CreateSession: a string of random characters, never drawn before.
FreshSessionId == issued + 1

\* valid: the password is the one of the login.
HandleAuthorize(p) ==
    /\ Serves(p, "Authorize")
    /\ LET b == Current(p).body IN
        IF b.valid /\ b.login \in users
        THEN /\ issued' = FreshSessionId
             /\ sessions' = sessions \cup {[user |-> b.login, device |-> p, id |-> issued']}
             /\ Reply(p, <<[kind |-> "Authorize", session |-> issued'],
                           [kind |-> "NewClientName", login |-> b.login]>>)
        ELSE /\ UNCHANGED <<issued, sessions>>
             /\ Reply(p, <<[kind |-> "Authorize", session |-> 0]>>)
    /\ Take(p)
    /\ UNCHANGED <<users, chatVars, messages, noticeVars, job, up>>

\* Fault: the client is not told.
LogoutUntold(p) ==
    /\ Serves(p, "Logout")
    /\ sessions' = sessions \ {[user |-> Current(p).from, device |-> p, id |-> Current(p).session]}
    /\ Take(p)
    /\ UNCHANGED <<replies, users, issued, chatVars, messages, noticeVars, job, up>>

HandleLogout(p) ==
    /\ Serves(p, "Logout")
    /\ sessions' = sessions \ {[user |-> Current(p).from, device |-> p, id |-> Current(p).session]}
    /\ Reply(p, <<NotAuthorized>>)
    /\ Take(p)
    /\ UNCHANGED <<users, issued, chatVars, messages, noticeVars, job, up>>

-----------------------------------------------------------------------------
(***************************************************************************)
(* Chats, invitations and messages.                                        *)
(***************************************************************************)
\* PrepareNewChatSession up to CreateChat, whose id comes from a second query,
\* ORDER BY created_at DESC LIMIT 1: any of the newest rows.
PrepareNewChatSession(p) ==
    /\ Serves(p, "CreateChat")
    /\ chats' = Append(chats, Current(p).from)
    /\ newestChats' \in NewestAfter(newestChats, Len(chats'))
    /\ \E c \in newestChats' :
        job' = [at |-> "asking", creator |-> Current(p).from, chat |-> c,
                rest |-> Current(p).body.invited \ {Current(p).from}]
    /\ Take(p)
    /\ UNCHANGED <<replies, accountVars, userChats, messages, noticeVars, up>>

\* Fault: no live invitation is sent.
AskSilently(u) ==
    /\ up /\ job.at = "asking" /\ u \in job.rest \cap users
    /\ job' = [job EXCEPT !.rest = @ \ {u}]
    /\ notifications' = Append(notifications,
            [from |-> job.creator, to |-> u, chat |-> job.chat, checked |-> FALSE])
    /\ newestNotifications' = {Len(notifications')}
    /\ UNCHANGED <<wireVars, accountVars, chatVars, messages, up>>

\* One turn of the loop of AskClients over an unordered set: AddNotification
\* (its id is again that of some newest row), then the live invitation.
AskClient(u) ==
    /\ up /\ job.at = "asking" /\ u \in job.rest
    /\ job' = [job EXCEPT !.rest = @ \ {u}]
    /\ IF u \in users
       THEN /\ notifications' = Append(notifications,
                 [from |-> job.creator, to |-> u, chat |-> job.chat, checked |-> FALSE])
            /\ newestNotifications' \in NewestAfter(newestNotifications, Len(notifications'))
            /\ \E n \in newestNotifications' :
                 Dispatch({u}, <<[kind |-> "CreateChat", invite |->
                     [nid |-> n, author |-> job.creator, chat |-> job.chat]]>>)
       ELSE UNCHANGED <<notifications, newestNotifications, replies>>
    /\ UNCHANGED <<requests, identity, peer, accountVars, chatVars, messages, up>>

\* Fault: nothing is inserted.
AddNobodyToChat(u, c) == UNCHANGED userChats

\* AddClientToChat is an INSERT: with the key, a second row for the same
\* member is an exception nobody catches.
AddClientToChat(u, c) == userChats' = userChats \cup {[chat |-> c, user |-> u]}

InsertFails(u, c) == MembershipKey /\ [chat |-> c, user |-> u] \in userChats

\* The rest of PrepareNewChatSession: the creator joins last.
FinishNewChat ==
    /\ up /\ job.at = "asking" /\ job.rest = {}
    /\ ~InsertFails(job.creator, job.chat)
    /\ AddClientToChat(job.creator, job.chat)
    /\ Dispatch({job.creator}, <<[kind |-> "NewChat", chat |-> job.chat]>>)
    /\ job' = Idle
    /\ UNCHANGED <<requests, identity, peer, accountVars, chats, newestChats,
                   messages, noticeVars, up>>

FinishNewChatFails ==
    /\ up /\ job.at = "asking" /\ job.rest = {}
    /\ InsertFails(job.creator, job.chat)
    /\ GoDown(requests)
    /\ UNCHANGED tableVars

\* Fault: no is taken for yes.
RespondYesAnyway(p) ==
    /\ Serves(p, "AcceptCreateChat") \/ Serves(p, "DeclineCreateChat")
    /\ AddClientToChat(Current(p).from, Current(p).body.chat)
    /\ Reply(p, <<[kind |-> "NewChat", chat |-> Current(p).body.chat]>>)
    /\ job' = [at |-> "answered", nid |-> Current(p).body.nid]
    /\ Take(p)
    /\ UNCHANGED <<accountVars, chats, newestChats, messages, noticeVars, up>>

\* HandleResponseForInvite up to SetNotificationChecked, which is its last step.
HandleResponseForInvite(p) ==
    /\ \/ /\ Serves(p, "AcceptCreateChat")
          /\ ~InsertFails(Current(p).from, Current(p).body.chat)
          /\ AddClientToChat(Current(p).from, Current(p).body.chat)
          /\ Reply(p, <<[kind |-> "NewChat", chat |-> Current(p).body.chat]>>)
       \/ /\ Serves(p, "DeclineCreateChat")
          /\ UNCHANGED <<userChats, replies>>
    /\ job' = [at |-> "answered", nid |-> Current(p).body.nid]
    /\ Take(p)
    /\ UNCHANGED <<accountVars, chats, newestChats, messages, noticeVars, up>>

AcceptFails(p) ==
    /\ Serves(p, "AcceptCreateChat")
    /\ InsertFails(Current(p).from, Current(p).body.chat)
    /\ GoDown(Taken(p))
    /\ UNCHANGED tableVars

\* Fault: all invitations to the chat are checked off.
SetChatChecked ==
    /\ up /\ job.at = "answered"
    /\ notifications' = [n \in DOMAIN notifications |->
           [notifications[n] EXCEPT !.checked = @ \/ notifications[n].chat = notifications[job.nid].chat]]
    /\ job' = Idle
    /\ UNCHANGED <<wireVars, accountVars, chatVars, messages, newestNotifications, up>>

SetNotificationChecked ==
    /\ up /\ job.at = "answered"
    /\ notifications' = [n \in DOMAIN notifications |->
           IF n = job.nid THEN [notifications[n] EXCEPT !.checked = TRUE]
                          ELSE notifications[n]]
    /\ job' = Idle
    /\ UNCHANGED <<wireVars, accountVars, chatVars, messages, newestNotifications, up>>

HandleClientChatsInfoRequest(p) ==
    /\ Serves(p, "ClientChats")
    /\ Reply(p, <<[kind |-> "ClientChats", chats |-> GetClientChats(Current(p).from)]>>)
    /\ Take(p)
    /\ UNCHANGED serverVars

HandleClientNotifications(p) ==
    /\ Serves(p, "Notifications")
    /\ Reply(p, <<[kind |-> "Notifications",
                   invites |-> GetClientNotifications(Current(p).from)]>>)
    /\ Take(p)
    /\ UNCHANGED serverVars

\* The chat id -1 of a client that has entered no chat.
NoChat == -1

RefuseMessage(p) ==
    /\ Serves(p, "SendMessage") /\ Current(p).body.chat = NoChat
    /\ Take(p)
    /\ UNCHANGED <<replies, serverVars>>

\* HandleSendMessage stores first (whoever the sender is, member or not) ...
HandleSendMessage(p) ==
    /\ Serves(p, "SendMessage") /\ Current(p).body.chat # NoChat
    /\ LET c == Current(p).body.chat
           n == NextMessageId(c)
       IN  /\ messages' = Append(messages, [chat |-> c, id |-> n])
           /\ job' = [at |-> "stored", author |-> Current(p).from, chat |-> c, id |-> n]
    /\ Take(p)
    /\ UNCHANGED <<replies, accountVars, chatVars, noticeVars, up>>

\* ... and then sends it to the members that are connected.
DispatchMessage ==
    /\ up /\ job.at = "stored"
    /\ Dispatch(GetChatClients(job.chat),
           <<[kind |-> "IncomingMessage", author |-> job.author, chat |-> job.chat, id |-> job.id]>>)
    /\ job' = Idle
    /\ UNCHANGED <<requests, identity, peer, tableVars, up>>

-----------------------------------------------------------------------------
(***************************************************************************)
(* Failures.                                                               *)
(***************************************************************************)
Halt == up /\ GoDown(requests) /\ UNCHANGED tableVars

\* A new process on the same database; the clients' sockets connect again.
Restart == ~up /\ up' = TRUE /\ UNCHANGED <<wireVars, tableVars, job>>

\* What the server does by itself, once it runs.
ServerStep ==
    \/ \E p \in Clients :
        \/ RefuseWithoutSession(p)
        \/ HandleConnection(p)
        \/ HandleRegister(p)
        \/ HandleAuthorize(p)
        \/ HandleLogout(p)
        \/ PrepareNewChatSession(p)
        \/ HandleResponseForInvite(p)
        \/ AcceptFails(p)
        \/ HandleClientChatsInfoRequest(p)
        \/ HandleClientNotifications(p)
        \/ RefuseMessage(p)
        \/ HandleSendMessage(p)
    \/ \E u \in Logins : AskClient(u)
    \/ FinishNewChat
    \/ FinishNewChatFails
    \/ SetNotificationChecked
    \/ DispatchMessage

\* A database in which registered users exist, drawn session ids have been given
\* out and some devices have open sessions.
ServerInit(registered, open, drawn) ==
    /\ users = registered
    /\ sessions = open
    /\ issued = drawn
    /\ chats = <<>> /\ newestChats = {}
    /\ userChats = {}
    /\ messages = <<>>
    /\ notifications = <<>> /\ newestNotifications = {}
    /\ job = Idle
    /\ up = TRUE
=============================================================================
