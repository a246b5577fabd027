--------------------------- MODULE ChatProperties ---------------------------
(***************************************************************************)
(* What the system must keep to, for ChatSystem.                           *)
(***************************************************************************)
EXTENDS ChatSystem

\* No process has ended so far.
Undisturbed == up /\ \A k \in {"quit", "crash", "halt"} : spent[k] = 0

-----------------------------------------------------------------------------
(***************************************************************************)
(* Invitations.                                                            *)
(***************************************************************************)
NamesItsRow(nid, author, chat) ==
    /\ nid \in DOMAIN notifications
    /\ notifications[nid].from = author
    /\ notifications[nid].chat = chat

\* An invitation carries the id of the very row it was made from, wherever it is:
\* on its way (AskClients, HandleClientNotifications), in the box of a client, or
\* in the answer, by which SetNotificationChecked finds the row.
InvitesNameTheirRow ==
    \A p \in Clients :
        /\ \A k \in DOMAIN replies[p] : LET m == replies[p][k] IN
            /\ m.kind = "CreateChat" =>
                 NamesItsRow(m.invite.nid, m.invite.author, m.invite.chat)
            /\ m.kind = "Notifications" =>
                 \A i \in m.invites : NamesItsRow(i.nid, i.author, i.chat)
        /\ \A i \in DOMAIN notices[p] :
                 NamesItsRow(notices[p][i].nid, notices[p][i].author, notices[p][i].chat)
        /\ \A k \in DOMAIN requests[p] : LET b == requests[p][k].body IN
                b.kind \in {"AcceptCreateChat", "DeclineCreateChat"} =>
                    /\ b.nid \in DOMAIN notifications
                    /\ notifications[b.nid].chat = b.chat

\* An invitation reaches the user it was stored for, as a live message and in a
\* list, through reconnections and changes of name: the id would let whoever gets
\* it check off the row.
InvitesReachTheirUser ==
    LET isFor(nid, u) == nid \in DOMAIN notifications /\ notifications[nid].to = u
    IN  \A p \in Clients : \A k \in DOMAIN replies[p] : LET m == replies[p][k] IN
            /\ m.kind = "CreateChat" => isFor(m.invite.nid, identity[p])
            /\ m.kind = "Notifications" => \A i \in m.invites : isFor(i.nid, identity[p])

\* Only an answer of some user to this very invitation takes it off the table.
CheckedMeansAnswered ==
    \A n \in DOMAIN notifications :
        notifications[n].checked => \E a \in answers : a.nid = n

\* Whoever is in a chat founded it or said yes to an invitation to it.
MembersAgreed ==
    \A m \in userChats :
        \/ m.chat \in DOMAIN chats /\ chats[m.chat] = m.user
        \/ \E a \in answers : a.yes /\ a.user = m.user /\ a.chat = m.chat

\* p has answered invitation n and the server has yet to check it off.
AnswerPending(p, n) ==
    \/ job.at = "answered" /\ job.nid = n
    \/ \E k \in DOMAIN requests[p] : LET b == requests[p][k].body IN
        b.kind \in {"AcceptCreateChat", "DeclineCreateChat"} /\ b.nid = n

\* An open invitation to a connected user is never lost between the table, the
\* socket and the box: it is on its way, in the box or being answered, and no
\* list under way that will replace the box misses it.
InvitationNotLost ==
    Undisturbed =>
    \A p \in Clients, n \in DOMAIN notifications :
        LET arrives(k) == replies[p][k].kind = "CreateChat" /\ replies[p][k].invite.nid = n
            lists(k)   == \E i \in replies[p][k].invites : i.nid = n
            known      == \E i \in DOMAIN notices[p] : notices[p][i].nid = n
        IN  Admitted(p) /\ notifications[n].to = identity[p] /\ ~notifications[n].checked =>
            /\ known \/ AnswerPending(p, n) \/ \E k \in DOMAIN replies[p] :
                  arrives(k) \/ (replies[p][k].kind = "Notifications" /\ lists(k))
            /\ \A k \in DOMAIN replies[p] :
                  replies[p][k].kind = "Notifications" /\ ~lists(k) =>
                      \E j \in DOMAIN replies[p] : j > k /\ arrives(j)

\* The box never shows an invitation twice, though it learns of it both from the
\* live message (ProcessNotification) and from lists (ProcessAllNotifications).
NoDoubleEntry ==
    \A p \in Clients : \A i, j \in DOMAIN notices[p] :
        notices[p][i].nid = notices[p][j].nid => i = j

\* An invitation that was answered does not come back: the comment on the entry's
\* removal says it is subtracted from the count.
AnsweredIsGone ==
    \A p \in Clients : \A i \in DOMAIN notices[p] :
        \A a \in answers : a.user = identity[p] => a.nid # notices[p][i].nid

-----------------------------------------------------------------------------
(***************************************************************************)
(* Membership.                                                             *)
(***************************************************************************)
\* A client is told it is in a chat only when the table says so (the insert comes
\* before the message, in both handlers that send NewChat).
NewChatIsDurable ==
    \A p \in Clients : \A k \in DOMAIN replies[p] :
        replies[p][k].kind = "NewChat" =>
            [chat |-> replies[p][k].chat, user |-> identity[p]] \in userChats

\* Once its handler is through, a chat has its creator for a member; only a
\* server that went down half way may have left invitations to a chat without.
FounderJoins ==
    spent["halt"] = 0 /\ job.at # "asking" =>
        \A c \in DOMAIN chats : [chat |-> c, user |-> chats[c]] \in userChats

-----------------------------------------------------------------------------
(***************************************************************************)
(* Messages.                                                               *)
(***************************************************************************)
\* The ids of a chat's messages are 1, 2, 3, ... in the order they were stored.
MessageIdsDense ==
    \A i \in DOMAIN messages :
        messages[i].id =
            Cardinality({j \in 1 .. i : messages[j].chat = messages[i].chat})

\* The messages on their way to p that its text frame will show, by their places.
Coming(p) ==
    {k \in DOMAIN replies[p] :
        replies[p][k].kind = "IncomingMessage" /\ replies[p][k].chat = current[p]}

\* Messages come up by ascending id across all restarts and reconnections: those
\* shown, and after them those on their way.
FeedAscends ==
    \A p \in Clients :
        /\ \A i, j \in DOMAIN shown[p] : i < j => shown[p][i].id < shown[p][j].id
        /\ \A k \in Coming(p) :
            /\ \A i \in DOMAIN shown[p] : shown[p][i].id < replies[p][k].id
            /\ \A j \in Coming(p) : j < k => replies[p][j].id < replies[p][k].id

\* RemoveMessage would take out the very message it is asked for: what a frame shows
\* after reconnections, changes of chat and lost messages can be searched as it does.
RemoveFindsMessage ==
    \A p \in Clients :
        LET ids == [i \in DOMAIN shown[p] |-> shown[p][i].id]
        IN  \A i \in DOMAIN ids : RemovedIndex(ids, ids[i]) = i - 1

\* The ids a text frame has shown of its chat since it was selected, or will show.
Feed(p) ==
    {shown[p][i].id : i \in DOMAIN shown[p]} \cup {replies[p][k].id : k \in Coming(p)}

\* From the first message it gets on, a text frame misses none.
FeedIsComplete ==
    Undisturbed =>
    \A p \in Clients : \A first \in Feed(p) :
        \A id \in first .. NextMessageId(current[p]) - 1 :
            \/ id \in Feed(p)
            \/ job.at = "stored" /\ job.chat = current[p] /\ job.id = id

\* A message is on its way to members only, whoever used their windows before and
\* whatever connection held their id when it was stored.
HeardByMembers ==
    \A p \in Clients : \A k \in DOMAIN replies[p] : LET m == replies[p][k] IN
        m.kind = "IncomingMessage" => [chat |-> m.chat, user |-> identity[p]] \in userChats

\* A message is written by a member, though HandleSendMessage does not look, as
\* long as nobody changed the user of a window: its list of chats stays.
WrittenByMembers ==
    spent["authorize"] = 0 /\ spent["changeName"] = 0 =>
    \A p \in Clients : \A k \in DOMAIN replies[p] : LET m == replies[p][k] IN
        m.kind = "IncomingMessage" => [chat |-> m.chat, user |-> m.author] \in userChats

-----------------------------------------------------------------------------
(***************************************************************************)
(* Accounts.                                                               *)
(***************************************************************************)
\* A connection goes by a login, or is told to, only on a device on which the
\* password of that login was given: messages for a login reach no other device.
IdentityIsEarned ==
    \A p \in Clients :
        LET entitled(u) == \E g \in granted : g.user = u /\ g.device = p
        IN  /\ identity[p] \in Logins => entitled(identity[p])
            /\ \A k \in DOMAIN replies[p] :
                 replies[p][k].kind = "NewClientName" => entitled(replies[p][k].login)

\* Nothing of p is under way and the server knows its connection.
Quiet(p) == up /\ job = Idle /\ Admitted(p) /\ requests[p] = <<>> /\ replies[p] = <<>>

\* A session that was closed by a logout is never valid again, whatever sessions
\* the same user and device open later.
SessionsStayClosed == [][\A g \in granted \ sessions : g \notin sessions']_vars

\* When the dust has settled, whoever sees the main page has a session: a logout
\* or a refusal is never overtaken by an older answer that opens the page again.
MainPageHasSession ==
    Undisturbed =>
    \A p \in Clients :
        Quiet(p) /\ page[p] = "main" => UserDeviceSession(identity[p], p)

\* A client with a session on its device is never refused for not being logged
\* in: the session id in its file is one of the user it goes by.
NeverLockedOut ==
    \A p \in Clients :
        Quiet(p) /\ page[p] = "main" /\ UserDeviceSession(identity[p], p)
            => DoesSessionExist(identity[p], p, config[p].session)

-----------------------------------------------------------------------------
(***************************************************************************)
(* Progress.  The server's loop and the receiver threads never stop while  *)
(* their processes run, sockets connect again by themselves, and a halted  *)
(* server is started again.  Users are under no obligation.                *)
(***************************************************************************)
Fairness ==
    /\ WF_vars(RunServer) /\ WF_vars(RestartServer)
    /\ \A p \in Clients : WF_vars(Receive(p)) /\ WF_vars(AcceptConnection(p))

FairSpec == Spec /\ Fairness

\* Every window of u is connected and has a session, and there is one.
Reliable(u) ==
    /\ \E p \in Clients : identity[p] = u
    /\ \A p \in Clients :
        identity[p] = u => Admitted(p) /\ \E s \in sessions : s.user = u /\ s.device = p

\* Whoever says yes to an invitation in an open session becomes a member, whatever
\* is in the queues and the handlers before, unless a window of theirs logs out
\* before the answer is read, changes its user, which closes the connection that
\* carries the answer, or waits for a connection that has their name.
AcceptedInviteJoins ==
    \A u \in Logins, c \in 1 .. Limit["create"] :
        (\E p \in Clients : \E k \in DOMAIN requests[p] : LET r == requests[p][k] IN
            /\ r.from = u /\ DoesSessionExist(u, p, r.session)
            /\ r.body.kind = "AcceptCreateChat" /\ r.body.chat = c)
            ~> \/ [chat |-> c, user |-> u] \in userChats
               \/ ~Reliable(u)
               \/ ~Undisturbed

\* An invitation stored for a connected user comes up in the box, or is answered,
\* unless the user changes.
InvitationArrives ==
    \A p \in Clients, n \in 1 .. Limit["create"] * Cardinality(Logins) :
        (n \in DOMAIN notifications /\ Admitted(p) /\ notifications[n].to = identity[p])
            ~> \/ \E i \in DOMAIN notices[p] : notices[p][i].nid = n
               \/ \E a \in answers : a.nid = n
               \/ n \in DOMAIN notifications /\ notifications[n].to # identity[p]
               \/ ~Undisturbed

\* A client told its new name is known to the server by it in the end, unless
\* another connection holds that name or the client quits.
LoginCompletes ==
    \A p \in Clients, u \in Logins :
        (\E k \in DOMAIN replies[p] :
            replies[p][k].kind = "NewClientName" /\ replies[p][k].login = u)
            ~> \/ Admitted(p) /\ identity[p] = u
               \/ \E q \in Clients \ {p} : peer[q] = u
               \/ ~Undisturbed

-----------------------------------------------------------------------------
(***************************************************************************)
(* The whole, seen from outside.                                           *)
(***************************************************************************)
Places(entries) == {[user |-> e.user, chat |-> e.chat] : e \in entries}

Room == INSTANCE ChatRooms WITH
    Users    <- Logins,
    founders <- chats,
    invited  <- {[user |-> notifications[n].to, chat |-> notifications[n].chat] :
                    n \in DOMAIN notifications},
    agreed   <- Places({a \in answers : a.yes}),
    members  <- userChats,
    posts    <- messages

\* Tables, handlers, boxes and windows together implement ChatRooms: only the one
\* who was invited can agree, and only who agreed, or founded the chat, gets in, in
\* this order, whatever is under way, crashes or comes twice.  (As long as nobody
\* changes the user of a process, which keeps the box of the one before.)
ImplementsRooms == Room!RoomsSpec

\* Whoever uses the processes, under whatever names, one after another: still only
\* who agreed, or founded the chat, gets in, only where somebody was invited, and no
\* message goes to a chat that nobody is in.
ImplementsSharedRooms == Room!SharedRoomsSpec
=============================================================================
