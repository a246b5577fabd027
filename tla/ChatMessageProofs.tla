------------------------- MODULE ChatMessageProofs --------------------------
(***************************************************************************)
(* Messages: how they are numbered (MAX(id) + 1 over the rows of a chat    *)
(* counts those rows), who writes them, and how they come up in a text     *)
(* frame.                                                                  *)
(***************************************************************************)
EXTENDS ChatMemberProofs

\* The messages of chat c among the first i.
Rows(c, i) == {j \in 1 .. i : messages[j].chat = c}

DenseInv == TypeInv /\ MessageIdsDense

-----------------------------------------------------------------------------
LEMMA RowsFinite ==
    ASSUME NEW c, NEW i \in Nat
    PROVE  Rows(c, i) \in SUBSET (0 .. i) /\ IsFiniteSet(Rows(c, i)) /\ Cardinality(Rows(c, i)) \in Nat
<1>1. IsFiniteSet(1 .. i)
    BY FS_Interval
<1>2. Rows(c, i) \in SUBSET (1 .. i)
    BY DEF Rows
<1>3. IsFiniteSet(Rows(c, i))
    BY <1>1, <1>2, FS_Subset
<1> QED
    BY <1>2, <1>3, FS_CardinalityType

\* If the ids of a chat are dense so far, the next one continues them.
LEMMA NextIdCounts ==
    ASSUME DenseInv, NEW c
    PROVE  NextMessageId(c) = Cardinality(Rows(c, Len(messages))) + 1
<1> DEFINE n    == Len(messages)
           all  == Rows(c, n)
           ids  == {0} \cup {messages[i].id : i \in {j \in DOMAIN messages : messages[j].chat = c}}
<1>1. DOMAIN messages = 1 .. n /\ n \in Nat
    BY LenProperties DEF DenseInv, TypeInv, TypeOK, ServerTypeOK
<1>2. ids = {0} \cup {messages[i].id : i \in all}
    BY <1>1 DEF Rows
<1>3. all \in SUBSET (0 .. n) /\ IsFiniteSet(all) /\ Cardinality(all) \in Nat
    BY <1>1, RowsFinite
<1>4. ASSUME NEW i \in all PROVE i \in 1 .. n /\ messages[i].id = Cardinality(Rows(c, i))
    BY <1>1, <1>4 DEF Rows, DenseInv, MessageIdsDense
<1>5. ids \in SUBSET (0 .. n) /\ ids # {}
    BY <1>1 DEF DenseInv, TypeInv, IdsBounded
<1>6. Max(ids) \in ids /\ \A y \in ids : Max(ids) >= y
    BY <1>1, <1>5, MaxOfBounded
<1> DEFINE m == Max(ids)
<1>7. m \in 0 .. n
    BY <1>5, <1>6
<1> HIDE DEF m, ids, all
<1>8. m <= Cardinality(all)
    <2>1. CASE m = 0
        BY <1>3, <2>1
    <2>2. CASE m # 0
        <3>1. PICK i \in all : m = messages[i].id
            BY <1>2, <1>6, <2>2 DEF m
        <3>2. m = Cardinality(Rows(c, i))
            BY <1>4, <3>1
        <3>3. Rows(c, i) \in SUBSET all
            BY <1>1, <1>4, <3>1 DEF Rows, all
        <3> QED
            BY <1>3, <3>2, <3>3, FS_Subset
    <2> QED
        BY <2>1, <2>2
<1>9. m >= Cardinality(all)
    <2>1. CASE all = {}
        BY <1>7, <2>1, FS_EmptySet
    <2>2. CASE all # {}
        <3> DEFINE last == Max(all)
        <3>1. last \in all /\ \A j \in all : last >= j
            BY <1>1, <1>3, <2>2, MaxOfBounded
        <3> HIDE DEF last
        <3>2. Rows(c, last) = all
            <4>1. last \in 1 .. n
                BY <1>4, <3>1
            <4> QED
                BY <1>1, <3>1, <4>1 DEF Rows, all
        <3>3. messages[last].id = Cardinality(all)
            BY <1>4, <3>1, <3>2
        <3> QED
            BY <1>2, <1>6, <3>1, <3>3 DEF m
    <2> QED
        BY <2>1, <2>2
<1>10. m = Cardinality(all)
    BY <1>3, <1>7, <1>8, <1>9
<1> QED
    BY <1>10 DEF NextMessageId, m, ids, all

\* HandleSendMessage: the new row continues the numbering of its chat, and the
\* other rows keep theirs.
LEMMA SendKeepsDense ==
    ASSUME DenseInv, NEW p \in Clients, HandleSendMessage(p), TypeInv'
    PROVE  MessageIdsDense'
<1> DEFINE n == Len(messages)
           c == Current(p).body.chat
           row == [chat |-> c, id |-> NextMessageId(c)]
<1>1. DOMAIN messages = 1 .. n /\ n \in Nat /\ messages \in Seq(MessageRows)
    BY LenProperties DEF DenseInv, TypeInv, TypeOK, ServerTypeOK
<1>2. messages' = Append(messages, row)
    BY DEF HandleSendMessage
<1>3. NextMessageId(c) = Cardinality(Rows(c, n)) + 1
    BY NextIdCounts
<1>4. row.chat = c /\ row.id = Cardinality(Rows(c, n)) + 1
    BY <1>3
<1> HIDE DEF row, c
<1>5. /\ DOMAIN messages' = 1 .. n + 1
      /\ \A i \in 1 .. n : messages'[i] = messages[i]
      /\ messages'[n + 1] = row
    <2>1. messages \in Seq(MessageRows \cup {row})
        BY <1>1, ElementOfSeq, SeqDef
    <2> QED
        BY <1>1, <1>2, <2>1, AppendProperties, LenProperties
<1>6. ASSUME NEW i \in 1 .. n
      PROVE  messages'[i].id = Cardinality({j \in 1 .. i : messages'[j].chat = messages'[i].chat})
    <2>1. {j \in 1 .. i : messages'[j].chat = messages'[i].chat}
            = {j \in 1 .. i : messages[j].chat = messages[i].chat}
        BY <1>1, <1>5
    <2> QED
        BY <1>1, <1>5, <2>1 DEF DenseInv, MessageIdsDense
<1>7. messages'[n + 1].id = Cardinality({j \in 1 .. n + 1 : messages'[j].chat = messages'[n + 1].chat})
    <2>1. {j \in 1 .. n + 1 : messages'[j].chat = messages'[n + 1].chat} = Rows(c, n) \cup {n + 1}
        BY <1>1, <1>4, <1>5 DEF Rows
    <2>2. IsFiniteSet(Rows(c, n)) /\ n + 1 \notin Rows(c, n)
        <3>1. IsFiniteSet(Rows(c, n)) /\ Rows(c, n) \in SUBSET (0 .. n)
            BY <1>1, RowsFinite
        <3> QED
            BY <1>1, <3>1
    <2>3. Cardinality(Rows(c, n) \cup {n + 1}) = Cardinality(Rows(c, n)) + 1
        BY <2>2, FS_AddElement
    <2> QED
        BY <1>4, <1>5, <2>1, <2>3
<1>8. ASSUME NEW i \in DOMAIN messages'
      PROVE  messages'[i].id = Cardinality({j \in 1 .. i : messages'[j].chat = messages'[i].chat})
    <2>1. CASE i = n + 1
        BY <1>7, <2>1
    <2>2. CASE i # n + 1
        <3>1. i \in 1 .. n
            BY <1>1, <1>5, <2>2
        <3> QED
            BY <1>6, <3>1
    <2> QED
        BY <2>1, <2>2
<1> QED
    BY <1>8 DEF MessageIdsDense

\* No other step of the server touches the table.
LEMMA ServerStepKeepsDense ==
    ASSUME DenseInv, ServerStep, TypeInv'
    PROVE  MessageIdsDense'
<1>1. ASSUME UNCHANGED messages PROVE MessageIdsDense'
    BY <1>1 DEF DenseInv, MessageIdsDense
<1>2. CASE \E u \in Logins : AskClient(u)
    BY <1>1, <1>2 DEF AskClient
<1>3. CASE FinishNewChat \/ FinishNewChatFails \/ SetNotificationChecked \/ DispatchMessage
    BY <1>1, <1>3 DEF FinishNewChat, FinishNewChatFails, SetNotificationChecked,
                      DispatchMessage, tableVars
<1> QED
    BY <1>1, <1>2, <1>3, MessagesKept, SendKeepsDense DEF ServerStep

LEMMA DenseStep ==
    ASSUME DenseInv, [Next]_vars
    PROVE  DenseInv'
<1>1. TypeInv'
    BY StepTyped DEF DenseInv
<1>2. CASE RunServer
    BY <1>1, <1>2, ServerStepKeepsDense DEF RunServer, DenseInv
<1>3. CASE ~RunServer
    <2>1. UNCHANGED messages
        BY <1>3 DEF Next, StartClient, QuitClient, OrphanCrash, EndClient, AcceptConnection,
            UseAccount, UsePane, UseBox, Receive, HaltServer, Halt, RestartServer, Restart,
            vars, serverVars, tableVars
    <2> QED
        BY <1>1, <2>1 DEF DenseInv, MessageIdsDense
<1> QED
    BY <1>2, <1>3

\* The ids of a chat's messages are 1, 2, 3, ... in the order they were stored,
\* for any number of chats, writers and restarts: MAX(id) + 1 never repeats an id
\* or leaves one out.
THEOREM IdsAreDense == Spec => []MessageIdsDense
<1>1. Init => DenseInv
    <2>1. Init => MessageIdsDense
        BY DEF Init, ServerInit, MessageIdsDense
    <2> QED
        BY <2>1, InitTyped DEF DenseInv
<1>2. DenseInv /\ [Next]_vars => DenseInv'
    BY DenseStep
<1>3. DenseInv => MessageIdsDense
    BY DEF DenseInv
<1> QED
    BY <1>1, <1>2, <1>3, PTL DEF Spec

-----------------------------------------------------------------------------
IsIn(u, c) == [chat |-> c, user |-> u] \in userChats

LEMMA StaysIn ==
    ASSUME [Next]_vars, NEW u, NEW c, IsIn(u, c)
    PROVE  IsIn(u, c)'
BY MembersStay DEF IsIn

-----------------------------------------------------------------------------
(***************************************************************************)
(* Requests, and what they are made from.                                  *)
(***************************************************************************)
\* Request r of q is made by a step: logins and changes of name are counted, a
\* process that starts asks under a temporary id, and a text goes to the chat of
\* the text frame or of the console.
JustAsked(r, q) ==
    /\ r.body.kind = "Authorize" => spent'["authorize"] # 0
    /\ r.body.kind = "ChangeName" => spent'["changeName"] # 0
    /\ r.body.kind = "Connect" => r.from \in TempIds
    /\ r.body.kind = "SendMessage" => r.from = identity[q] /\ r.body.chat \in {current[q], chatId[q]}

RequestsMade ==
    \A q \in Clients : \A k \in DOMAIN requests'[q] :
        Kept(requests'[q][k], q) \/ JustAsked(requests'[q][k], q)

LEMMA SpendCounts ==
    ASSUME TypeInv, NEW kind \in Kinds, Spend(kind)
    PROVE  spent'[kind] # 0
<1>1. spent \in [Kinds -> Nat]
    BY DEF TypeInv, TypeOK
<1> QED
    BY <1>1 DEF Spend

LEMMA SendAsks ==
    ASSUME TypeInv, NEW p \in Clients, NEW b \in RequestBodies, SendRequest(p, b),
           b.kind = "Authorize" => spent'["authorize"] # 0,
           b.kind = "ChangeName" => spent'["changeName"] # 0,
           b.kind # "Connect",
           b.kind = "SendMessage" => b.chat \in {current[p], chatId[p]}
    PROVE  RequestsMade
<1>1. Running(p) /\ config[p].session \in Nat /\ Post(p, config[p].session, b)
    BY DEF SendRequest, TypeInv, TypeOK, ClientTypeOK
<1>2. WireTypeOK
    BY DEF TypeInv, TypeOK
<1> QED
    BY <1>1, <1>2, PostFlow DEF RequestsMade, JustAsked

LEMMA StartAsks ==
    ASSUME TypeInv, NEW p \in Clients, NEW self \in Logins, Start(p, self)
    PROVE  RequestsMade
<1>1. WireTypeOK /\ ClientTypeOK
    BY DEF TypeInv, TypeOK
<1>2. PICK t \in FreshTempIds :
        requests' = [requests EXCEPT ![p] = Append(@,
             [from |-> t, session |-> config[p].session, sent |-> FALSE,
              body |-> [kind  |-> "Connect",
                        login |-> IF config[p].identity = NoId THEN self
                                                               ELSE config[p].identity]])]
    BY DEF Start
<1> DEFINE b == [kind  |-> "Connect",
                 login |-> IF config[p].identity = NoId THEN self ELSE config[p].identity]
           r == [from |-> t, session |-> config[p].session, sent |-> FALSE, body |-> b]
           n == Len(requests[p])
<1>3. config[p].session \in Nat /\ config[p].identity \in Logins \cup {NoId}
      /\ t \in TempIds /\ t \in Ids
    BY <1>1 DEF ClientTypeOK, FreshTempIds, Ids
<1>4. b \in RequestBodies /\ b.kind = "Connect"
    BY <1>3 DEF RequestBodies
<1>5. requests' = [requests EXCEPT ![p] = Append(@, r)]
    BY <1>2
<1> HIDE DEF b
<1>6. r \in Requests /\ r.from = t /\ r.body = b
    BY <1>3, <1>4 DEF Requests
<1> HIDE DEF r
<1>7. requests[p] \in Seq(Requests) /\ n \in Nat /\ DOMAIN requests[p] = 1 .. n
    BY <1>1, LenProperties DEF WireTypeOK
<1>8. requests'[p] = Append(requests[p], r) /\ \A q \in Clients \ {p} : requests'[q] = requests[q]
    BY <1>1, <1>5 DEF WireTypeOK
<1>9. /\ DOMAIN requests'[p] = 1 .. n + 1
      /\ \A i \in 1 .. n : requests'[p][i] = requests[p][i]
      /\ requests'[p][n + 1] = r
    BY <1>6, <1>7, <1>8, AppendProperties, LenProperties
<1> HIDE DEF n
<1>10. ASSUME NEW q \in Clients, NEW k \in DOMAIN requests'[q]
       PROVE  Kept(requests'[q][k], q) \/ JustAsked(requests'[q][k], q)
    <2>1. CASE q # p
        BY <1>8, <1>10, <2>1 DEF Kept
    <2>2. CASE q = p /\ k = n + 1
        BY <1>3, <1>4, <1>6, <1>9, <2>2 DEF JustAsked
    <2>3. CASE q = p /\ k # n + 1
        <3>1. k \in 1 .. n
            BY <1>7, <1>9, <1>10, <2>3
        <3> QED
            BY <1>7, <1>9, <2>3, <3>1 DEF Kept
    <2> QED
        BY <2>1, <2>2, <2>3
<1> QED
    BY <1>10 DEF RequestsMade

LEMMA AccountAsks ==
    ASSUME TypeInv, NEW p \in Clients, UseAccount(p)
    PROVE  RequestsMade
<1>1. CASE SwitchPage(p)
    BY <1>1, SameRequests DEF SwitchPage, wireVars, NoNewRequests, RequestsMade
<1>2. ASSUME NEW u \in Logins, NEW valid \in BOOLEAN, RequestRegister(p, u, valid)
      PROVE  RequestsMade
    BY <1>2, SendAsks, AccountBodies DEF RequestRegister
<1>3. ASSUME NEW u \in Logins, NEW valid \in BOOLEAN, RequestAuthorize(p, u, valid),
             Spend("authorize")
      PROVE  RequestsMade
    <2>1. spent'["authorize"] # 0
        BY <1>3, SpendCounts DEF Kinds
    <2> QED
        BY <1>3, <2>1, SendAsks, AccountBodies DEF RequestAuthorize
<1>4. CASE RequestLogout(p)
    <2>1. [kind |-> "Logout"] \in RequestBodies
        BY DEF RequestBodies
    <2> QED
        BY <1>4, <2>1, SendAsks DEF RequestLogout
<1>5. ASSUME NEW u \in Logins, RequestChangeIdentity(p, u), Spend("changeName")
      PROVE  RequestsMade
    <2>1. spent'["changeName"] # 0
        BY <1>5, SpendCounts DEF Kinds
    <2> QED
        BY <1>5, <2>1, SendAsks, AccountBodies DEF RequestChangeIdentity
<1> QED
    BY <1>1, <1>2, <1>3, <1>4, <1>5 DEF UseAccount

LEMMA PaneAsks ==
    ASSUME TypeInv, NEW p \in Clients, UsePane(p)
    PROVE  RequestsMade
<1>1. chatId[p] \in Int /\ current[p] \in Int
    BY DEF TypeInv, TypeOK, ClientTypeOK, PaneTypeOK
<1>2. ASSUME NEW invited \in InviteSets, RequestToCreateChat(p, invited) PROVE RequestsMade
    <2>1. invited \in SUBSET Logins
        BY SystemAssumption
    <2>2. [kind |-> "CreateChat", invited |-> invited] \in RequestBodies
        BY <2>1 DEF RequestBodies
    <2> QED
        BY <1>2, <2>2, SendAsks DEF RequestToCreateChat
<1>3. CASE PopUp(p)
    <2>1. [kind |-> "ClientChats"] \in RequestBodies
        BY DEF RequestBodies
    <2> QED
        BY <1>3, <2>1, SendAsks DEF PopUp
<1>4. CASE \E c \in combo[p] \cup {-1} : SelectChat(p, c)
    BY <1>4, SameRequests DEF SelectChat, wireVars, NoNewRequests, RequestsMade
<1>5. CASE SendText(p)
    BY <1>1, <1>5, SendAsks, PaneBodies DEF SendText
<1>6. CASE SendLine(p)
    BY <1>1, <1>6, SendAsks, PaneBodies DEF SendLine
<1> QED
    BY <1>2, <1>3, <1>4, <1>5, <1>6 DEF UsePane

LEMMA BoxAsks ==
    ASSUME TypeInv, NEW p \in Clients, UseBox(p)
    PROVE  RequestsMade
<1>1. CASE FetchAllNotifications(p)
    <2>1. [kind |-> "Notifications"] \in RequestBodies
        BY DEF RequestBodies
    <2> QED
        BY <1>1, <2>1, SendAsks DEF FetchAllNotifications
<1>2. CASE AnswerOrphan(p) \/ \E i \in DOMAIN notices[p] : OnClick(p, i)
    BY <1>2, SameRequests DEF AnswerOrphan, OnClick, wireVars, NoNewRequests, RequestsMade
<1>3. ASSUME NEW i \in DOMAIN notices[p], NEW accept \in BOOLEAN, AnswerInvite(p, i, accept)
      PROVE  RequestsMade
    <2> DEFINE b == [kind |-> IF accept THEN "AcceptCreateChat" ELSE "DeclineCreateChat",
                     nid |-> notices[p][i].nid, chat |-> notices[p][i].chat]
    <2>1. notices[p][i] \in Entries
        BY <1>3, ElementOfSeq, LenProperties DEF TypeInv, TypeOK, BoxTypeOK
    <2>2. b \in RequestBodies /\ b.kind \in AnswerKinds
        BY <2>1 DEF RequestBodies, Entries, AnswerKinds
    <2>3. SendRequest(p, b)
        BY <1>3 DEF AnswerInvite, Answer
    <2> HIDE DEF b
    <2> QED
        BY <2>2, <2>3, SendAsks DEF AnswerKinds
<1> QED
    BY <1>1, <1>2, <1>3 DEF UseBox

LEMMA RequestOrigin ==
    ASSUME TypeInv, [Next]_vars
    PROVE  RequestsMade
<1>1. WireTypeOK
    BY DEF TypeInv, TypeOK
<1>2. ASSUME NoNewRequests PROVE RequestsMade
    BY <1>2 DEF NoNewRequests, RequestsMade
<1>3. ASSUME NEW p \in Clients, StartClient(p) PROVE RequestsMade
    BY <1>3, StartAsks DEF StartClient
<1>4. ASSUME NEW p \in Clients, QuitClient(p) \/ OrphanCrash(p) PROVE RequestsMade
    BY <1>1, <1>2, <1>4, ReconnectFlow DEF QuitClient, OrphanCrash, EndClient, CloseClient
<1>5. ASSUME NEW p \in Clients, AcceptConnection(p) PROVE RequestsMade
    BY <1>2, <1>5, SameRequests DEF AcceptConnection, Accept
<1>6. CASE HaltServer
    BY <1>1, <1>2, <1>6, GoDownFlow DEF HaltServer, Halt
<1>7. CASE RestartServer
    BY <1>2, <1>7, SameRequests DEF RestartServer, Restart, wireVars
<1>8. CASE RunServer
    BY <1>1, <1>2, <1>8, ServerRequests DEF RunServer
<1>9. CASE UNCHANGED vars
    BY <1>2, <1>9, SameRequests DEF vars, wireVars
<1> QED
    BY <1>2, <1>3, <1>4, <1>5, <1>6, <1>7, <1>8, <1>9,
       AccountAsks, PaneAsks, BoxAsks, ReceiveFlow DEF Next

-----------------------------------------------------------------------------
(***************************************************************************)
(* Windows whose user stays.  A process that starts takes the name of the  *)
(* user it is told, and no other as long as nobody logs in or changes the  *)
(* name; the chats it offers are those of its user.                        *)
(***************************************************************************)
NobodyChanges == spent["authorize"] = 0 /\ spent["changeName"] = 0

\* Only a process that has just started is told its name.
OnlyStartsAsk ==
    \A p \in Clients : \A k \in DOMAIN requests[p] : LET r == requests[p][k] IN
        /\ r.body.kind \notin {"Authorize", "ChangeName"}
        /\ r.body.kind = "Connect" => r.from \in TempIds

OnlyStartsAreNamed ==
    \A p \in Clients : \A k \in DOMAIN replies[p] :
        replies[p][k].kind = "NewClientName" => identity[p] \in TempIds

UserStays == NobodyChanges => OnlyStartsAsk /\ OnlyStartsAreNamed

LEMMA NobodyChanged ==
    ASSUME TypeInv, [Next]_vars, NobodyChanges'
    PROVE  NobodyChanges
BY SpentGrows DEF NobodyChanges, Kinds

LEMMA UserStaysStep ==
    ASSUME TypeInv, KnownByIdentity, UserStays, [Next]_vars
    PROVE  UserStays'
<1>1. IdsChanged /\ WireTypeOK
    BY IdsAfterStep DEF TypeInv, TypeOK
<1> SUFFICES ASSUME NobodyChanges'
             PROVE  OnlyStartsAsk' /\ OnlyStartsAreNamed'
    BY DEF UserStays
<1>2. OnlyStartsAsk /\ OnlyStartsAreNamed
    BY NobodyChanged DEF UserStays
<1>3. ASSUME NEW q \in Clients, NEW k \in DOMAIN requests'[q]
      PROVE  /\ requests'[q][k].body.kind \notin {"Authorize", "ChangeName"}
             /\ requests'[q][k].body.kind = "Connect" => requests'[q][k].from \in TempIds
    <2>1. CASE Kept(requests'[q][k], q)
        BY <1>2, <2>1 DEF Kept, OnlyStartsAsk
    <2>2. CASE JustAsked(requests'[q][k], q)
        BY <2>2 DEF JustAsked, NobodyChanges
    <2> QED
        BY <1>3, <2>1, <2>2, RequestOrigin DEF RequestsMade
<1>4. ASSUME NEW q \in Clients, NEW k \in DOMAIN replies'[q],
             replies'[q][k].kind = "NewClientName"
      PROVE  identity'[q] \in TempIds
    <2>1. identity'[q] = identity[q]
        <3>1. replies'[q] # <<>>
            BY <1>4
        <3> QED
            BY <1>1, <3>1 DEF IdsChanged
    <2>2. CASE Was(replies'[q][k], q)
        BY <1>2, <1>4, <2>1, <2>2 DEF Was, OnlyStartsAreNamed
    <2>3. CASE JustSent(replies'[q][k], q)
        <3>1. PICK p \in Clients : /\ Reads(p) /\ peer[q] = Current(p).from
                                   /\ Current(p).body.kind \in {"Connect", "ChangeName", "Authorize"}
            BY <1>4, <2>3 DEF JustSent, TellingKinds
        <3>2. 1 \in DOMAIN requests[p] /\ Current(p) = requests[p][1]
            BY <1>1, <3>1, CurrentIsFirst
        <3>3. peer[q] \in TempIds
            BY <1>2, <3>1, <3>2 DEF OnlyStartsAsk
        <3>4. peer[q] = identity[q]
            BY <3>3, IdsAssumption DEF KnownByIdentity
        <3> QED
            BY <2>1, <3>3, <3>4
    <2> QED
        BY <1>4, <2>2, <2>3, MessageFlow
<1> QED
    BY <1>3, <1>4 DEF OnlyStartsAsk, OnlyStartsAreNamed

-----------------------------------------------------------------------------
\* The chats p can select or write to without asking the server.
PaneChats(p) == combo[p] \cup ({selected[p], current[p], chatId[p]} \ {NoChat})

PanesAreOwn == \A p \in Clients : \A c \in PaneChats(p) : IsIn(identity[p], c)

ListsAreOwn ==
    \A p \in Clients : \A k \in DOMAIN replies[p] :
        replies[p][k].kind = "ClientChats" => \A c \in replies[p][k].chats : IsIn(identity[p], c)

TextsAreOwn ==
    /\ \A p \in Clients : \A k \in DOMAIN requests[p] : LET r == requests[p][k] IN
        r.body.kind = "SendMessage" /\ r.body.chat # NoChat => IsIn(r.from, r.body.chat)
    /\ job.at = "stored" => IsIn(job.author, job.chat)

OwnChats == NobodyChanges => PanesAreOwn /\ ListsAreOwn /\ TextsAreOwn

\* A step gives a window the chats the server has just told it of, takes all of them
\* away, or leaves them, and the user with them unless there was none.
PaneGrows(q) ==
    /\ identity'[q] = identity[q] \/ ~Running(q) \/ Receives(q, "NewClientName")
    /\ \A c \in PaneChats(q)' :
         \/ c \in PaneChats(q)
         \/ Receives(q, "ClientChats") /\ c \in Received(q).chats
         \/ Receives(q, "NewChat") /\ c = Received(q).chat

LEMMA SamePane ==
    ASSUME UNCHANGED <<combo, selected, current, chatId>>, NEW q,
           identity'[q] = identity[q] \/ ~Running(q) \/ Receives(q, "NewClientName")
    PROVE  PaneGrows(q)
BY DEF PaneGrows, PaneChats

LEMMA PaneAfterStep ==
    ASSUME TypeInv, [Next]_vars, NEW q \in Clients
    PROVE  PaneChats(q)' = {} \/ PaneGrows(q)
<1>1. WireTypeOK /\ ClientTypeOK /\ PaneTypeOK
    BY DEF TypeInv, TypeOK
<1>2. ASSUME NEW p \in Clients, StartClient(p) PROVE PaneGrows(q)
    <2>1. /\ UNCHANGED <<combo, selected, current, chatId>> /\ ~Running(p)
          /\ \E t : identity' = [identity EXCEPT ![p] = t]
        BY <1>2 DEF StartClient, Start, clientVars, paneVars
    <2> QED
        BY <1>1, <2>1, SamePane DEF WireTypeOK
<1>3. ASSUME NEW p \in Clients, EndClient(p) PROVE PaneChats(q)' = {} \/ PaneGrows(q)
    <2>1. CASE q = p
        BY <1>1, <1>3, <2>1 DEF EndClient, CloseClient, ClosePane, PaneChats, NoChat,
            ClientTypeOK, PaneTypeOK
    <2>2. CASE q # p
        BY <1>1, <1>3, <2>2 DEF EndClient, CloseClient, Reconnect, ClosePane, PaneChats, PaneGrows,
            WireTypeOK, ClientTypeOK, PaneTypeOK
    <2> QED
        BY <2>1, <2>2
<1>4. ASSUME NEW p \in Clients, AcceptConnection(p) \/ UseAccount(p) \/ UseBox(p)
      PROVE  PaneGrows(q)
    <2>1. UNCHANGED <<combo, selected, current, chatId, identity>>
        BY <1>4 DEF AcceptConnection, Accept, UseAccount, SwitchPage, RequestRegister,
            RequestAuthorize, RequestLogout, RequestChangeIdentity, UseBox,
            FetchAllNotifications, OnClick, AnswerInvite, Answer, AnswerOrphan, SendRequest,
            wireVars, clientVars, paneVars
    <2> QED
        BY <2>1, SamePane
<1>5. ASSUME NEW p \in Clients, UsePane(p) PROVE PaneGrows(q)
    <2>1. CASE UNCHANGED <<combo, selected, current, chatId, identity>>
        BY <2>1, SamePane
    <2>2. ASSUME NEW c \in combo[p] \cup {-1}, SelectChat(p, c) PROVE PaneGrows(q)
        <3>1. UNCHANGED <<combo, chatId, identity>>
            BY <2>2 DEF SelectChat, wireVars, clientVars
        <3>2. CASE q # p
            <4>1. selected'[q] = selected[q] /\ current'[q] = current[q]
                BY <1>1, <2>2, <3>2 DEF SelectChat, PaneTypeOK
            <4> QED
                BY <3>1, <4>1 DEF PaneGrows, PaneChats
        <3>3. CASE q = p
            <4>1. selected'[q] = c /\ (current'[q] = current[q] \/ (c # -1 /\ current'[q] = c))
                BY <1>1, <2>2, <3>3 DEF SelectChat, PaneTypeOK
            <4> QED
                BY <2>2, <3>1, <3>3, <4>1 DEF PaneGrows, PaneChats, NoChat
        <3> QED
            BY <3>2, <3>3
    <2> QED
        BY <1>5, <2>1, <2>2 DEF UsePane, RequestToCreateChat, PopUp, SendText, SendLine,
            SendRequest, clientVars, paneVars
<1>6. ASSUME NEW p \in Clients, Receive(p) PROVE PaneGrows(q)
    <2>1. CASE ReceiveClientChats(p)
        BY <1>1, <2>1 DEF ReceiveClientChats, Consume, clientVars, PaneGrows, PaneChats, PaneTypeOK
    <2>2. CASE ReceiveNewChat(p) /\ UNCHANGED paneVars
        BY <1>1, <2>2 DEF ReceiveNewChat, Consume, paneVars, PaneGrows, PaneChats, ClientTypeOK
    <2>3. CASE ReceiveNewClientName(p) /\ UNCHANGED paneVars
        <3>1. /\ UNCHANGED <<combo, selected, current, chatId>> /\ Receives(p, "NewClientName")
              /\ \E id : identity' = [identity EXCEPT ![p] = id]
            BY <1>1, <2>3 DEF ReceiveNewClientName, Reconnect, Consume, paneVars, WireTypeOK
        <3> QED
            BY <1>1, <3>1, SamePane DEF WireTypeOK
    <2>4. CASE /\ \/ ReceiveRegister(p) \/ ReceiveAuthorize(p) \/ ReceiveAlreadyAuthorized(p)
                  \/ ReceiveNotAuthorized(p) \/ ReceiveCreateChat(p) \/ ReceiveNotifications(p)
               /\ UNCHANGED paneVars
        <3>1. UNCHANGED <<combo, selected, current, chatId, identity>>
            BY <2>4 DEF ReceiveRegister, ReceiveAuthorize, ReceiveAlreadyAuthorized,
                ReceiveNotAuthorized, ReceiveCreateChat, ReceiveNotifications, Consume,
                clientVars, paneVars
        <3> QED
            BY <3>1, SamePane
    <2>5. CASE ReceiveIncomingMessage(p)
        <3>1. UNCHANGED <<combo, selected, current, chatId, identity>>
            BY <2>5 DEF ReceiveIncomingMessage, Consume, clientVars
        <3> QED
            BY <3>1, SamePane
    <2> QED
        BY <1>6, <2>1, <2>2, <2>3, <2>4, <2>5 DEF Receive
<1>7. ASSUME HaltServer \/ RestartServer \/ RunServer \/ UNCHANGED vars
      PROVE  PaneGrows(q)
    <2>1. UNCHANGED <<combo, selected, current, chatId, identity>>
        BY <1>7, ServerLeavesIds DEF HaltServer, Halt, GoDown, BreakConnections, RestartServer,
            Restart, RunServer, vars, wireVars, clientVars, paneVars
    <2> QED
        BY <2>1, SamePane
<1> QED
    BY <1>2, <1>3, <1>4, <1>5, <1>6, <1>7 DEF Next, QuitClient, OrphanCrash

OwnInv ==
    TypeInv /\ KnownByIdentity /\ NewChatIsDurable /\ UserStays /\ OwnChats /\ WrittenByMembers

LEMMA InIsTyped ==
    ASSUME ServerTypeOK, NEW u, NEW c, IsIn(u, c)
    PROVE  u \in Logins /\ u # NoId /\ u \notin TempIds
BY IdsAssumption DEF ServerTypeOK, Memberships, IsIn

LEMMA PanesStayOwn ==
    ASSUME OwnInv, [Next]_vars, NobodyChanges
    PROVE  PanesAreOwn'
<1>1. WireTypeOK /\ ServerTypeOK /\ PanesAreOwn /\ ListsAreOwn /\ OnlyStartsAreNamed
      /\ NewChatIsDurable /\ TypeInv
    BY DEF OwnInv, TypeInv, TypeOK, UserStays, OwnChats
<1> SUFFICES ASSUME NEW q \in Clients, NEW c \in PaneChats(q)'
             PROVE  IsIn(identity[q], c)'
    BY DEF PanesAreOwn
<1>2. PaneGrows(q)
    BY <1>1, PaneAfterStep
<1>3. ASSUME NEW kind, Receives(q, kind)
      PROVE  /\ kind = "ClientChats" => \A d \in Received(q).chats : IsIn(identity[q], d)
             /\ kind = "NewChat" => IsIn(identity[q], Received(q).chat)
             /\ kind = "NewClientName" => identity[q] \in TempIds
    <2>1. 1 \in DOMAIN replies[q] /\ Received(q) = replies[q][1] /\ Received(q).kind = kind
        BY <1>1, <1>3, ReceivedIsFirst
    <2> QED
        BY <1>1, <2>1 DEF ListsAreOwn, NewChatIsDurable, OnlyStartsAreNamed, IsIn
<1>4. IsIn(identity[q], c)
    BY <1>1, <1>2, <1>3 DEF PaneGrows, PanesAreOwn
<1>5. identity[q] \in Logins /\ identity[q] # NoId /\ identity[q] \notin TempIds
    BY <1>1, <1>4, InIsTyped
<1>6. identity'[q] = identity[q]
    BY <1>2, <1>3, <1>5 DEF PaneGrows, Running
<1> QED
    BY <1>4, <1>6, MembersStay DEF IsIn

LEMMA ListsStayOwn ==
    ASSUME OwnInv, [Next]_vars, NobodyChanges
    PROVE  ListsAreOwn'
<1>1. TypeInv /\ KnownByIdentity /\ IdsChanged /\ ListsAreOwn /\ ServerTypeOK
    BY IdsAfterStep DEF OwnInv, OwnChats, TypeInv, TypeOK
<1> SUFFICES ASSUME NEW q \in Clients, NEW k \in DOMAIN replies'[q],
                    replies'[q][k].kind = "ClientChats", NEW c \in replies'[q][k].chats
             PROVE  IsIn(identity[q], c)'
    BY DEF ListsAreOwn
<1>2. identity'[q] = identity[q]
    <2>1. replies'[q] # <<>>
        OBVIOUS
    <2> QED
        BY <1>1, <2>1 DEF IdsChanged
<1>3. IsIn(identity[q], c)
    <2>1. CASE Was(replies'[q][k], q)
        BY <1>1, <2>1 DEF Was, ListsAreOwn
    <2>2. CASE JustSent(replies'[q][k], q)
        <3>1. c \in GetClientChats(peer[q])
            BY <2>2 DEF JustSent, TellingKinds
        <3>2. PICK m \in userChats : m.chat = c /\ m.user = peer[q]
            BY <3>1 DEF GetClientChats
        <3>3. m \in Memberships
            BY <1>1, <3>2 DEF ServerTypeOK
        <3>4. IsIn(peer[q], c)
            BY <3>2, <3>3 DEF Memberships, IsIn
        <3> QED
            BY <1>1, <3>4, InIsTyped DEF KnownByIdentity
    <2> QED
        BY <1>1, <2>1, <2>2, MessageFlow
<1> QED
    BY <1>2, <1>3, MembersStay DEF IsIn

\* A message is stored by HandleSendMessage.
LEMMA StoredAfterStep ==
    ASSUME TypeInv, [Next]_vars, job'.at = "stored"
    PROVE  UNCHANGED job \/ \E p \in Clients : HandleSendMessage(p)
<1>1. ASSUME NEW p \in Clients,
             \/ RefuseWithoutSession(p) \/ HandleConnection(p) \/ HandleRegister(p)
             \/ HandleAuthorize(p) \/ HandleLogout(p) \/ HandleClientChatsInfoRequest(p)
             \/ HandleClientNotifications(p) \/ RefuseMessage(p)
      PROVE  UNCHANGED job
    BY <1>1 DEF RefuseWithoutSession, HandleConnection, HandleRegister, HandleAuthorize,
        HandleLogout, HandleClientChatsInfoRequest, HandleClientNotifications, RefuseMessage,
        serverVars
<1>2. ASSUME NEW p \in Clients,
             PrepareNewChatSession(p) \/ HandleResponseForInvite(p) \/ AcceptFails(p)
      PROVE  FALSE
    BY <1>2 DEF PrepareNewChatSession, HandleResponseForInvite, AcceptFails, GoDown, Idle
<1>3. ASSUME NEW u \in Logins, AskClient(u) PROVE FALSE
    BY <1>3, AskingJob DEF AskClient, TypeInv, TypeOK
<1>4. ASSUME FinishNewChat \/ FinishNewChatFails \/ SetNotificationChecked \/ DispatchMessage
             \/ HaltServer
      PROVE  FALSE
    BY <1>4 DEF FinishNewChat, FinishNewChatFails, SetNotificationChecked, DispatchMessage,
        HaltServer, Halt, GoDown, Idle
<1>5. CASE RunServer
    BY <1>1, <1>2, <1>3, <1>4, <1>5 DEF RunServer, ServerStep
<1>6. CASE ~RunServer
    BY <1>4, <1>6 DEF Next, StartClient, QuitClient, OrphanCrash, EndClient, AcceptConnection,
        UseAccount, UsePane, UseBox, Receive, RestartServer, Restart, vars, serverVars
<1> QED
    BY <1>5, <1>6

LEMMA TextsStayOwn ==
    ASSUME OwnInv, [Next]_vars, NobodyChanges
    PROVE  TextsAreOwn'
<1>1. TypeInv /\ WireTypeOK /\ PanesAreOwn /\ TextsAreOwn
    BY DEF OwnInv, TypeInv, TypeOK, OwnChats
<1>2. ASSUME NEW q \in Clients, NEW k \in DOMAIN requests'[q],
             requests'[q][k].body.kind = "SendMessage", requests'[q][k].body.chat # NoChat
      PROVE  IsIn(requests[q][k].from, requests[q][k].body.chat)'
    <2>1. CASE Kept(requests'[q][k], q)
        <3>1. PICK j \in DOMAIN requests[q] : /\ requests'[q][k].from = requests[q][j].from
                                              /\ requests'[q][k].body = requests[q][j].body
            BY <2>1 DEF Kept
        <3>2. IsIn(requests[q][j].from, requests[q][j].body.chat)
            BY <1>1, <1>2, <3>1 DEF TextsAreOwn
        <3> QED
            BY <3>1, <3>2, MembersStay DEF IsIn
    <2>2. CASE JustAsked(requests'[q][k], q)
        <3>1. requests'[q][k].from = identity[q] /\ requests'[q][k].body.chat \in PaneChats(q)
            BY <1>2, <2>2 DEF JustAsked, PaneChats
        <3>2. IsIn(identity[q], requests'[q][k].body.chat)
            BY <1>1, <3>1 DEF PanesAreOwn
        <3> QED
            BY <3>1, <3>2, MembersStay DEF IsIn
    <2> QED
        BY <1>1, <1>2, <2>1, <2>2, RequestOrigin DEF RequestsMade
<1>3. ASSUME job'.at = "stored" PROVE IsIn(job.author, job.chat)'
    <2>1. CASE UNCHANGED job
        <3>1. IsIn(job.author, job.chat)
            BY <1>1, <1>3, <2>1 DEF TextsAreOwn
        <3> QED
            BY <2>1, <3>1, MembersStay DEF IsIn
    <2>2. ASSUME NEW p \in Clients, HandleSendMessage(p) PROVE IsIn(job.author, job.chat)'
        <3>1. 1 \in DOMAIN requests[p] /\ Current(p) = requests[p][1]
            BY <1>1, <2>2, CurrentIsFirst DEF HandleSendMessage, Serves
        <3>2. IsIn(Current(p).from, Current(p).body.chat)
            BY <1>1, <2>2, <3>1 DEF HandleSendMessage, Serves, TextsAreOwn
        <3>3. job'.author = Current(p).from /\ job'.chat = Current(p).body.chat
            BY <2>2 DEF HandleSendMessage
        <3> QED
            BY <3>2, <3>3, MembersStay DEF IsIn
    <2> QED
        BY <1>1, <1>3, <2>1, <2>2, StoredAfterStep
<1> QED
    BY <1>2, <1>3 DEF TextsAreOwn

LEMMA OwnStep ==
    ASSUME OwnInv, [Next]_vars
    PROVE  OwnInv'
<1>1. TypeInv /\ KnownByIdentity /\ NewChatIsDurable /\ DurableInv'
    BY DurableStep DEF OwnInv, DurableInv
<1>2. UserStays'
    BY UserStaysStep DEF OwnInv
<1>3. OwnChats'
    BY <1>1, NobodyChanged, PanesStayOwn, ListsStayOwn, TextsStayOwn DEF OwnChats
<1>4. ASSUME NobodyChanges', NEW q \in Clients, NEW k \in DOMAIN replies'[q],
             replies'[q][k].kind = "IncomingMessage"
      PROVE  IsIn(replies[q][k].author, replies[q][k].chat)'
    <2>1. NobodyChanges /\ TextsAreOwn
        BY <1>1, <1>4, NobodyChanged DEF OwnInv, OwnChats
    <2>2. CASE Was(replies'[q][k], q)
        BY <1>4, <2>1, <2>2, MembersStay DEF Was, OwnInv, WrittenByMembers, NobodyChanges, IsIn
    <2>3. CASE JustSent(replies'[q][k], q)
        <3>1. /\ job.at = "stored" /\ replies'[q][k].author = job.author
              /\ replies'[q][k].chat = job.chat
            BY <1>4, <2>3 DEF JustSent, TellingKinds, DispatchMessage
        <3> QED
            BY <2>1, <3>1, MembersStay DEF TextsAreOwn, IsIn
    <2> QED
        BY <1>1, <1>4, <2>2, <2>3, MessageFlow
<1>5. WrittenByMembers'
    BY <1>4 DEF WrittenByMembers, NobodyChanges, IsIn
<1> QED
    BY <1>1, <1>2, <1>3, <1>5 DEF OwnInv, DurableInv

LEMMA OwnInit == Init => OwnInv
<1> SUFFICES ASSUME Init PROVE OwnInv
    OBVIOUS
<1>1. KnownByIdentity /\ NewChatIsDurable /\ UserStays /\ WrittenByMembers
    BY DEF Init, WireInit, KnownByIdentity, NewChatIsDurable, UserStays, OnlyStartsAsk,
        OnlyStartsAreNamed, WrittenByMembers
<1>2. PanesAreOwn
    BY DEF Init, ClientInit, PaneInit, PanesAreOwn, PaneChats, NoChat
<1>3. ListsAreOwn /\ TextsAreOwn
    BY DEF Init, WireInit, ServerInit, Idle, ListsAreOwn, TextsAreOwn
<1> QED
    BY <1>1, <1>2, <1>3, InitTyped DEF OwnInv, OwnChats

\* A text is from a member of its chat, though HandleSendMessage does not look, as
\* long as nobody logs in or changes the name: the chats a window offers and the
\* one the console writes to are those of its user, whatever crashes and restarts.
THEOREM MembersWrite == Spec => []WrittenByMembers
<1>1. OwnInv /\ [Next]_vars => OwnInv'
    BY OwnStep
<1>2. OwnInv => WrittenByMembers
    BY DEF OwnInv
<1> QED
    BY OwnInit, <1>1, <1>2, PTL DEF Spec

-----------------------------------------------------------------------------
(***************************************************************************)
(* Texts come up in the order they were stored.                            *)
(***************************************************************************)
StoredRow(c, id) == \E i \in DOMAIN messages : messages[i].chat = c /\ messages[i].id = id

\* Message id of chat c is in the table, and any that is still to be sent is later.
Out(c, id) == StoredRow(c, id) /\ (job.at = "stored" /\ job.chat = c => id < job.id)

Text(p, k) == replies[p][k].kind = "IncomingMessage"

TextsAscend ==
    \A p \in Clients : \A j, k \in DOMAIN replies[p] :
        j < k /\ Text(p, j) /\ Text(p, k) /\ replies[p][j].chat = replies[p][k].chat
            => replies[p][j].id < replies[p][k].id

TextsAreOut ==
    \A p \in Clients : \A k \in DOMAIN replies[p] :
        Text(p, k) => Out(replies[p][k].chat, replies[p][k].id)

ShownAreOut == \A p \in Clients : \A i \in DOMAIN shown[p] : Out(current[p], shown[p][i].id)

JobIsStored == job.at = "stored" => StoredRow(job.chat, job.id)

OrderInv == TypeInv /\ TextsAscend /\ TextsAreOut /\ ShownAreOut /\ JobIsStored /\ FeedAscends

\* MAX(id) over the rows of a chat, or 0 if there are none.
LastOf(rows, c) ==
    Max({0} \cup {rows[i].id : i \in {j \in DOMAIN rows : rows[j].chat = c}})

LEMMA LastOfRows ==
    ASSUME NEW rows, NEW n \in Nat, DOMAIN rows = 1 .. n,
           \A i \in DOMAIN rows : rows[i].id \in 1 .. i, NEW c
    PROVE  LET m == LastOf(rows, c)
           IN  /\ m \in Nat
               /\ m = 0 \/ \E i \in DOMAIN rows : rows[i].chat = c /\ rows[i].id = m
               /\ \A i \in DOMAIN rows : rows[i].chat = c => rows[i].id \in Nat /\ rows[i].id <= m
<1> DEFINE ids == {0} \cup {rows[i].id : i \in {j \in DOMAIN rows : rows[j].chat = c}}
           m   == LastOf(rows, c)
<1>1. ids \in SUBSET (0 .. n) /\ ids # {}
    OBVIOUS
<1>2. m \in ids /\ \A y \in ids : m >= y
    BY <1>1, MaxOfBounded DEF LastOf
<1> HIDE DEF m
<1>3. m = 0 \/ \E i \in DOMAIN rows : rows[i].chat = c /\ rows[i].id = m
    BY <1>2
<1>4. ASSUME NEW i \in DOMAIN rows, rows[i].chat = c PROVE rows[i].id \in ids
    BY <1>4
<1> HIDE DEF ids
<1>5. \A y \in ids : y \in Nat
    BY <1>1
<1> QED
    BY <1>2, <1>3, <1>4, <1>5 DEF m

LEMMA NextIdIsAbove ==
    ASSUME TypeInv, NEW c, NEW i \in DOMAIN messages, messages[i].chat = c
    PROVE  messages[i].id \in Nat /\ messages[i].id < NextMessageId(c)
<1> DEFINE last == LastOf(messages, c)
<1>1. DOMAIN messages = 1 .. Len(messages) /\ Len(messages) \in Nat
    BY LenProperties DEF TypeInv, TypeOK, ServerTypeOK
<1>2. \A k \in DOMAIN messages : messages[k].id \in 1 .. k
    BY DEF TypeInv, IdsBounded
<1>3. last \in Nat /\ messages[i].id \in Nat /\ messages[i].id <= last
    BY <1>1, <1>2, LastOfRows
<1>4. NextMessageId(c) = last + 1
    BY DEF NextMessageId, LastOf
<1> HIDE DEF last
<1> QED
    BY <1>3, <1>4

\* The table grows by a row whose message is about to be sent.
LEMMA RowStored ==
    ASSUME TypeInv, NEW p \in Clients, HandleSendMessage(p)
    PROVE  LET c == Current(p).body.chat
               n == Len(messages)
           IN  /\ n \in Nat /\ DOMAIN messages = 1 .. n /\ DOMAIN messages' = 1 .. n + 1
               /\ \A i \in DOMAIN messages : messages'[i] = messages[i]
               /\ messages'[n + 1].chat = c /\ messages'[n + 1].id = NextMessageId(c)
               /\ job'.at = "stored" /\ job'.chat = c /\ job'.id = NextMessageId(c)
<1> DEFINE c == Current(p).body.chat
           n == Len(messages)
           row == [chat |-> c, id |-> NextMessageId(c)]
<1>1. DOMAIN messages = 1 .. n /\ n \in Nat /\ messages \in Seq(MessageRows)
    BY LenProperties DEF TypeInv, TypeOK, ServerTypeOK
<1>2. /\ messages' = Append(messages, row)
      /\ job' = [at |-> "stored", author |-> Current(p).from, chat |-> c, id |-> NextMessageId(c)]
    BY DEF HandleSendMessage
<1>3. row.chat = c /\ row.id = NextMessageId(c)
    OBVIOUS
<1> HIDE DEF row
<1>4. /\ DOMAIN messages' = 1 .. n + 1
      /\ \A i \in 1 .. n : messages'[i] = messages[i]
      /\ messages'[n + 1] = row
    <2>1. messages \in Seq(MessageRows \cup {row})
        BY <1>1, ElementOfSeq, SeqDef
    <2> QED
        BY <1>1, <1>2, <2>1, AppendProperties, LenProperties
<1>5. job'.at = "stored" /\ job'.chat = c /\ job'.id = NextMessageId(c)
    BY <1>2
<1> QED
    BY <1>1, <1>3, <1>4, <1>5

LEMMA TableAfterStep ==
    ASSUME [Next]_vars
    PROVE  UNCHANGED messages \/ \E p \in Clients : HandleSendMessage(p)
<1>1. CASE RunServer
    <2>1. CASE \E u \in Logins : AskClient(u)
        BY <2>1 DEF AskClient
    <2>2. CASE FinishNewChat \/ FinishNewChatFails \/ SetNotificationChecked \/ DispatchMessage
        BY <2>2 DEF FinishNewChat, FinishNewChatFails, SetNotificationChecked, DispatchMessage,
            tableVars
    <2> QED
        BY <1>1, <2>1, <2>2, MessagesKept DEF RunServer, ServerStep
<1>2. CASE ~RunServer
    BY <1>2 DEF Next, StartClient, QuitClient, OrphanCrash, EndClient, AcceptConnection,
        UseAccount, UsePane, UseBox, Receive, HaltServer, Halt, RestartServer, Restart,
        vars, serverVars, tableVars
<1> QED
    BY <1>1, <1>2

LEMMA RowsStay ==
    ASSUME TypeInv, [Next]_vars, NEW c, NEW id, StoredRow(c, id)
    PROVE  StoredRow(c, id)'
<1>1. CASE UNCHANGED messages
    BY <1>1 DEF StoredRow
<1>2. ASSUME NEW p \in Clients, HandleSendMessage(p) PROVE StoredRow(c, id)'
    <2>1. /\ DOMAIN messages \subseteq DOMAIN messages'
          /\ \A i \in DOMAIN messages : messages'[i] = messages[i]
        BY <1>2, RowStored
    <2> QED
        BY <2>1 DEF StoredRow
<1> QED
    BY <1>1, <1>2, TableAfterStep

\* What is out stays out, and what is stored afterwards is later.
LEMMA OutStays ==
    ASSUME TypeInv, [Next]_vars, NEW c, NEW id, Out(c, id)
    PROVE  Out(c, id)'
<1>1. StoredRow(c, id)'
    BY RowsStay DEF Out
<1>2. ASSUME job'.at = "stored", job'.chat = c PROVE id < job'.id
    <2>1. CASE UNCHANGED job
        BY <1>2, <2>1 DEF Out
    <2>2. ASSUME NEW p \in Clients, HandleSendMessage(p) PROVE id < job'.id
        <3>1. job'.id = NextMessageId(c)
            BY <1>2, <2>2, RowStored
        <3>2. PICK i \in DOMAIN messages : messages[i].chat = c /\ messages[i].id = id
            BY DEF Out, StoredRow
        <3> QED
            BY <3>1, <3>2, NextIdIsAbove
    <2> QED
        BY <1>2, <2>1, <2>2, StoredAfterStep
<1> QED
    BY <1>1, <1>2 DEF Out

LEMMA JobStaysStored ==
    ASSUME TypeInv, JobIsStored, [Next]_vars
    PROVE  JobIsStored'
<1> SUFFICES ASSUME job'.at = "stored" PROVE StoredRow(job.chat, job.id)'
    BY DEF JobIsStored
<1>1. CASE UNCHANGED job
    <2>1. StoredRow(job.chat, job.id)
        BY <1>1 DEF JobIsStored
    <2> QED
        BY <1>1, <2>1, RowsStay DEF StoredRow
<1>2. ASSUME NEW p \in Clients, HandleSendMessage(p) PROVE StoredRow(job.chat, job.id)'
    <2> DEFINE n == Len(messages)
    <2>1. /\ n + 1 \in DOMAIN messages'
          /\ messages'[n + 1].chat = job'.chat /\ messages'[n + 1].id = job'.id
        BY <1>2, RowStored
    <2> QED
        BY <2>1 DEF StoredRow
<1> QED
    BY <1>1, <1>2, StoredAfterStep

\* A text under way was under way before, as it was, or is the one just sent.
LEMMA TextOrigin ==
    ASSUME TypeInv, [Next]_vars, NEW q \in Clients, NEW k \in DOMAIN replies'[q], Text(q, k)'
    PROVE  \/ \E j \in DOMAIN replies[q] : replies'[q][k] = replies[q][j]
           \/ /\ DispatchMessage /\ job.at = "stored"
              /\ replies'[q][k].chat = job.chat /\ replies'[q][k].id = job.id
BY MessageFlow DEF Was, JustSent, TellingKinds, Text, DispatchMessage

LEMMA TextsStayOut ==
    ASSUME OrderInv, [Next]_vars
    PROVE  TextsAreOut'
<1>1. TypeInv /\ TextsAreOut /\ JobIsStored
    BY DEF OrderInv
<1> SUFFICES ASSUME NEW q \in Clients, NEW k \in DOMAIN replies'[q], Text(q, k)'
             PROVE  Out(replies[q][k].chat, replies[q][k].id)'
    BY DEF TextsAreOut
<1>2. ASSUME NEW j \in DOMAIN replies[q], replies'[q][k] = replies[q][j]
      PROVE  Out(replies[q][k].chat, replies[q][k].id)'
    <2>1. Out(replies[q][j].chat, replies[q][j].id)
        BY <1>1, <1>2 DEF TextsAreOut, Text
    <2> QED
        BY <1>1, <1>2, <2>1, OutStays DEF Out, StoredRow
<1>3. ASSUME DispatchMessage, job.at = "stored",
             replies'[q][k].chat = job.chat, replies'[q][k].id = job.id
      PROVE  Out(replies[q][k].chat, replies[q][k].id)'
    <2>1. StoredRow(job.chat, job.id) /\ UNCHANGED messages /\ job'.at # "stored"
        BY <1>1, <1>3 DEF JobIsStored, DispatchMessage, tableVars, Idle
    <2> QED
        BY <1>3, <2>1 DEF Out, StoredRow
<1> QED
    BY <1>1, <1>2, <1>3, TextOrigin

\* DispatchMessage sends one message to a client, behind all others.
LEMMA TextIsLast ==
    ASSUME WireTypeOK, NEW q \in Clients, DispatchMessage
    PROVE  Len(replies[q]) \in Nat
           /\ \A k \in DOMAIN replies'[q] : k \in Nat /\ k <= Len(replies[q]) + 1
<1>1. PICK m : Dispatch(GetChatClients(job.chat), <<m>>)
    BY DEF DispatchMessage
<1> QED
    BY <1>1, OneIsLast

LEMMA TextsStayAscending ==
    ASSUME OrderInv, [Next]_vars
    PROVE  TextsAscend'
<1>1. TypeInv /\ WireTypeOK /\ TextsAscend /\ TextsAreOut
    BY DEF OrderInv, TypeInv, TypeOK
<1> SUFFICES ASSUME NEW q \in Clients, NEW j \in DOMAIN replies'[q], NEW k \in DOMAIN replies'[q],
                    j < k, Text(q, j)', Text(q, k)', replies'[q][j].chat = replies'[q][k].chat
             PROVE  replies'[q][j].id < replies'[q][k].id
    BY DEF TextsAscend
<1> DEFINE n == Len(replies[q])
<1>2. n \in Nat /\ DOMAIN replies[q] = 1 .. n
    BY <1>1, LenProperties DEF WireTypeOK
<1>3. PICK d \in {0, 1} : \A i \in DOMAIN replies'[q] :
        \/ Shifted(q, i, d)
        \/ d = 0 /\ i > n /\ JustSent(replies'[q][i], q)
    BY <1>1, MessageOrder DEF MessagesInOrder
<1>4. \A i \in DOMAIN replies'[q] : i \in Nat
    <2>1. replies'[q] \in Seq(Replies)
        BY <1>1, StepTyped DEF TypeInv, TypeOK, WireTypeOK
    <2> QED
        BY <2>1, LenProperties
<1>5. CASE Shifted(q, j, d) /\ Shifted(q, k, d)
    <2>1. /\ j + d \in DOMAIN replies[q] /\ replies'[q][j] = replies[q][j + d]
          /\ k + d \in DOMAIN replies[q] /\ replies'[q][k] = replies[q][k + d]
          /\ j + d < k + d
        BY <1>4, <1>5 DEF Shifted
    <2>2. Text(q, j + d) /\ Text(q, k + d) /\ replies[q][j + d].chat = replies[q][k + d].chat
        BY <2>1 DEF Text
    <2> HIDE DEF n
    <2>3. replies[q][j + d].id < replies[q][k + d].id
        BY <1>1, <2>1, <2>2 DEF TextsAscend
    <2> QED
        BY <2>1, <2>3
<1>6. CASE Shifted(q, j, d) /\ k > n /\ JustSent(replies'[q][k], q)
    <2>1. DispatchMessage /\ replies'[q][k].chat = job.chat /\ replies'[q][k].id = job.id
        BY <1>6 DEF JustSent, TellingKinds, Text
    <2>2. Out(replies'[q][j].chat, replies'[q][j].id)
        BY <1>1, <1>6 DEF Shifted, TextsAreOut, Text
    <2> QED
        BY <2>1, <2>2 DEF Out, DispatchMessage
<1>7. CASE j > n /\ JustSent(replies'[q][j], q)
    <2>1. DispatchMessage
        BY <1>7 DEF JustSent, TellingKinds, Text
    <2> QED
        BY <1>1, <1>2, <1>4, <1>7, <2>1, TextIsLast
<1> QED
    BY <1>2, <1>3, <1>5, <1>6, <1>7

FrameStays(q) == shown'[q] = shown[q] /\ current'[q] = current[q]

\* The message that q receives comes up below all others.
ShowsText(q) ==
    /\ Receives(q, "IncomingMessage") /\ Received(q).chat = current[q]
    /\ current'[q] = current[q] /\ replies'[q] = Tail(replies[q])
    /\ \E n \in Nat :
        /\ DOMAIN shown[q] = 1 .. n /\ DOMAIN shown'[q] = 1 .. n + 1
        /\ \A i \in 1 .. n : shown'[q][i] = shown[q][i]
        /\ shown'[q][n + 1].id = Received(q).id

LEMMA TextShown ==
    ASSUME TypeInv, TypeInv', NEW q \in Clients, ReceiveIncomingMessage(q),
           Received(q).chat = current[q]
    PROVE  ShowsText(q)
<1> DEFINE m == [author |-> Received(q).author, chat |-> Received(q).chat, id |-> Received(q).id]
           n == Len(shown[q])
<1>1. /\ shown \in [Clients -> Seq(Messages)] /\ replies \in [Clients -> Seq(Replies)]
      /\ shown[q] \in Seq(Messages) /\ n \in Nat /\ DOMAIN shown[q] = 1 .. n
    BY LenProperties DEF TypeInv, TypeOK, PaneTypeOK, WireTypeOK
<1>2. shown'[q] = Append(shown[q], m)
    BY <1>1 DEF ReceiveIncomingMessage
<1>3. m.id = Received(q).id
    OBVIOUS
<1> HIDE DEF m
<1>4. /\ DOMAIN shown'[q] = 1 .. n + 1
      /\ \A i \in 1 .. n : shown'[q][i] = shown[q][i]
      /\ shown'[q][n + 1] = m
    <2>1. shown[q] \in Seq(Messages \cup {m})
        BY <1>1, ElementOfSeq, SeqDef
    <2> QED
        BY <1>1, <1>2, <2>1, AppendProperties, LenProperties
<1>5. Receives(q, "IncomingMessage") /\ current'[q] = current[q] /\ replies'[q] = Tail(replies[q])
    BY <1>1 DEF ReceiveIncomingMessage, Consume
<1> QED
    BY <1>1, <1>3, <1>4, <1>5 DEF ShowsText

\* A text frame is emptied, stays on its chat as it is, or shows the message received.
LEMMA ShownAfterStep ==
    ASSUME TypeInv, [Next]_vars, NEW q \in Clients
    PROVE  shown'[q] = <<>> \/ FrameStays(q) \/ ShowsText(q)
<1>1. WireTypeOK /\ PaneTypeOK
    BY DEF TypeInv, TypeOK
<1> DEFINE Stays == shown'[q] = shown[q] /\ current'[q] = current[q]
<1>2. ASSUME NEW p \in Clients, EndClient(p) PROVE shown'[q] = <<>> \/ Stays
    BY <1>1, <1>2 DEF EndClient, ClosePane, PaneTypeOK
<1>3. ASSUME NEW p \in Clients,
             StartClient(p) \/ AcceptConnection(p) \/ UseAccount(p) \/ UseBox(p)
      PROVE  Stays
    BY <1>3 DEF StartClient, AcceptConnection, UseAccount, UseBox, paneVars
<1>4. ASSUME NEW p \in Clients, UsePane(p) PROVE shown'[q] = <<>> \/ Stays
    BY <1>1, <1>4 DEF UsePane, RequestToCreateChat, PopUp, SelectChat, SendText, SendLine,
        paneVars, PaneTypeOK
<1>5. ASSUME NEW p \in Clients, Receive(p), ~ReceiveIncomingMessage(p) PROVE Stays
    BY <1>5 DEF Receive, ReceiveClientChats, paneVars
<1>6. ASSUME NEW p \in Clients, ReceiveIncomingMessage(p), p # q \/ Received(p).chat # current[p]
      PROVE  Stays
    BY <1>1, <1>6 DEF ReceiveIncomingMessage, PaneTypeOK
<1>7. ASSUME ReceiveIncomingMessage(q), Received(q).chat = current[q]
      PROVE  ShowsText(q)
    BY <1>7, StepTyped, TextShown
<1>8. ASSUME HaltServer \/ RestartServer \/ RunServer \/ UNCHANGED vars PROVE Stays
    BY <1>8 DEF HaltServer, RestartServer, RunServer, paneVars, vars
<1> QED
    BY <1>2, <1>3, <1>4, <1>5, <1>6, <1>7, <1>8 DEF Next, QuitClient, OrphanCrash, FrameStays

LEMMA ShownStaysOut ==
    ASSUME OrderInv, [Next]_vars
    PROVE  ShownAreOut'
<1>1. TypeInv /\ WireTypeOK /\ ShownAreOut /\ TextsAreOut
    BY DEF OrderInv, TypeInv, TypeOK
<1> SUFFICES ASSUME NEW q \in Clients, NEW i \in DOMAIN shown'[q]
             PROVE  Out(current[q], shown[q][i].id)'
    BY DEF ShownAreOut
<1>2. CASE FrameStays(q)
    <2>1. Out(current[q], shown[q][i].id)
        BY <1>1, <1>2 DEF FrameStays, ShownAreOut
    <2> QED
        BY <1>1, <1>2, <2>1, OutStays DEF FrameStays, Out, StoredRow
<1>3. CASE ShowsText(q)
    <2>1. \/ i \in DOMAIN shown[q] /\ shown'[q][i].id = shown[q][i].id
          \/ shown'[q][i].id = Received(q).id
        BY <1>3 DEF ShowsText
    <2>2. Out(current[q], Received(q).id)
        BY <1>1, <1>3, ReceivedIsFirst DEF ShowsText, TextsAreOut, Text
    <2>3. Out(current[q], shown'[q][i].id)
        BY <1>1, <2>1, <2>2 DEF ShownAreOut
    <2> QED
        BY <1>1, <1>3, <2>3, OutStays DEF ShowsText, Out, StoredRow
<1> QED
    BY <1>1, <1>2, <1>3, ShownAfterStep

LEMMA FeedStaysAscending ==
    ASSUME OrderInv, [Next]_vars
    PROVE  FeedAscends'
<1>1. /\ TypeInv /\ WireTypeOK /\ TextsAscend /\ ShownAreOut /\ FeedAscends
      /\ TextsAscend'
    BY TextsStayAscending DEF OrderInv, TypeInv, TypeOK
<1> SUFFICES ASSUME NEW q \in Clients
             PROVE  /\ \A i, j \in DOMAIN shown'[q] : i < j => shown'[q][i].id < shown'[q][j].id
                    /\ \A i \in DOMAIN shown'[q], k \in DOMAIN replies'[q] :
                        Text(q, k)' /\ replies'[q][k].chat = current'[q]
                            => shown'[q][i].id < replies'[q][k].id
    BY <1>1 DEF FeedAscends, Coming, TextsAscend, Text
<1>2. CASE FrameStays(q)
    <2>1. ASSUME NEW i \in DOMAIN shown[q], NEW k \in DOMAIN replies'[q],
                 Text(q, k)', replies'[q][k].chat = current[q]
          PROVE  shown[q][i].id < replies'[q][k].id
        <3>1. ASSUME NEW j \in DOMAIN replies[q], replies'[q][k] = replies[q][j]
              PROVE  shown[q][i].id < replies'[q][k].id
            BY <1>1, <2>1, <3>1 DEF FeedAscends, Coming, Text
        <3>2. CASE job.at = "stored" /\ replies'[q][k].chat = job.chat /\ replies'[q][k].id = job.id
            BY <1>1, <2>1, <3>2 DEF ShownAreOut, Out
        <3> QED
            BY <1>1, <2>1, <3>1, <3>2, TextOrigin
    <2> QED
        BY <1>1, <1>2, <2>1 DEF FrameStays, FeedAscends
<1>3. CASE ShowsText(q)
    <2>1. /\ 1 \in DOMAIN replies[q] /\ Received(q) = replies[q][1]
          /\ Text(q, 1) /\ replies[q][1].chat = current[q]
          /\ \A k \in DOMAIN replies'[q] :
                k \in Nat /\ 1 < k + 1 /\ k + 1 \in DOMAIN replies[q]
                /\ replies'[q][k] = replies[q][k + 1]
        BY <1>1, <1>3, ReceivedIsFirst, QueueMovesUp DEF ShowsText, Receives, Text
    <2>2. PICK n \in Nat :
            /\ DOMAIN shown[q] = 1 .. n /\ DOMAIN shown'[q] = 1 .. n + 1
            /\ \A i \in 1 .. n : shown'[q][i] = shown[q][i]
            /\ shown'[q][n + 1].id = replies[q][1].id
        BY <1>3, <2>1 DEF ShowsText
    <2>3. \A i \in 1 .. n : shown[q][i].id < replies[q][1].id
        BY <1>1, <2>1, <2>2 DEF FeedAscends, Coming, Text
    <2>4. \A i, j \in 1 .. n : i < j => shown[q][i].id < shown[q][j].id
        BY <1>1, <2>2 DEF FeedAscends
    <2>5. ASSUME NEW i \in DOMAIN shown'[q], NEW j \in DOMAIN shown'[q], i < j
          PROVE  shown'[q][i].id < shown'[q][j].id
        <3>1. CASE j = n + 1
            BY <2>2, <2>3, <2>5, <3>1
        <3>2. CASE j # n + 1
            BY <2>2, <2>4, <2>5, <3>2
        <3> QED
            BY <3>1, <3>2
    <2>6. ASSUME NEW i \in DOMAIN shown'[q], NEW k \in DOMAIN replies'[q],
                 Text(q, k)', replies'[q][k].chat = current'[q]
          PROVE  shown'[q][i].id < replies'[q][k].id
        <3>1. /\ k + 1 \in DOMAIN replies[q] /\ 1 < k + 1 /\ replies'[q][k] = replies[q][k + 1]
              /\ Text(q, k + 1) /\ replies[q][k + 1].chat = current[q]
            BY <1>3, <2>1, <2>6 DEF ShowsText, Text
        <3>2. replies[q][1].id < replies[q][k + 1].id
            BY <1>1, <2>1, <3>1 DEF TextsAscend
        <3>3. ASSUME i \in DOMAIN shown[q] PROVE shown[q][i].id < replies[q][k + 1].id
            BY <1>1, <3>1, <3>3 DEF FeedAscends, Coming, Text
        <3> QED
            BY <2>2, <3>1, <3>2, <3>3
    <2> QED
        BY <2>5, <2>6
<1> QED
    BY <1>1, <1>2, <1>3, ShownAfterStep

LEMMA OrderInit == Init => OrderInv
<1> SUFFICES ASSUME Init PROVE OrderInv
    OBVIOUS
<1>1. TextsAscend /\ TextsAreOut /\ ShownAreOut /\ JobIsStored /\ FeedAscends
    BY DEF Init, WireInit, PaneInit, ServerInit, Idle, TextsAscend, TextsAreOut, ShownAreOut,
        JobIsStored, FeedAscends, Coming
<1> QED
    BY <1>1, InitTyped DEF OrderInv

LEMMA OrderStep ==
    ASSUME OrderInv, [Next]_vars
    PROVE  OrderInv'
BY StepTyped, TextsStayAscending, TextsStayOut, ShownStaysOut, JobStaysStored, FeedStaysAscending
   DEF OrderInv

\* The messages in a text frame, and behind them those on their way to it, are in
\* the order in which the server stored them, for any number of writers, windows,
\* reconnections, crashes and restarts: a message is numbered above all that were
\* sent, and what is under way is never overtaken.
THEOREM FeedsAscend == Spec => []FeedAscends
<1>1. OrderInv /\ [Next]_vars => OrderInv'
    BY OrderStep
<1>2. OrderInv => FeedAscends
    BY DEF OrderInv
<1> QED
    BY OrderInit, <1>1, <1>2, PTL DEF Spec

-----------------------------------------------------------------------------
(***************************************************************************)
(* What a text frame shows can be searched as RemoveMessage does.          *)
(***************************************************************************)
\* What one step of the search does with range, if index is what the others do.
Searched(index, ids, id, range) ==
    LET left   == range[1]
        right  == range[2]
        middle == (left + right) \div 2
    IN  IF left > right THEN 0 ELSE
        CASE id < ids[middle + 1] -> index[<<left, middle - 1>>]
          [] id > ids[middle + 1] -> index[<<middle + 1, right>>]
          [] id = ids[middle + 1] -> middle

IsSearch(index, ids, id) ==
    index = [range \in SearchRanges(ids) |-> Searched(index, ids, id, range)]

\* Where the search should end up: the place of id in range, or 0.
PlaceOf(ids, id, range) ==
    LET places == {k \in range[1] .. range[2] : ids[k + 1] = id}
    IN  IF places = {} THEN 0 ELSE CHOOSE k \in places : TRUE

\* index is right about the ranges that are shorter than n.
RightBelow(index, ids, id, n) ==
    \A l \in 0 .. Len(ids), r \in -1 .. Len(ids) - 1 :
        r - l < n => index[<<l, r>>] = PlaceOf(ids, id, <<l, r>>)

Ascending(ids) == \A i, j \in DOMAIN ids : i < j => ids[i] < ids[j]

LEMMA SearchIsDefined ==
    ASSUME NEW ids, NEW id, NEW f, IsSearch(f, ids, id)
    PROVE  \E index : IsSearch(index, ids, id) /\ RemovedIndex(ids, id) = index[<<0, Len(ids) - 1>>]
<1> DEFINE index == CHOOSE g : IsSearch(g, ids, id)
<1>1. IsSearch(index, ids, id)
    OBVIOUS
<1>2. RemovedIndex(ids, id) = index[<<0, Len(ids) - 1>>]
    BY DEF RemovedIndex, IsSearch, Searched
<1> QED
    BY <1>1, <1>2

\* A step finds id in the middle, or goes on with the part below or above it.
Halves(f, ids, id, left, right) ==
    \E m \in left .. right :
        /\ m \in Nat /\ m + 1 \in DOMAIN ids /\ ids[m + 1] \in Nat
        /\ m - 1 \in -1 .. Len(ids) - 1 /\ m + 1 \in 0 .. Len(ids)
        /\ id < ids[m + 1] => Searched(f, ids, id, <<left, right>>) = f[<<left, m - 1>>]
        /\ id > ids[m + 1] => Searched(f, ids, id, <<left, right>>) = f[<<m + 1, right>>]
        /\ id = ids[m + 1] => Searched(f, ids, id, <<left, right>>) = m

\* One step, for a range that is empty, and for one that is not.
LEMMA SearchEnds ==
    ASSUME NEW ids, NEW id, NEW f, NEW left, NEW right, left > right
    PROVE  Searched(f, ids, id, <<left, right>>) = 0
BY DEF Searched

LEMMA SearchHalves ==
    ASSUME NEW ids \in Seq(Nat), NEW id \in Nat, NEW f,
           NEW left \in 0 .. Len(ids), NEW right \in -1 .. Len(ids) - 1, left <= right
    PROVE  Halves(f, ids, id, left, right)
<1> DEFINE m == (left + right) \div 2
<1>1. m \in left .. right /\ Len(ids) \in Nat /\ DOMAIN ids = 1 .. Len(ids)
    BY LenProperties
<1>2. m + 1 \in DOMAIN ids /\ ids[m + 1] \in Nat
    BY <1>1, ElementOfSeq
<1>3. m \in Nat /\ m - 1 \in -1 .. Len(ids) - 1 /\ m + 1 \in 0 .. Len(ids)
    BY <1>1
<1>4. /\ id < ids[m + 1] => Searched(f, ids, id, <<left, right>>) = f[<<left, m - 1>>]
      /\ id > ids[m + 1] => Searched(f, ids, id, <<left, right>>) = f[<<m + 1, right>>]
      /\ id = ids[m + 1] => Searched(f, ids, id, <<left, right>>) = m
    BY <1>2 DEF Searched
<1> HIDE DEF m
<1> QED
    BY <1>1, <1>2, <1>3, <1>4 DEF Halves

LEMMA PlaceIs ==
    ASSUME NEW ids \in Seq(Nat), Ascending(ids), NEW id,
           NEW left \in 0 .. Len(ids), NEW right \in -1 .. Len(ids) - 1,
           NEW k \in left .. right, ids[k + 1] = id
    PROVE  PlaceOf(ids, id, <<left, right>>) = k
<1> DEFINE places == {j \in left .. right : ids[j + 1] = id}
<1>1. \A j \in places : j = k
    <2> SUFFICES ASSUME NEW j \in places, j # k PROVE FALSE
        OBVIOUS
    <2>1. DOMAIN ids = 1 .. Len(ids) /\ Len(ids) \in Nat
        BY LenProperties
    <2>2. j + 1 \in DOMAIN ids /\ k + 1 \in DOMAIN ids /\ ids[j + 1] = ids[k + 1]
        BY <2>1
    <2>3. ids[j + 1] \in Nat /\ ids[k + 1] \in Nat
        BY <2>1, <2>2, ElementOfSeq
    <2>4. j + 1 < k + 1 \/ k + 1 < j + 1
        BY <2>1
    <2> QED
        BY <2>2, <2>3, <2>4 DEF Ascending
<1>2. k \in places
    OBVIOUS
<1>3. PlaceOf(ids, id, <<left, right>>) = IF places = {} THEN 0 ELSE CHOOSE j \in places : TRUE
    BY DEF PlaceOf
<1> HIDE DEF places
<1>4. (CHOOSE j \in places : TRUE) \in places
    BY <1>2
<1> QED
    BY <1>1, <1>2, <1>3, <1>4

LEMMA PlaceIsNone ==
    ASSUME NEW ids, NEW id, NEW left, NEW right, \A k \in left .. right : ids[k + 1] # id
    PROVE  PlaceOf(ids, id, <<left, right>>) = 0
BY DEF PlaceOf

\* A step that goes on with a part of its range ends up where it should if the others do.
LEMMA SearchKeepsPlace ==
    ASSUME NEW ids \in Seq(Nat), Ascending(ids), NEW id \in Nat, NEW f,
           NEW left \in 0 .. Len(ids), NEW right \in -1 .. Len(ids) - 1,
           RightBelow(f, ids, id, right - left)
    PROVE  Searched(f, ids, id, <<left, right>>) = PlaceOf(ids, id, <<left, right>>)
<1>1. DOMAIN ids = 1 .. Len(ids) /\ Len(ids) \in Nat
    BY LenProperties
<1>2. left \in Nat /\ right \in Int
    BY <1>1
<1>3. ASSUME NEW i \in DOMAIN ids, NEW j \in DOMAIN ids, i < j PROVE ids[i] # ids[j]
    BY <1>3, ElementOfSeq DEF Ascending
<1>4. CASE left > right
    <2>1. \A k \in left .. right : ids[k + 1] # id
        BY <1>2, <1>4
    <2> QED
        BY <1>4, <2>1, SearchEnds, PlaceIsNone
<1>5. CASE left <= right
    <2>0. PICK found : found = Searched(f, ids, id, <<left, right>>)
        OBVIOUS
    <2>1. PICK m \in left .. right :
                /\ m \in Nat /\ m + 1 \in DOMAIN ids /\ ids[m + 1] \in Nat
                /\ m - 1 \in -1 .. Len(ids) - 1 /\ m + 1 \in 0 .. Len(ids)
                /\ id < ids[m + 1] => found = f[<<left, m - 1>>]
                /\ id > ids[m + 1] => found = f[<<m + 1, right>>]
                /\ id = ids[m + 1] => found = m
        <3>1. Halves(f, ids, id, left, right)
            BY <1>5, SearchHalves
        <3> QED
            BY <2>0, <3>1 DEF Halves
    <2>2. \A k \in left .. right : k \in Nat /\ k + 1 \in DOMAIN ids /\ ids[k + 1] \in Nat
        BY <1>1, <1>2, ElementOfSeq
    <2>3. CASE id = ids[m + 1]
        BY <2>0, <2>1, <2>3, PlaceIs
    <2>4. CASE id < ids[m + 1]
        <3>1. (m - 1) - left < right - left
            BY <1>2, <2>1
        <3>2. found = PlaceOf(ids, id, <<left, m - 1>>)
            BY <2>0, <2>1, <2>4, <3>1 DEF RightBelow
        <3>3. ASSUME NEW k \in left .. right, ids[k + 1] = id PROVE k \in left .. m - 1
            <4>1. k < m
                <5>1. CASE k = m
                    BY <2>1, <2>4, <3>3, <5>1
                <5>2. CASE m + 1 < k + 1
                    <6>1. ids[m + 1] < ids[k + 1]
                        BY <2>1, <2>2, <5>2 DEF Ascending
                    <6> QED
                        BY <2>1, <2>4, <3>3, <6>1
                <5> QED
                    BY <2>1, <2>2, <5>1, <5>2
            <4> QED
                BY <1>2, <2>1, <2>2, <4>1
        <3>4. \A k \in left .. m - 1 : k \in left .. right
            BY <1>2, <2>1
        <3>5. CASE \E k \in left .. right : ids[k + 1] = id
            <4>1. PICK k \in left .. right : ids[k + 1] = id
                BY <3>5
            <4>2. PlaceOf(ids, id, <<left, right>>) = k
                BY <4>1, PlaceIs
            <4>3. found = k
                BY <2>1, <3>2, <3>3, <4>1, PlaceIs
            <4> QED
                BY <2>0, <4>2, <4>3
        <3>6. CASE \A k \in left .. right : ids[k + 1] # id
            BY <2>0, <3>2, <3>4, <3>6, PlaceIsNone
        <3> QED
            BY <3>5, <3>6
    <2>5. CASE id > ids[m + 1]
        <3>1. right - (m + 1) < right - left
            BY <1>2, <2>1
        <3>2. found = PlaceOf(ids, id, <<m + 1, right>>)
            BY <2>0, <2>1, <2>5, <3>1 DEF RightBelow
        <3>3. ASSUME NEW k \in left .. right, ids[k + 1] = id PROVE k \in m + 1 .. right
            <4>1. k > m
                <5>1. CASE k = m
                    BY <2>1, <2>5, <3>3, <5>1
                <5>2. CASE k + 1 < m + 1
                    <6>1. ids[k + 1] < ids[m + 1]
                        BY <2>1, <2>2, <5>2 DEF Ascending
                    <6> QED
                        BY <2>1, <2>5, <3>3, <6>1
                <5> QED
                    BY <2>1, <2>2, <5>1, <5>2
            <4> QED
                <5>1. k \in Nat /\ m \in Nat /\ k <= right /\ k > m
                    BY <1>2, <2>1, <2>2, <4>1
                <5> QED
                    BY <1>2, <5>1
        <3>4. \A k \in m + 1 .. right : k \in left .. right
            BY <1>2, <2>1
        <3>5. CASE \E k \in left .. right : ids[k + 1] = id
            <4>1. PICK k \in left .. right : ids[k + 1] = id
                BY <3>5
            <4>2. PlaceOf(ids, id, <<left, right>>) = k
                BY <4>1, PlaceIs
            <4>3. found = k
                BY <2>1, <3>2, <3>3, <4>1, PlaceIs
            <4> QED
                BY <2>0, <4>2, <4>3
        <3>6. CASE \A k \in left .. right : ids[k + 1] # id
            BY <2>0, <3>2, <3>4, <3>6, PlaceIsNone
        <3> QED
            BY <3>5, <3>6
    <2> QED
        BY <2>1, <2>2, <2>3, <2>4, <2>5
<1> QED
    BY <1>2, <1>4, <1>5

\* There is such a search, ...
LEMMA SearchExists ==
    ASSUME NEW ids \in Seq(Nat), Ascending(ids), NEW id \in Nat
    PROVE  \E f : IsSearch(f, ids, id)
<1> DEFINE f == [range \in SearchRanges(ids) |-> PlaceOf(ids, id, range)]
<1>1. \A l \in 0 .. Len(ids), r \in -1 .. Len(ids) - 1 : f[<<l, r>>] = PlaceOf(ids, id, <<l, r>>)
    BY DEF SearchRanges
<1> HIDE DEF f
<1>2. ASSUME NEW range \in SearchRanges(ids)
      PROVE  PlaceOf(ids, id, range) = Searched(f, ids, id, range)
    <2>1. PICK l \in 0 .. Len(ids), r \in -1 .. Len(ids) - 1 : range = <<l, r>>
        BY DEF SearchRanges
    <2> QED
        BY <1>1, <2>1, SearchKeepsPlace DEF RightBelow
<1>3. f = [range \in SearchRanges(ids) |-> Searched(f, ids, id, range)]
    BY <1>2 DEF f
<1> QED
    BY <1>3 DEF IsSearch

\* ... and every one ends up where it should.
LEMMA SearchIsRight ==
    ASSUME NEW ids \in Seq(Nat), Ascending(ids), NEW id \in Nat, NEW f, IsSearch(f, ids, id)
    PROVE  \A l \in 0 .. Len(ids), r \in -1 .. Len(ids) - 1 : f[<<l, r>>] = PlaceOf(ids, id, <<l, r>>)
<1> DEFINE Right(l, r) == f[<<l, r>>] = PlaceOf(ids, id, <<l, r>>)
           R   == OpToRel(<, Nat)
           bad == {n \in Nat : \E l \in 0 .. Len(ids), r \in -1 .. Len(ids) - 1 :
                                    r - l < n /\ ~Right(l, r)}
<1> SUFFICES ASSUME NEW l0 \in 0 .. Len(ids), NEW r0 \in -1 .. Len(ids) - 1, ~Right(l0, r0)
             PROVE  FALSE
    OBVIOUS
<1>1. Len(ids) \in Nat
    BY LenProperties
<1> HIDE DEF Right
<1>2. Len(ids) + 1 \in bad
    BY <1>1
<1>3. IsWellFoundedOn(R, Nat)
    BY NatLessThanWellFounded
<1>4. \A x, y \in Nat : x < y => <<x, y>> \in R
    BY DEF OpToRel
<1>5. bad \subseteq Nat
    OBVIOUS
<1> HIDE DEF R, bad
<1>6. \E m \in bad : \A k \in bad : ~ (<<k, m>> \in R)
    BY <1>2, <1>3, <1>5, WFMin
<1>7. PICK m \in bad : \A k \in bad : ~ (k < m)
    BY <1>4, <1>5, <1>6
<1>8. PICK l \in 0 .. Len(ids), r \in -1 .. Len(ids) - 1 : r - l < m /\ ~Right(l, r)
    BY <1>7 DEF bad
<1>9. ASSUME NEW l1 \in 0 .. Len(ids), NEW r1 \in -1 .. Len(ids) - 1, r1 - l1 < r - l
      PROVE  Right(l1, r1)
    <2> SUFFICES ASSUME ~Right(l1, r1) PROVE FALSE
        OBVIOUS
    <2>1. CASE m = 0
        <3>1. 0 \in bad /\ r1 - l1 < 0
            BY <1>1, <1>7, <1>8, <1>9, <2>1
        <3>2. f[<<l1, r1>>] = Searched(f, ids, id, <<l1, r1>>)
            BY DEF IsSearch, SearchRanges
        <3>3. l1 > r1
            BY <3>1, <1>1
        <3> QED
            <4>1. \A k \in l1 .. r1 : ids[k + 1] # id
                BY <1>1, <3>3
            <4> QED
                BY <3>2, <3>3, <4>1, SearchEnds, PlaceIsNone DEF Right
    <2>2. CASE m # 0
        <3>1. m - 1 \in Nat /\ r1 - l1 < m - 1
            BY <1>1, <1>5, <1>7, <1>8, <1>9, <2>2
        <3>2. m - 1 \in bad
            BY <3>1 DEF bad
        <3> QED
            BY <1>5, <1>7, <3>1, <3>2
    <2> QED
        BY <2>1, <2>2
<1>10. Searched(f, ids, id, <<l, r>>) = PlaceOf(ids, id, <<l, r>>)
    BY <1>9, SearchKeepsPlace DEF Right, RightBelow
<1>11. f[<<l, r>>] = Searched(f, ids, id, <<l, r>>)
    BY DEF IsSearch, SearchRanges
<1> QED
    BY <1>8, <1>10, <1>11 DEF Right

\* RemoveMessage, for any frame whose ids ascend: the binary search gives the place of
\* the id it is asked for, and that of the first message if there is none.
THEOREM SearchFindsItem ==
    ASSUME NEW ids \in Seq(Nat), \A i, j \in DOMAIN ids : i < j => ids[i] < ids[j],
           NEW id \in Nat
    PROVE  /\ \A i \in DOMAIN ids : ids[i] = id => RemovedIndex(ids, id) = i - 1
           /\ (\A i \in DOMAIN ids : ids[i] # id) => RemovedIndex(ids, id) = 0
<1>1. Ascending(ids)
    BY DEF Ascending
<1>2. Len(ids) \in Nat /\ DOMAIN ids = 1 .. Len(ids)
    BY LenProperties
<1>3. RemovedIndex(ids, id) = PlaceOf(ids, id, <<0, Len(ids) - 1>>)
    <2>1. PICK f : IsSearch(f, ids, id)
        BY <1>1, SearchExists
    <2>2. PICK index : IsSearch(index, ids, id) /\ RemovedIndex(ids, id) = index[<<0, Len(ids) - 1>>]
        BY <2>1, SearchIsDefined
    <2>3. 0 \in 0 .. Len(ids) /\ Len(ids) - 1 \in -1 .. Len(ids) - 1
        BY <1>2
    <2> QED
        BY <1>1, <2>2, <2>3, SearchIsRight
<1>4. ASSUME NEW i \in DOMAIN ids, ids[i] = id PROVE RemovedIndex(ids, id) = i - 1
    <2>1. i - 1 \in 0 .. Len(ids) - 1 /\ ids[(i - 1) + 1] = id
        BY <1>2, <1>4
    <2>2. 0 \in 0 .. Len(ids) /\ Len(ids) - 1 \in -1 .. Len(ids) - 1
        BY <1>2
    <2> QED
        BY <1>1, <1>3, <2>1, <2>2, PlaceIs
<1>5. ASSUME \A i \in DOMAIN ids : ids[i] # id PROVE RemovedIndex(ids, id) = 0
    <2>1. \A k \in 0 .. Len(ids) - 1 : k + 1 \in DOMAIN ids
        BY <1>2
    <2> QED
        BY <1>3, <1>5, <2>1, PlaceIsNone
<1> QED
    BY <1>4, <1>5

\* Whatever has come to a text frame, through crashes, reconnections and changes of
\* chat, RemoveMessage takes out the very message it is asked for.
THEOREM RemovalIsExact == Spec => []RemoveFindsMessage
<1>1. OrderInv /\ [Next]_vars => OrderInv'
    BY OrderStep
<1>2. OrderInv => RemoveFindsMessage
    <2> SUFFICES ASSUME OrderInv, NEW p \in Clients
                 PROVE  LET ids == [i \in DOMAIN shown[p] |-> shown[p][i].id]
                        IN  \A i \in DOMAIN ids : RemovedIndex(ids, ids[i]) = i - 1
        BY DEF RemoveFindsMessage
    <2> DEFINE ids == [i \in DOMAIN shown[p] |-> shown[p][i].id]
    <2>1. shown[p] \in Seq(Messages)
        BY DEF OrderInv, TypeInv, TypeOK, PaneTypeOK
    <2>2. /\ DOMAIN shown[p] = 1 .. Len(shown[p]) /\ Len(shown[p]) \in Nat
          /\ \A i \in DOMAIN shown[p] : shown[p][i].id \in Nat
        <3>1. DOMAIN shown[p] = 1 .. Len(shown[p]) /\ Len(shown[p]) \in Nat
            BY <2>1, LenProperties
        <3>2. ASSUME NEW i \in DOMAIN shown[p] PROVE shown[p][i].id \in Nat
            <4>1. shown[p][i] \in Messages
                BY <2>1, ElementOfSeq
            <4> QED
                BY <4>1 DEF Messages
        <3> QED
            BY <3>1, <3>2
    <2>3. ids \in Seq(Nat)
        BY <2>2, SeqDef
    <2>4. \A i, j \in DOMAIN ids : i < j => ids[i] < ids[j]
        BY DEF OrderInv, FeedAscends
    <2>5. \A i \in DOMAIN ids : ids[i] \in Nat
        BY <2>2
    <2> HIDE DEF ids
    <2>6. \A i \in DOMAIN ids : RemovedIndex(ids, ids[i]) = i - 1
        BY <2>3, <2>4, <2>5, SearchFindsItem
    <2> QED
        BY <2>6 DEF ids
<1> QED
    BY OrderInit, <1>1, <1>2, PTL DEF Spec

-----------------------------------------------------------------------------
(***************************************************************************)
(* A text frame misses no message, as long as no process ends and nobody   *)
(* changes the user of a window.                                           *)
(***************************************************************************)
\* The messages of chat c under way to p, by their ids.
Under(p, c) ==
    {replies[p][k].id : k \in {j \in DOMAIN replies[p] : Text(p, j) /\ replies[p][j].chat = c}}

\* Message id of chat c is about to be sent.
Pending(c, id) == job.at = "stored" /\ job.chat = c /\ job.id = id

JobIsLast == job.at = "stored" => NextMessageId(job.chat) = job.id + 1

\* A frame with messages, shown or under way, is that of a connected member.
ReachesMembers ==
    \A p \in Clients :
        /\ \A k \in DOMAIN replies[p] : Text(p, k) => Admitted(p)
        /\ shown[p] # <<>> => Admitted(p) /\ IsIn(identity[p], current[p])

TextsComplete ==
    \A p \in Clients : \A k \in DOMAIN replies[p] : LET c == replies[p][k].chat IN
        Text(p, k) => \A id \in replies[p][k].id .. NextMessageId(c) - 1 :
                        id \in Under(p, c) \/ Pending(c, id)

CompleteInv ==
    /\ OrderInv /\ OwnInv /\ HeardInv /\ NobodyChanges /\ JobIsLast /\ DownIsHalted
    /\ Undisturbed => ReachesMembers /\ TextsComplete /\ FeedIsComplete

\* The message of the handler at work stays the last of its chat.
LEMMA NextIdGrows ==
    ASSUME TypeInv, TypeInv', NEW p \in Clients, HandleSendMessage(p),
           NEW c, c = Current(p).body.chat
    PROVE  /\ job'.id = NextMessageId(c) /\ NextMessageId(c) \in Nat
           /\ NextMessageId(c)' = job'.id + 1
<1> DEFINE n    == Len(messages)
           next == NextMessageId(c)
           last == LastOf(messages', c)
<1>1. /\ n \in Nat /\ DOMAIN messages = 1 .. n /\ DOMAIN messages' = 1 .. n + 1
      /\ \A i \in DOMAIN messages : messages'[i] = messages[i]
      /\ messages'[n + 1].chat = c /\ messages'[n + 1].id = next
      /\ job'.chat = c /\ job'.id = next
    BY RowStored
<1>2. next \in Nat
    BY <1>1, NextMessageIdTyped DEF TypeInv, TypeOK
<1>3. \A i \in DOMAIN messages' : messages'[i].id \in 1 .. i
    BY DEF TypeInv, IdsBounded
<1>4. n + 1 \in Nat
    BY <1>1
<1>5. /\ last \in Nat
      /\ last = 0 \/ \E i \in DOMAIN messages' : messages'[i].chat = c /\ messages'[i].id = last
      /\ \A i \in DOMAIN messages' : messages'[i].chat = c => messages'[i].id <= last
    BY <1>1, <1>3, <1>4, LastOfRows
<1>6. \A i \in DOMAIN messages : messages[i].chat = c => messages[i].id < next
    BY NextIdIsAbove
<1>7. NextMessageId(c)' = last + 1
    BY DEF NextMessageId, LastOf
<1> HIDE DEF next, last
<1>8. next <= last
    BY <1>1, <1>5
<1>9. ASSUME NEW i \in DOMAIN messages', messages'[i].chat = c, messages'[i].id = last
      PROVE  last <= next
    BY <1>1, <1>2, <1>5, <1>6, <1>9
<1>10. last = next
    BY <1>2, <1>5, <1>8, <1>9
<1> QED
    BY <1>1, <1>2, <1>7, <1>10 DEF next

LEMMA JobStaysLast ==
    ASSUME TypeInv, JobIsLast, [Next]_vars
    PROVE  JobIsLast'
<1> SUFFICES ASSUME job'.at = "stored" PROVE NextMessageId(job.chat)' = job'.id + 1
    BY DEF JobIsLast
<1>1. ASSUME NEW p \in Clients, HandleSendMessage(p)
      PROVE  NextMessageId(job.chat)' = job'.id + 1
    <2>1. PICK c : c = Current(p).body.chat
        OBVIOUS
    <2>2. job'.chat = c /\ NextMessageId(c)' = job'.id + 1
        BY <1>1, <2>1, StepTyped, RowStored, NextIdGrows
    <2> QED
        BY <2>2 DEF NextMessageId
<1>2. CASE UNCHANGED <<job, messages>>
    BY <1>2 DEF JobIsLast, NextMessageId
<1> QED
    BY <1>1, <1>2, StoredAfterStep, TableAfterStep

\* The rows of the other chats are not touched.
LEMMA NewIdIsPending ==
    ASSUME TypeInv, [Next]_vars, NEW c, NEW id \in Int,
           id < NextMessageId(c)', ~(id < NextMessageId(c))
    PROVE  Pending(c, id)'
<1>1. CASE UNCHANGED messages
    BY <1>1 DEF NextMessageId
<1>2. ASSUME NEW p \in Clients, HandleSendMessage(p) PROVE Pending(c, id)'
    <2> DEFINE n == Len(messages)
    <2>1. /\ n \in Nat /\ DOMAIN messages = 1 .. n /\ DOMAIN messages' = 1 .. n + 1
          /\ \A i \in DOMAIN messages : messages'[i] = messages[i]
          /\ messages'[n + 1].chat = Current(p).body.chat
          /\ job'.at = "stored" /\ job'.chat = Current(p).body.chat
        BY <1>2, RowStored
    <2>2. CASE c = Current(p).body.chat
        <3>1. /\ job'.id = NextMessageId(c) /\ NextMessageId(c) \in Nat
              /\ NextMessageId(c)' = job'.id + 1
            BY <1>2, <2>2, StepTyped, NextIdGrows
        <3>2. job'.id = id
            BY <3>1
        <3> QED
            BY <2>1, <2>2, <3>2 DEF Pending
    <2>3. CASE c # Current(p).body.chat
        <3>1. {messages'[i].id : i \in {j \in DOMAIN messages' : messages'[j].chat = c}}
                = {messages[i].id : i \in {j \in DOMAIN messages : messages[j].chat = c}}
            <4> HIDE DEF n
            <4>1. {j \in DOMAIN messages' : messages'[j].chat = c}
                    = {j \in DOMAIN messages : messages[j].chat = c}
                BY <2>1, <2>3
            <4> QED
                BY <2>1, <4>1
        <3> QED
            BY <3>1 DEF NextMessageId
    <2> QED
        BY <2>2, <2>3
<1> QED
    BY <1>1, <1>2, TableAfterStep

\* The handler that has stored a message sends it.
LEMMA StoredGoesOn ==
    ASSUME TypeInv, Calm, [Next]_vars, job.at = "stored"
    PROVE  UNCHANGED job \/ DispatchMessage
<1>1. \A p \in Clients : ~Reads(p)
    BY DEF Reads, Idle
<1>2. ASSUME NEW p \in Clients,
             \/ HandleConnection(p) \/ HandleRegister(p)
             \/ HandleAuthorize(p) \/ HandleLogout(p) \/ PrepareNewChatSession(p)
             \/ HandleResponseForInvite(p) \/ AcceptFails(p) \/ HandleClientChatsInfoRequest(p)
             \/ HandleClientNotifications(p) \/ RefuseMessage(p) \/ HandleSendMessage(p)
             \/ RefuseWithoutSession(p)
      PROVE  FALSE
    BY <1>1, <1>2 DEF RefuseWithoutSession, HandleConnection, HandleRegister, HandleAuthorize,
        HandleLogout, PrepareNewChatSession, HandleResponseForInvite, AcceptFails,
        HandleClientChatsInfoRequest, HandleClientNotifications, RefuseMessage,
        HandleSendMessage, Serves
<1>3. ~SetNotificationChecked /\ ~FinishNewChat /\ ~FinishNewChatFails
      /\ \A u \in Logins : ~AskClient(u)
    BY DEF SetNotificationChecked, FinishNewChat, FinishNewChatFails, AskClient
<1>4. CASE RunServer
    BY <1>2, <1>3, <1>4 DEF RunServer, ServerStep
<1>5. CASE ~RunServer
    BY <1>5 DEF Calm, Next, StartClient, QuitClient, OrphanCrash, EndClient, AcceptConnection,
        UseAccount, UsePane, UseBox, Receive, vars, serverVars
<1> QED
    BY <1>4, <1>5

\* A connected member gets what is sent.
LEMMA MemberGetsText ==
    ASSUME WireTypeOK, DispatchMessage, NEW q \in Clients, Admitted(q),
           NEW c, NEW id, Pending(c, id), IsIn(identity[q], c)
    PROVE  id \in Under(q, c)'
<1> DEFINE m == [kind |-> "IncomingMessage", author |-> job.author, chat |-> job.chat, id |-> job.id]
           n == Len(replies[q])
<1>1. peer[q] \in GetChatClients(job.chat)
    BY DEF Admitted, Pending, IsIn, GetChatClients
<1>2. replies'[q] = replies[q] \o <<m>>
    BY <1>1 DEF DispatchMessage, Dispatch
<1>3. m.kind = "IncomingMessage" /\ m.chat = c /\ m.id = id
    BY DEF Pending
<1> HIDE DEF m
<1>4. replies[q] \in Seq(Replies \cup {m}) /\ <<m>> \in Seq(Replies \cup {m})
    <2>1. replies[q] \in Seq(Replies)
        BY DEF WireTypeOK
    <2> QED
        BY <2>1, ElementOfSeq, SeqDef
<1>5. n + 1 \in DOMAIN replies'[q] /\ replies'[q][n + 1] = m
    BY <1>2, <1>4, ConcatProperties, LenProperties
<1> QED
    BY <1>3, <1>5 DEF Under, Text

\* Whoever has a login is told no other name.
LEMMA MembersKeepNames ==
    ASSUME CompleteInv, NEW q \in Clients, NEW c, IsIn(identity[q], c)
    PROVE  ~Receives(q, "NewClientName")
<1>1. WireTypeOK /\ ServerTypeOK /\ OnlyStartsAreNamed
    BY DEF CompleteInv, OwnInv, TypeInv, TypeOK, UserStays
<1>2. identity[q] \notin TempIds
    BY <1>1, InIsTyped
<1> QED
    BY <1>1, <1>2, ReceivedIsFirst DEF OnlyStartsAreNamed

\* q receives message id of chat c.
Gets(q, c, id) ==
    /\ ReceiveIncomingMessage(q) /\ replies[q] # <<>> /\ replies'[q] = Tail(replies[q])
    /\ Received(q).chat = c /\ Received(q).id = id

\* A message on its way to a member stays on its way until it is received.
LEMMA TextsArrive ==
    ASSUME CompleteInv, Calm, [Next]_vars, NEW q \in Clients, Admitted(q),
           NEW c, IsIn(identity[q], c), NEW id, id \in Under(q, c) \/ Pending(c, id)
    PROVE  id \in Under(q, c)' \/ Pending(c, id)' \/ Gets(q, c, id)
<1>1. TypeInv /\ WireTypeOK
    BY DEF CompleteInv, OwnInv, TypeInv, TypeOK
<1>2. QueueStays(q) \/ Receipt(q)
    BY <1>1, MembersKeepNames, CalmQueue DEF Renamed
<1>3. CASE id \in Under(q, c)
    <2>1. PICK k \in DOMAIN replies[q] :
            Text(q, k) /\ replies[q][k].chat = c /\ replies[q][k].id = id
        BY <1>3 DEF Under
    <2>2. CASE QueueStays(q)
        BY <2>1, <2>2 DEF QueueStays, Under, Text
    <2>3. CASE Receipt(q)
        <3>1. replies[q] \in Seq(Replies) /\ replies[q] # <<>> /\ replies'[q] = Tail(replies[q])
            BY <1>1, <2>3 DEF Receipt, WireTypeOK
        <3>2. CASE k = 1
            <4>1. Received(q) = replies[q][1]
                BY <3>1, HeadTailProperties DEF Received
            <4>2. ReceiveIncomingMessage(q)
                BY <2>1, <2>3, <3>2, <4>1 DEF Receipt, Receive, Text, Receives, Received,
                    ReceiveRegister, ReceiveAuthorize, ReceiveAlreadyAuthorized,
                    ReceiveNotAuthorized, ReceiveNewClientName, ReceiveNewChat,
                    ReceiveCreateChat, ReceiveNotifications, ReceiveClientChats
            <4> QED
                BY <2>1, <3>1, <3>2, <4>1, <4>2 DEF Gets
        <3>3. CASE k # 1
            <4>1. k - 1 \in DOMAIN replies'[q] /\ replies'[q][k - 1] = replies[q][k]
                BY <3>1, <3>3, HeadTailProperties, LenProperties
            <4> QED
                BY <2>1, <4>1 DEF Under, Text
        <3> QED
            BY <3>2, <3>3
    <2> QED
        BY <1>2, <2>2, <2>3
<1>4. CASE Pending(c, id)
    <2>1. CASE UNCHANGED job
        BY <1>4, <2>1 DEF Pending
    <2>2. CASE DispatchMessage
        BY <1>1, <1>4, <2>2, MemberGetsText
    <2> QED
        BY <1>1, <1>4, <2>1, <2>2, StoredGoesOn DEF Pending
<1> QED
    BY <1>3, <1>4

\* A text under way after a step goes to a connected member.
LEMMA TextsStayInReach ==
    ASSUME CompleteInv, Calm, [Next]_vars, NEW q \in Clients,
           NEW k \in DOMAIN replies'[q], Text(q, k)'
    PROVE  Admitted(q) /\ IsIn(identity[q], replies'[q][k].chat)
<1>1. TypeInv /\ KnownByIdentity /\ HeardByMembers /\ ReachesMembers /\ ServerTypeOK
    BY DEF CompleteInv, OwnInv, HeardInv, Calm, TypeInv, TypeOK
<1>2. ASSUME NEW j \in DOMAIN replies[q], replies'[q][k] = replies[q][j]
      PROVE  Admitted(q) /\ IsIn(identity[q], replies'[q][k].chat)
    BY <1>1, <1>2 DEF ReachesMembers, HeardByMembers, Text, IsIn
<1>3. CASE ~Was(replies'[q][k], q)
    <2>1. peer[q] \in GetChatClients(job.chat) /\ replies'[q][k].chat = job.chat
        BY <1>1, <1>3, MessageFlow DEF JustSent, TellingKinds, Text
    <2>2. PICK m \in userChats : m.chat = job.chat /\ m.user = peer[q]
        BY <2>1 DEF GetChatClients
    <2>3. m \in Memberships
        BY <1>1, <2>2 DEF ServerTypeOK
    <2>4. IsIn(peer[q], job.chat)
        BY <2>2, <2>3 DEF Memberships, IsIn
    <2>5. peer[q] = identity[q] /\ peer[q] # NoId
        BY <1>1, <2>4, InIsTyped DEF KnownByIdentity
    <2> QED
        BY <2>1, <2>4, <2>5 DEF Admitted, Running
<1> QED
    BY <1>2, <1>3 DEF Was

LEMMA ReachStays ==
    ASSUME CompleteInv, Calm, [Next]_vars
    PROVE  ReachesMembers'
<1>1. TypeInv /\ WireTypeOK /\ ReachesMembers /\ HeardByMembers
    BY DEF CompleteInv, OwnInv, HeardInv, Calm, TypeInv, TypeOK
<1>2. ASSUME NEW q \in Clients, NEW c, Admitted(q), IsIn(identity[q], c)
      PROVE  Admitted(q)' /\ identity'[q] = identity[q] /\ IsIn(identity[q], c)'
    <2>1. Admitted(q)' /\ identity'[q] = identity[q]
        BY <1>1, <1>2, MembersKeepNames, CalmQueue DEF Renamed
    <2> QED
        BY <1>2, <2>1, MembersStay DEF IsIn
<1>3. ASSUME NEW q \in Clients, NEW k \in DOMAIN replies'[q], Text(q, k)'
      PROVE  Admitted(q)'
    BY <1>2, <1>3, TextsStayInReach
<1>4. ASSUME NEW q \in Clients, shown'[q] # <<>>
      PROVE  Admitted(q)' /\ IsIn(identity[q], current[q])'
    <2>1. CASE FrameStays(q)
        <3>1. Admitted(q) /\ IsIn(identity[q], current[q])
            BY <1>1, <1>4, <2>1 DEF ReachesMembers, FrameStays
        <3>2. PICK c : c = current[q]
            OBVIOUS
        <3> QED
            BY <1>2, <2>1, <3>1, <3>2 DEF FrameStays, IsIn
    <2>2. CASE ShowsText(q)
        <3>1. Admitted(q) /\ IsIn(identity[q], current[q])
            BY <1>1, <2>2, ReceivedIsFirst DEF ShowsText, ReachesMembers, HeardByMembers, Text, IsIn
        <3>2. PICK c : c = current[q]
            OBVIOUS
        <3> QED
            BY <1>2, <2>2, <3>1, <3>2 DEF ShowsText, IsIn
    <2> QED
        BY <1>1, <1>4, <2>1, <2>2, ShownAfterStep
<1> QED
    BY <1>3, <1>4 DEF ReachesMembers

LEMMA NextIdIsNumber ==
    ASSUME TypeInv, TypeInv', NEW c
    PROVE  NextMessageId(c) \in Nat /\ NextMessageId(c)' \in Nat
<1>1. /\ DOMAIN messages = 1 .. Len(messages) /\ Len(messages) \in Nat
      /\ DOMAIN messages' = 1 .. Len(messages') /\ Len(messages') \in Nat
      /\ \A i \in DOMAIN messages : messages[i].id \in 1 .. i
      /\ \A i \in DOMAIN messages' : messages'[i].id \in 1 .. i
    BY LenProperties DEF TypeInv, TypeOK, ServerTypeOK, IdsBounded
<1>2. LastOf(messages, c) \in Nat /\ LastOf(messages', c) \in Nat
    BY <1>1, LastOfRows
<1>3. NextMessageId(c) = LastOf(messages, c) + 1 /\ NextMessageId(c)' = LastOf(messages', c) + 1
    BY DEF NextMessageId, LastOf
<1> QED
    BY <1>2, <1>3

LEMMA TextsStayComplete ==
    ASSUME CompleteInv, Calm, [Next]_vars
    PROVE  TextsComplete'
<1>1. /\ TypeInv /\ WireTypeOK /\ TextsComplete /\ TextsAscend /\ JobIsLast
      /\ TypeInv' /\ replies' \in [Clients -> Seq(Replies)]
    BY StepTyped DEF CompleteInv, OwnInv, OrderInv, Calm, TypeInv, TypeOK, WireTypeOK
<1> SUFFICES ASSUME NEW q \in Clients, NEW k \in DOMAIN replies'[q], Text(q, k)',
                    NEW c, c = replies'[q][k].chat,
                    NEW id \in replies'[q][k].id .. NextMessageId(c)' - 1
             PROVE  id \in Under(q, c)' \/ Pending(c, id)'
    BY DEF TextsComplete, Pending, Under, NextMessageId
<1> DEFINE first == replies'[q][k].id
<1>2. first \in Nat /\ NextMessageId(c) \in Nat /\ NextMessageId(c)' \in Nat
    <2>1. replies'[q][k] \in Replies
        BY <1>1, ElementOfSeq, LenProperties
    <2>2. first \in Nat
        BY <2>1, ReplyFields DEF Text
    <2> QED
        BY <1>1, <2>2, NextIdIsNumber
<1>3. id \in Nat /\ first <= id /\ id < NextMessageId(c)' /\ first \in Under(q, c)'
    BY <1>2 DEF Under
<1>4. CASE DispatchMessage /\ job.at = "stored" /\ c = job.chat /\ first = job.id
    <2>1. NextMessageId(c)' = job.id + 1
        BY <1>1, <1>4 DEF JobIsLast, DispatchMessage, tableVars, NextMessageId
    <2>2. id = first
        BY <1>2, <1>3, <1>4, <2>1
    <2> QED
        BY <1>3, <2>2
<1>5. ASSUME NEW j \in DOMAIN replies[q], replies'[q][k] = replies[q][j]
      PROVE  id \in Under(q, c)' \/ Pending(c, id)'
    <2>1. CASE id < NextMessageId(c)
        <3>1. Text(q, j) /\ replies[q][j].chat = c /\ replies[q][j].id = first
            BY <1>5 DEF Text
        <3>2. id \in first .. NextMessageId(c) - 1
            BY <1>2, <1>3, <2>1
        <3>3. id \in Under(q, c) \/ Pending(c, id)
            BY <1>1, <3>1, <3>2 DEF TextsComplete
        <3>4. Admitted(q) /\ IsIn(identity[q], c)
            BY TextsStayInReach
        <3>5. ~Gets(q, c, id)
            <4> SUFFICES ASSUME Gets(q, c, id) PROVE FALSE
                OBVIOUS
            <4>1. /\ 1 \in DOMAIN replies[q] /\ Received(q) = replies[q][1]
                  /\ k \in Nat /\ 1 < k + 1 /\ k + 1 \in DOMAIN replies[q]
                  /\ replies'[q][k] = replies[q][k + 1]
                BY <1>1, QueueMovesUp DEF Gets
            <4>2. Text(q, 1) /\ Text(q, k + 1) /\ replies[q][1].chat = replies[q][k + 1].chat
                BY <4>1 DEF Gets, ReceiveIncomingMessage, Receives, Received, Text
            <4>3. replies[q][1].id < replies[q][k + 1].id
                BY <1>1, <4>1, <4>2 DEF TextsAscend
            <4> QED
                BY <1>2, <1>3, <4>1, <4>3 DEF Gets
        <3> QED
            BY <3>3, <3>4, <3>5, TextsArrive
    <2>2. CASE ~(id < NextMessageId(c))
        BY <1>1, <1>3, <2>2, NewIdIsPending
    <2> QED
        BY <2>1, <2>2
<1> QED
    BY <1>1, <1>4, <1>5, TextOrigin

LEMMA FeedStaysComplete ==
    ASSUME CompleteInv, Calm, [Next]_vars
    PROVE  FeedIsComplete'
<1>1. /\ TypeInv /\ TypeInv' /\ WireTypeOK /\ FeedIsComplete /\ Undisturbed /\ ReachesMembers
      /\ HeardByMembers /\ TextsComplete' /\ shown' \in [Clients -> Seq(Messages)]
    BY StepTyped, TextsStayComplete
       DEF CompleteInv, OwnInv, HeardInv, Calm, TypeInv, TypeOK, WireTypeOK, PaneTypeOK
<1> SUFFICES ASSUME NEW q \in Clients, NEW c, c = current'[q], NEW first \in Feed(q)',
                    NEW id \in first .. NextMessageId(c)' - 1
             PROVE  id \in Feed(q)' \/ Pending(c, id)'
    BY DEF FeedIsComplete, Pending, NextMessageId
<1>2. Under(q, c)' \subseteq Feed(q)'
    BY DEF Under, Feed, Coming, Text
<1>3. ASSUME NEW k \in Coming(q)', first = replies'[q][k].id
      PROVE  id \in Feed(q)' \/ Pending(c, id)'
    <2>1. k \in DOMAIN replies'[q] /\ Text(q, k)' /\ replies'[q][k].chat = c
        BY <1>3 DEF Coming, Text
    <2>2. id \in Under(q, c)' \/ Pending(c, id)'
        BY <1>1, <1>3, <2>1 DEF TextsComplete, Under, Pending, NextMessageId
    <2> QED
        BY <1>2, <2>2
<1>4. ASSUME NEW i \in DOMAIN shown'[q], first = shown'[q][i].id
      PROVE  id \in Feed(q)' \/ Pending(c, id)'
    <2>1. first \in Nat /\ NextMessageId(c) \in Nat /\ NextMessageId(c)' \in Nat
        <3>1. shown'[q][i] \in Messages
            BY <1>1, ElementOfSeq, LenProperties
        <3> QED
            BY <1>1, <1>4, <3>1, NextIdIsNumber DEF Messages
    <2>2. id \in Nat /\ first <= id /\ id < NextMessageId(c)'
        BY <2>1
    <2>3. FrameStays(q) \/ ShowsText(q)
        BY <1>1, <1>4, ShownAfterStep
    <2>4. current[q] = c /\ {shown[q][j].id : j \in DOMAIN shown[q]} \subseteq Feed(q)'
        BY <2>3 DEF FrameStays, ShowsText, Feed
    <2>5. Admitted(q) /\ IsIn(identity[q], c) /\ first \in Feed(q)
        <3>1. CASE FrameStays(q)
            BY <1>1, <1>4, <2>4, <3>1 DEF FrameStays, ReachesMembers, Feed
        <3>2. CASE ShowsText(q)
            <4>1. 1 \in DOMAIN replies[q] /\ Received(q) = replies[q][1] /\ Text(q, 1)
                BY <1>1, <3>2, ReceivedIsFirst DEF ShowsText, Text
            <4>2. 1 \in Coming(q)
                BY <3>2, <4>1 DEF ShowsText, Coming, Text
            <4>3. first \in Feed(q)
                BY <1>4, <3>2, <4>1, <4>2 DEF ShowsText, Feed
            <4> QED
                BY <1>1, <2>4, <3>2, <4>1, <4>3
                   DEF ShowsText, ReachesMembers, HeardByMembers, Text, IsIn
        <3> QED
            BY <2>3, <3>1, <3>2
    <2>6. CASE id < NextMessageId(c)
        <3>1. id \in first .. NextMessageId(c) - 1
            BY <2>1, <2>2, <2>6
        <3>2. id \in Feed(q) \/ Pending(c, id)
            BY <1>1, <2>4, <2>5, <3>1 DEF FeedIsComplete, Pending
        <3>3. \/ id \in {shown[q][j].id : j \in DOMAIN shown[q]}
              \/ id \in Under(q, c)
              \/ Pending(c, id)
            BY <2>4, <3>2 DEF Feed, Coming, Under, Text
        <3>4. ASSUME Gets(q, c, id) PROVE id \in Feed(q)'
            <4>1. ShowsText(q)
                BY <1>1, <2>4, <3>4, TextShown DEF Gets
            <4> QED
                BY <3>4, <4>1 DEF Gets, ShowsText, Feed
        <3> QED
            BY <1>2, <2>4, <2>5, <3>3, <3>4, TextsArrive
    <2>7. CASE ~(id < NextMessageId(c))
        BY <1>1, <2>2, <2>7, NewIdIsPending
    <2> QED
        BY <2>6, <2>7
<1> QED
    BY <1>3, <1>4 DEF Feed

LEMMA CompleteStep ==
    ASSUME CompleteInv, ~MembershipKey, [Next]_vars, NobodyChanges'
    PROVE  CompleteInv'
<1>1. TypeInv /\ OwnInv /\ OrderInv /\ HeardInv /\ NobodyChanges /\ JobIsLast /\ DownIsHalted
    BY DEF CompleteInv, OwnInv
<1>2. OwnInv' /\ OrderInv' /\ HeardInv' /\ NobodyChanges' /\ JobIsLast' /\ DownIsHalted'
    BY <1>1, OwnStep, OrderStep, HeardStep, JobStaysLast, DownStaysHalted
<1>3. ASSUME Undisturbed' PROVE ReachesMembers' /\ TextsComplete' /\ FeedIsComplete'
    <2>1. Calm
        BY <1>1, <1>3, CalmStep
    <2> QED
        BY <2>1, ReachStays, TextsStayComplete, FeedStaysComplete
<1> QED
    BY <1>2, <1>3 DEF CompleteInv

\* From the first message it gets on, a text frame misses none, for any number of
\* writers and windows, as long as no process ends (the table user_chats has no
\* unique key that could end the server) and nobody changes the user of a window.
THEOREM FeedsAreComplete ==
    ASSUME MembershipKey = FALSE
    PROVE  Spec => [](NobodyChanges => FeedIsComplete)
<1> DEFINE Inv == TypeInv /\ (NobodyChanges => CompleteInv)
<1>1. Init => CompleteInv
    <2> SUFFICES ASSUME Init PROVE CompleteInv
        OBVIOUS
    <2>1. NobodyChanges /\ JobIsLast /\ DownIsHalted
        BY DEF Init, ServerInit, Idle, NobodyChanges, JobIsLast, DownIsHalted, Kinds
    <2>2. ReachesMembers /\ TextsComplete /\ FeedIsComplete
        BY DEF Init, WireInit, PaneInit, ReachesMembers, TextsComplete, FeedIsComplete,
            Feed, Coming
    <2>3. HeardInv
        BY InitTyped DEF Init, WireInit, KnownByIdentity, HeardByMembers, HeardInv
    <2> QED
        BY <2>1, <2>2, <2>3, OwnInit, OrderInit DEF CompleteInv
<1>2. Inv /\ [Next]_vars => Inv'
    <2>1. ~MembershipKey
        OBVIOUS
    <2> QED
        BY <2>1, StepTyped, NobodyChanged, CompleteStep
<1>3. Inv => (NobodyChanges => FeedIsComplete)
    BY DEF CompleteInv, FeedIsComplete
<1>4. Init => Inv
    BY <1>1, InitTyped
<1> QED
    BY <1>2, <1>3, <1>4, PTL DEF Spec
=============================================================================
