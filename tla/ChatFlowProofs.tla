--------------------------- MODULE ChatFlowProofs ---------------------------
(***************************************************************************)
(* What a step can do to the requests and the messages under way: those    *)
(* there were, and the few that an action adds.  The invariants about      *)
(* what is under way rest on these lemmas.                                 *)
(***************************************************************************)
EXTENDS ChatTypeProofs

AnswerKinds == {"AcceptCreateChat", "DeclineCreateChat"}

\* Request r was under way from p already, sent or not.
Kept(r, p) ==
    \E j \in DOMAIN requests[p] : r.from = requests[p][j].from /\ r.body = requests[p][j].body

NoNewRequests ==
    \A q \in Clients : \A k \in DOMAIN requests'[q] : Kept(requests'[q][k], q)

\* Message m was under way to p already.
Was(m, p) == \E j \in DOMAIN replies[p] : m = replies[p][j]

\* Message k to p was there before, d places further back.
Shifted(p, k, d) == k + d \in DOMAIN replies[p] /\ replies'[p][k] = replies[p][k + d]

NoNewReplies ==
    \A q \in Clients : \E d \in {0, 1} : \A k \in DOMAIN replies'[q] : Shifted(q, k, d)

-----------------------------------------------------------------------------
(***************************************************************************)
(* The sockets.                                                            *)
(***************************************************************************)
LEMMA SameRequests ==
    ASSUME UNCHANGED requests
    PROVE  NoNewRequests
BY DEF NoNewRequests, Kept

\* A queue of which a first part is left holds what it held, in its places.
LEMMA SamePlaces ==
    ASSUME WireTypeOK, NEW q \in Clients, NEW k \in DOMAIN replies'[q],
           k \in DOMAIN replies[q], replies'[q][k] = replies[q][k]
    PROVE  Shifted(q, k, 0)
<1>1. k \in Nat
    BY LenProperties DEF WireTypeOK
<1> QED
    BY <1>1 DEF Shifted

LEMMA SameReplies ==
    ASSUME WireTypeOK, UNCHANGED replies
    PROVE  NoNewReplies
BY SamePlaces DEF NoNewReplies

LEMMA PostFlow ==
    ASSUME WireTypeOK, NEW p \in Clients, NEW s \in Nat, NEW b \in RequestBodies,
           Running(p), Post(p, s, b)
    PROVE  \A q \in Clients : \A k \in DOMAIN requests'[q] :
              \/ Kept(requests'[q][k], q)
              \/ q = p /\ requests'[q][k].from = identity[p] /\ requests'[q][k].body = b
<1> DEFINE r == [from |-> identity[p], session |-> s, sent |-> FALSE, body |-> b]
<1> SUFFICES ASSUME NEW q \in Clients, NEW k \in DOMAIN requests'[q]
             PROVE  \/ Kept(requests'[q][k], q)
                    \/ q = p /\ requests'[q][k].from = identity[p] /\ requests'[q][k].body = b
    OBVIOUS
<1>1. CASE q # p
    <2>1. requests'[q] = requests[q]
        BY <1>1 DEF Post, WireTypeOK
    <2> QED
        BY <2>1 DEF Kept
<1>2. CASE q = p
    <2>1. r \in Requests /\ requests[p] \in Seq(Requests)
        BY DEF WireTypeOK, Running, Requests
    <2>2. requests'[p] = Append(requests[p], r)
        BY DEF Post, WireTypeOK
    <2>3. /\ Len(requests[p]) \in Nat /\ DOMAIN requests[p] = 1 .. Len(requests[p])
          /\ DOMAIN requests'[p] = 1 .. Len(requests[p]) + 1
          /\ \A i \in 1 .. Len(requests[p]) : requests'[p][i] = requests[p][i]
          /\ requests'[p][Len(requests[p]) + 1] = r
        BY <2>1, <2>2, AppendProperties, LenProperties
    <2>4. CASE k \in 1 .. Len(requests[p])
        BY <1>2, <2>3, <2>4 DEF Kept
    <2>5. CASE k = Len(requests[p]) + 1
        BY <1>2, <2>3, <2>5
    <2> QED
        BY <1>2, <2>3, <2>4, <2>5
<1> QED
    BY <1>1, <1>2

\* The tail of a queue holds what the queue holds.
LEMMA TailElements ==
    ASSUME NEW S, NEW q \in Seq(S), q # <<>>, NEW k \in DOMAIN Tail(q)
    PROVE  k + 1 \in DOMAIN q /\ Tail(q)[k] = q[k + 1]
BY HeadTailProperties, LenProperties, TailIsSubSeq, SubSeqProperties

LEMMA TakeFlow ==
    ASSUME WireTypeOK, NEW p \in Clients, Reads(p), Take(p)
    PROVE  NoNewRequests
<1> SUFFICES ASSUME NEW q \in Clients, NEW k \in DOMAIN requests'[q]
             PROVE  Kept(requests'[q][k], q)
    BY DEF NoNewRequests
<1>1. requests[p] # <<>> /\ requests[p] \in Seq(Requests)
    BY DEF Reads, Readable, WireTypeOK
<1>2. requests'[q] = IF q = p THEN Tail(requests[p]) ELSE requests[q]
    BY DEF Take, Taken, WireTypeOK
<1>3. CASE q = p
    BY <1>1, <1>2, <1>3, TailElements DEF Kept
<1>4. CASE q # p
    BY <1>2, <1>4 DEF Kept
<1> QED
    BY <1>3, <1>4

LEMMA ReconnectFlow ==
    ASSUME WireTypeOK, NEW p \in Clients, NEW id, Reconnect(p, id)
    PROVE  NoNewRequests /\ NoNewReplies
<1>1. ASSUME NEW q \in Clients, NEW k \in DOMAIN requests'[q]
      PROVE  Kept(requests'[q][k], q)
    <2>1. PICK left \in Transmitted(p) : requests' = [requests EXCEPT ![p] = left]
        BY DEF Reconnect
    <2>2. CASE q # p
        BY <2>1, <2>2 DEF Kept, WireTypeOK
    <2>3. CASE q = p
        <3> DEFINE r == requests[p]
        <3>1. r \in Seq(Requests) /\ Len(r) \in Nat /\ DOMAIN r = 1 .. Len(r)
            BY LenProperties DEF WireTypeOK
        <3>2. Stale(p) \in 0 .. Len(r)
            BY StaleTyped
        <3>3. PICK n \in 0 .. Len(r) : left = [i \in 1 .. n |-> [r[i] EXCEPT !.sent = TRUE]]
            BY <2>1, <3>1, <3>2 DEF Transmitted
        <3>4. requests'[q] = left
            BY <2>1, <2>3 DEF WireTypeOK
        <3>5. k \in 1 .. n /\ k \in DOMAIN r
            BY <3>1, <3>3, <3>4
        <3>6. requests'[q][k] = [r[k] EXCEPT !.sent = TRUE] /\ r[k] \in Requests
            BY <3>1, <3>3, <3>4, <3>5, ElementOfSeq
        <3> QED
            BY <2>3, <3>5, <3>6 DEF Kept, Requests
    <2> QED
        BY <2>2, <2>3
<1>2. ASSUME NEW q \in Clients, NEW k \in DOMAIN replies'[q]
      PROVE  Shifted(q, k, 0)
    BY <1>2, SamePlaces DEF Reconnect, WireTypeOK
<1> QED
    BY <1>1, <1>2 DEF NoNewRequests, NoNewReplies

LEMMA BreakFlow ==
    ASSUME WireTypeOK, NEW unread \in [Clients -> Seq(Requests)], BreakConnections(unread),
           \A q \in Clients : \A k \in DOMAIN unread[q] : Kept(unread[q][k], q)
    PROVE  NoNewRequests /\ NoNewReplies
<1>1. ASSUME NEW q \in Clients, NEW k \in DOMAIN requests'[q]
      PROVE  Kept(requests'[q][k], q)
    <2> DEFINE r == unread[q]
    <2>1. r \in Seq(Requests) /\ Len(r) \in Nat /\ DOMAIN r = 1 .. Len(r)
        BY LenProperties
    <2>2. PICK n \in 1 .. Len(r) + 1 : requests'[q] = SubSeq(r, n, Len(r))
        BY DEF BreakConnections, Resendable
    <2>3. k \in 1 .. Len(r) - n + 1 /\ requests'[q][k] = r[n + k - 1]
        BY <2>1, <2>2, SuffixElements
    <2>4. n + k - 1 \in DOMAIN r
        BY <2>1, <2>3
    <2> QED
        BY <2>3, <2>4
<1>2. ASSUME NEW q \in Clients, NEW k \in DOMAIN replies'[q]
      PROVE  Shifted(q, k, 0)
    <2> DEFINE r == replies[q]
    <2>1. r \in Seq(Replies) /\ Len(r) \in Nat /\ DOMAIN r = 1 .. Len(r)
        BY LenProperties DEF WireTypeOK
    <2>2. PICK n \in 0 .. Len(r) : replies'[q] = SubSeq(r, 1, n)
        BY DEF BreakConnections, Arrived
    <2>3. k \in 1 .. n /\ replies'[q][k] = r[k]
        BY <2>1, <2>2, PrefixElements
    <2> QED
        BY <2>1, <2>3, SamePlaces
<1> QED
    BY <1>1, <1>2 DEF NoNewRequests, NoNewReplies

LEMMA DispatchFlow ==
    ASSUME WireTypeOK, NEW ids, NEW ms \in Seq(Replies), Dispatch(ids, ms)
    PROVE  \A q \in Clients : \A k \in DOMAIN replies'[q] :
              \/ Shifted(q, k, 0)
              \/ /\ k > Len(replies[q]) /\ peer[q] \in ids
                 /\ \E j \in DOMAIN ms : replies'[q][k] = ms[j]
<1> SUFFICES ASSUME NEW q \in Clients, NEW k \in DOMAIN replies'[q]
             PROVE  \/ Shifted(q, k, 0)
                    \/ /\ k > Len(replies[q]) /\ peer[q] \in ids
                       /\ \E j \in DOMAIN ms : replies'[q][k] = ms[j]
    OBVIOUS
<1>1. CASE peer[q] \notin ids
    BY <1>1, SamePlaces DEF Dispatch
<1>2. CASE peer[q] \in ids
    <2>1. replies[q] \in Seq(Replies) /\ replies'[q] = replies[q] \o ms
        BY <1>2 DEF Dispatch, WireTypeOK
    <2>2. /\ Len(replies[q]) \in Nat /\ DOMAIN replies[q] = 1 .. Len(replies[q])
          /\ Len(ms) \in Nat /\ DOMAIN ms = 1 .. Len(ms)
          /\ DOMAIN replies'[q] = 1 .. Len(replies[q]) + Len(ms)
          /\ \A i \in 1 .. Len(replies[q]) + Len(ms) : replies'[q][i] =
                IF i <= Len(replies[q]) THEN replies[q][i] ELSE ms[i - Len(replies[q])]
        BY <2>1, ConcatProperties, LenProperties
    <2>3. CASE k <= Len(replies[q])
        <3>1. k \in DOMAIN replies[q] /\ replies'[q][k] = replies[q][k]
            BY <2>2, <2>3
        <3> QED
            BY <3>1, SamePlaces
    <2>4. CASE k > Len(replies[q])
        <3>1. k - Len(replies[q]) \in DOMAIN ms /\ replies'[q][k] = ms[k - Len(replies[q])]
            BY <2>2, <2>4
        <3> QED
            BY <1>2, <2>4, <3>1
    <2> QED
        BY <2>2, <2>3, <2>4
<1> QED
    BY <1>1, <1>2

LEMMA ConsumeFlow ==
    ASSUME WireTypeOK, NEW p \in Clients, NEW kind, Receives(p, kind), Consume(p)
    PROVE  NoNewRequests /\ NoNewReplies
<1>1. ASSUME NEW q \in Clients, NEW k \in DOMAIN replies'[q]
      PROVE  IF q = p THEN Shifted(q, k, 1) ELSE Shifted(q, k, 0)
    <2>1. replies[p] # <<>> /\ replies[p] \in Seq(Replies)
        BY DEF Receives, WireTypeOK
    <2>2. replies'[q] = IF q = p THEN Tail(replies[p]) ELSE replies[q]
        BY DEF Consume, WireTypeOK
    <2>3. CASE q = p
        BY <2>1, <2>2, <2>3, TailElements DEF Shifted
    <2>4. CASE q # p
        BY <1>1, <2>2, <2>4, SamePlaces
    <2> QED
        BY <2>3, <2>4
<1> QED
    BY <1>1, SameRequests DEF NoNewReplies, Consume

-----------------------------------------------------------------------------
(***************************************************************************)
(* Requests.  Nothing but the box puts an answer on its way.               *)
(***************************************************************************)
\* Request r of q has just been made by a button of a window of the box.
MadeByBox(r, q) ==
    \E i \in DOMAIN notices[q], accept \in BOOLEAN :
        /\ AnswerInvite(q, i, accept)
        /\ r.from = identity[q] /\ r.from \in Ids
        /\ r.body = [kind |-> IF accept THEN "AcceptCreateChat" ELSE "DeclineCreateChat",
                     nid  |-> notices[q][i].nid, chat |-> notices[q][i].chat]

AnswersMadeByBox ==
    \A q \in Clients : \A k \in DOMAIN requests'[q] :
        \/ Kept(requests'[q][k], q)
        \/ requests'[q][k].body.kind \notin AnswerKinds
        \/ MadeByBox(requests'[q][k], q)

LEMMA SendFlow ==
    ASSUME WireTypeOK, ClientTypeOK, NEW p \in Clients, NEW b \in RequestBodies,
           SendRequest(p, b), b.kind \notin AnswerKinds
    PROVE  AnswersMadeByBox
<1>1. Running(p) /\ config[p].session \in Nat /\ Post(p, config[p].session, b)
    BY DEF SendRequest, ClientTypeOK
<1> QED
    BY <1>1, PostFlow DEF AnswersMadeByBox

LEMMA AccountBodies ==
    ASSUME NEW u \in Logins, NEW valid \in BOOLEAN
    PROVE  /\ [kind |-> "Register", login |-> u, valid |-> valid] \in RequestBodies
           /\ [kind |-> "Authorize", login |-> u, valid |-> valid] \in RequestBodies
           /\ [kind |-> "Logout"] \in RequestBodies
           /\ [kind |-> "ChangeName", login |-> u] \in RequestBodies
           /\ [kind |-> "Connect", login |-> u] \in RequestBodies
           /\ [kind |-> "ClientChats"] \in RequestBodies
           /\ [kind |-> "Notifications"] \in RequestBodies
BY DEF RequestBodies

LEMMA PaneBodies ==
    ASSUME NEW c \in Int, NEW invited \in SUBSET Logins
    PROVE  /\ [kind |-> "SendMessage", chat |-> c] \in RequestBodies
           /\ [kind |-> "CreateChat", invited |-> invited] \in RequestBodies
BY DEF RequestBodies

LEMMA UseAccountFlow ==
    ASSUME TypeInv, NEW p \in Clients, UseAccount(p)
    PROVE  AnswersMadeByBox
<1>1. WireTypeOK /\ ClientTypeOK
    BY DEF TypeInv, TypeOK
<1>2. CASE SwitchPage(p)
    BY <1>2, SameRequests DEF SwitchPage, wireVars, NoNewRequests, AnswersMadeByBox
<1>3. CASE \E u \in Logins, valid \in BOOLEAN : RequestRegister(p, u, valid)
    BY <1>1, <1>3, SendFlow, AccountBodies DEF RequestRegister, AnswerKinds
<1>4. CASE \E u \in Logins, valid \in BOOLEAN : RequestAuthorize(p, u, valid)
    BY <1>1, <1>4, SendFlow, AccountBodies DEF RequestAuthorize, AnswerKinds
<1>5. CASE RequestLogout(p)
    <2>1. [kind |-> "Logout"] \in RequestBodies
        BY DEF RequestBodies
    <2> QED
        BY <1>1, <1>5, <2>1, SendFlow DEF RequestLogout, AnswerKinds
<1>6. CASE \E u \in Logins : RequestChangeIdentity(p, u)
    BY <1>1, <1>6, SendFlow, AccountBodies DEF RequestChangeIdentity, AnswerKinds
<1> QED
    BY <1>2, <1>3, <1>4, <1>5, <1>6 DEF UseAccount

LEMMA UsePaneFlow ==
    ASSUME TypeInv, NEW p \in Clients, UsePane(p)
    PROVE  AnswersMadeByBox
<1>1. WireTypeOK /\ ClientTypeOK /\ chatId[p] \in Int /\ current[p] \in Int
    BY DEF TypeInv, TypeOK, ClientTypeOK, PaneTypeOK
<1>2. CASE \E invited \in InviteSets : RequestToCreateChat(p, invited)
    <2>1. PICK invited \in InviteSets : RequestToCreateChat(p, invited)
        BY <1>2
    <2>2. [kind |-> "CreateChat", invited |-> invited] \in RequestBodies
        <3>1. invited \in SUBSET Logins
            BY SystemAssumption
        <3> QED
            BY <3>1 DEF RequestBodies
    <2> QED
        BY <1>1, <2>1, <2>2, SendFlow DEF RequestToCreateChat, AnswerKinds
<1>3. CASE PopUp(p)
    <2>1. [kind |-> "ClientChats"] \in RequestBodies
        BY DEF RequestBodies
    <2> QED
        BY <1>1, <1>3, <2>1, SendFlow DEF PopUp, AnswerKinds
<1>4. CASE \E c \in combo[p] \cup {-1} : SelectChat(p, c)
    BY <1>4, SameRequests DEF SelectChat, wireVars, NoNewRequests, AnswersMadeByBox
<1>5. CASE SendText(p)
    BY <1>1, <1>5, SendFlow, PaneBodies DEF SendText, AnswerKinds
<1>6. CASE SendLine(p)
    BY <1>1, <1>6, SendFlow, PaneBodies DEF SendLine, AnswerKinds
<1> QED
    BY <1>2, <1>3, <1>4, <1>5, <1>6 DEF UsePane

LEMMA UseBoxFlow ==
    ASSUME TypeInv, NEW p \in Clients, UseBox(p)
    PROVE  AnswersMadeByBox
<1>1. WireTypeOK /\ ClientTypeOK /\ BoxTypeOK
    BY DEF TypeInv, TypeOK
<1>2. CASE FetchAllNotifications(p)
    <2>1. [kind |-> "Notifications"] \in RequestBodies
        BY DEF RequestBodies
    <2> QED
        BY <1>1, <1>2, <2>1, SendFlow DEF FetchAllNotifications, AnswerKinds
<1>3. CASE AnswerOrphan(p) \/ \E i \in DOMAIN notices[p] : OnClick(p, i)
    BY <1>3, SameRequests DEF AnswerOrphan, OnClick, wireVars, NoNewRequests, AnswersMadeByBox
<1>4. ASSUME NEW i \in DOMAIN notices[p], NEW accept \in BOOLEAN, AnswerInvite(p, i, accept)
      PROVE  AnswersMadeByBox
    <2> DEFINE e == notices[p][i]
               b == [kind |-> IF accept THEN "AcceptCreateChat" ELSE "DeclineCreateChat",
                     nid |-> e.nid, chat |-> e.chat]
    <2>1. e \in Entries
        BY <1>1, <1>4, ElementOfSeq, LenProperties DEF BoxTypeOK
    <2>2. b \in RequestBodies
        BY <2>1 DEF RequestBodies, Entries
    <2>3. Running(p) /\ config[p].session \in Nat /\ Post(p, config[p].session, b)
        BY <1>1, <1>4 DEF AnswerInvite, Answer, SendRequest, ClientTypeOK
    <2>4. identity[p] \in Ids
        BY <1>1, <2>3 DEF WireTypeOK, Running
    <2> QED
        BY <1>1, <1>4, <2>2, <2>3, <2>4, PostFlow DEF AnswersMadeByBox, MadeByBox
<1> QED
    BY <1>2, <1>3, <1>4 DEF UseBox

LEMMA StartFlow ==
    ASSUME TypeInv, NEW p \in Clients, NEW self \in Logins, Start(p, self)
    PROVE  AnswersMadeByBox
<1> SUFFICES ASSUME NEW q \in Clients, NEW k \in DOMAIN requests'[q]
             PROVE  \/ Kept(requests'[q][k], q)
                    \/ requests'[q][k].body.kind \notin AnswerKinds
    BY DEF AnswersMadeByBox
<1>1. WireTypeOK /\ ClientTypeOK
    BY DEF TypeInv, TypeOK
<1>2. PICK r : requests' = [requests EXCEPT ![p] = Append(@, r)] /\ r.body.kind = "Connect"
                /\ r \in Requests
    <2>1. PICK t \in FreshTempIds : requests' = [requests EXCEPT ![p] = Append(@,
             [from |-> t, session |-> config[p].session, sent |-> FALSE,
              body |-> [kind  |-> "Connect",
                        login |-> IF config[p].identity = NoId THEN self
                                                               ELSE config[p].identity]])]
        BY DEF Start
    <2>2. config[p].session \in Nat /\ config[p].identity \in Logins \cup {NoId} /\ t \in Ids
        BY <1>1 DEF ClientTypeOK, FreshTempIds, Ids
    <2>3. [kind  |-> "Connect",
           login |-> IF config[p].identity = NoId THEN self ELSE config[p].identity] \in RequestBodies
        BY <2>2 DEF RequestBodies
    <2> DEFINE r == [from |-> t, session |-> config[p].session, sent |-> FALSE,
                     body |-> [kind  |-> "Connect",
                               login |-> IF config[p].identity = NoId THEN self
                                                                     ELSE config[p].identity]]
    <2>4. r \in Requests /\ r.body.kind = "Connect"
        BY <2>2, <2>3 DEF Requests
    <2>5. requests' = [requests EXCEPT ![p] = Append(@, r)]
        BY <2>1
    <2> HIDE DEF r
    <2> QED
        BY <2>4, <2>5
<1>3. CASE q # p
    BY <1>1, <1>2, <1>3 DEF Kept, WireTypeOK
<1>4. CASE q = p
    <2>1. requests[p] \in Seq(Requests) /\ requests'[p] = Append(requests[p], r)
        BY <1>1, <1>2 DEF WireTypeOK
    <2>2. /\ Len(requests[p]) \in Nat /\ DOMAIN requests[p] = 1 .. Len(requests[p])
          /\ DOMAIN requests'[p] = 1 .. Len(requests[p]) + 1
          /\ \A i \in 1 .. Len(requests[p]) : requests'[p][i] = requests[p][i]
          /\ requests'[p][Len(requests[p]) + 1] = r
        BY <1>2, <2>1, AppendProperties, LenProperties
    <2>3. CASE k \in 1 .. Len(requests[p])
        BY <1>4, <2>2, <2>3 DEF Kept
    <2>4. CASE k = Len(requests[p]) + 1
        BY <1>2, <1>4, <2>2, <2>4 DEF AnswerKinds
    <2> QED
        BY <1>4, <2>2, <2>3, <2>4
<1> QED
    BY <1>3, <1>4

-----------------------------------------------------------------------------
LEMMA ReceiveFlow ==
    ASSUME TypeInv, NEW p \in Clients, Receive(p)
    PROVE  NoNewRequests /\ NoNewReplies
<1>1. WireTypeOK
    BY DEF TypeInv, TypeOK
<1>2. CASE ReceiveNewClientName(p)
    <2>1. Receives(p, "NewClientName")
        BY <1>2 DEF ReceiveNewClientName
    <2>2. CASE identity[p] # Received(p).login
        BY <1>1, <1>2, <2>2, ReconnectFlow DEF ReceiveNewClientName
    <2>3. CASE identity[p] = Received(p).login
        BY <1>1, <1>2, <2>1, <2>3, ConsumeFlow DEF ReceiveNewClientName
    <2> QED
        BY <2>2, <2>3
<1>3. CASE \/ ReceiveRegister(p) \/ ReceiveAuthorize(p) \/ ReceiveAlreadyAuthorized(p)
           \/ ReceiveNotAuthorized(p) \/ ReceiveNewChat(p) \/ ReceiveCreateChat(p)
           \/ ReceiveNotifications(p) \/ ReceiveClientChats(p) \/ ReceiveIncomingMessage(p)
    <2>1. Consume(p) /\ \E kind : Receives(p, kind)
        BY <1>3 DEF ReceiveRegister, ReceiveAuthorize, ReceiveAlreadyAuthorized,
            ReceiveNotAuthorized, ReceiveNewChat, ReceiveCreateChat, ReceiveNotifications,
            ReceiveClientChats, ReceiveIncomingMessage
    <2> QED
        BY <1>1, <2>1, ConsumeFlow
<1> QED
    BY <1>2, <1>3 DEF Receive

LEMMA GoDownFlow ==
    ASSUME WireTypeOK, GoDown(requests)
    PROVE  NoNewRequests /\ NoNewReplies
<1>1. requests \in [Clients -> Seq(Requests)]
    BY DEF WireTypeOK
<1>2. \A q \in Clients : \A k \in DOMAIN requests[q] : Kept(requests[q][k], q)
    BY DEF Kept
<1> QED
    BY <1>1, <1>2, BreakFlow DEF GoDown

LEMMA AcceptFailsFlow ==
    ASSUME WireTypeOK, NEW p \in Clients, AcceptFails(p)
    PROVE  NoNewRequests /\ NoNewReplies
<1>1. requests[p] # <<>> /\ requests[p] \in Seq(Requests)
    BY DEF AcceptFails, Serves, Reads, Readable, WireTypeOK
<1>2. Taken(p) \in [Clients -> Seq(Requests)]
    BY <1>1, HeadTailProperties DEF Taken, WireTypeOK
<1>3. ASSUME NEW q \in Clients, NEW k \in DOMAIN Taken(p)[q]
      PROVE  Kept(Taken(p)[q][k], q)
    <2>1. Taken(p)[q] = IF q = p THEN Tail(requests[p]) ELSE requests[q]
        BY DEF Taken, WireTypeOK
    <2>2. CASE q = p
        BY <1>1, <1>3, <2>1, <2>2, TailElements DEF Kept
    <2>3. CASE q # p
        BY <1>3, <2>1, <2>3 DEF Kept
    <2> QED
        BY <2>2, <2>3
<1> QED
    BY <1>2, <1>3, BreakFlow DEF AcceptFails, GoDown

LEMMA ServerRequests ==
    ASSUME WireTypeOK, ServerStep
    PROVE  NoNewRequests
<1>1. ASSUME NEW p \in Clients,
             \/ RefuseWithoutSession(p) \/ HandleConnection(p) \/ HandleRegister(p)
             \/ HandleAuthorize(p) \/ HandleLogout(p) \/ PrepareNewChatSession(p)
             \/ HandleResponseForInvite(p) \/ HandleClientChatsInfoRequest(p)
             \/ HandleClientNotifications(p) \/ RefuseMessage(p) \/ HandleSendMessage(p)
      PROVE  NoNewRequests
    <2>1. Reads(p) /\ Take(p)
        BY <1>1 DEF RefuseWithoutSession, HandleConnection, HandleRegister, HandleAuthorize,
            HandleLogout, PrepareNewChatSession, HandleResponseForInvite,
            HandleClientChatsInfoRequest, HandleClientNotifications, RefuseMessage,
            HandleSendMessage, Serves
    <2> QED
        BY <2>1, TakeFlow
<1>2. CASE \E u \in Logins : AskClient(u)
    BY <1>2, SameRequests DEF AskClient
<1>3. CASE FinishNewChat \/ SetNotificationChecked \/ DispatchMessage
    BY <1>3, SameRequests DEF FinishNewChat, SetNotificationChecked, DispatchMessage, wireVars
<1>4. CASE FinishNewChatFails
    BY <1>4, GoDownFlow DEF FinishNewChatFails
<1> QED
    BY <1>1, <1>2, <1>3, <1>4, AcceptFailsFlow DEF ServerStep

\* Every answer under way after a step was under way before, or a button of a
\* window of the box has just made it.
LEMMA RequestFlow ==
    ASSUME TypeInv, [Next]_vars
    PROVE  AnswersMadeByBox
<1>1. WireTypeOK
    BY DEF TypeInv, TypeOK
<1>2. ASSUME NoNewRequests PROVE AnswersMadeByBox
    BY <1>2 DEF NoNewRequests, AnswersMadeByBox
<1>3. ASSUME NEW p \in Clients, StartClient(p) PROVE AnswersMadeByBox
    BY <1>3, StartFlow DEF StartClient
<1>4. ASSUME NEW p \in Clients, QuitClient(p) \/ OrphanCrash(p) PROVE AnswersMadeByBox
    BY <1>1, <1>2, <1>4, ReconnectFlow DEF QuitClient, OrphanCrash, EndClient, CloseClient
<1>5. ASSUME NEW p \in Clients, AcceptConnection(p) PROVE AnswersMadeByBox
    BY <1>2, <1>5, SameRequests DEF AcceptConnection, Accept
<1>6. CASE HaltServer
    BY <1>1, <1>2, <1>6, GoDownFlow DEF HaltServer, Halt
<1>7. CASE RestartServer
    BY <1>2, <1>7, SameRequests DEF RestartServer, Restart, wireVars
<1>8. CASE RunServer
    BY <1>1, <1>2, <1>8, ServerRequests DEF RunServer
<1>9. CASE UNCHANGED vars
    BY <1>2, <1>9, SameRequests DEF vars, wireVars
<1> QED
    BY <1>2, <1>3, <1>4, <1>5, <1>6, <1>7, <1>8, <1>9,
       UseAccountFlow, UsePaneFlow, UseBoxFlow, ReceiveFlow DEF Next

-----------------------------------------------------------------------------
(***************************************************************************)
(* Messages.  What is in them comes from few places.                       *)
(***************************************************************************)
\* The kinds that invite, name a chat or a user, or carry a text.
TellingKinds ==
    {"CreateChat", "Notifications", "NewChat", "NewClientName", "ClientChats", "IncomingMessage"}

\* Message m to q is of some other kind, or a handler has just sent it: AskClient,
\* HandleClientNotifications, an insert into user_chats, HandleConnection or
\* HandleAuthorize for a session of the device, HandleClientChatsInfoRequest, or
\* HandleSendMessage.
JustSent(m, q) ==
    \/ m.kind \notin TellingKinds
    \/ /\ m.kind = "CreateChat"
       /\ \E u \in Logins : AskClient(u) /\ u \in users /\ peer[q] = u
            /\ \E n \in newestNotifications' : m.invite = [nid |-> n, author |-> job.creator, chat |-> job.chat]
    \/ /\ m.kind = "Notifications"
       /\ \E p \in Clients : HandleClientNotifications(p) /\ peer[q] = Current(p).from
                             /\ m.invites = GetClientNotifications(Current(p).from)
    \/ /\ m.kind = "NewChat"
       /\ peer[q] \in Logins /\ [chat |-> m.chat, user |-> peer[q]] \in userChats'
    \/ /\ m.kind = "NewClientName"
       /\ \E p \in Clients : /\ Reads(p) /\ peer[q] = Current(p).from
                             /\ Current(p).body.kind \in {"Connect", "ChangeName", "Authorize"}
                             /\ \E s \in sessions' : s.user = m.login /\ s.device = p
    \/ /\ m.kind = "ClientChats"
       /\ m.chats = GetClientChats(peer[q])
    \/ /\ m.kind = "IncomingMessage"
       /\ DispatchMessage /\ peer[q] \in GetChatClients(job.chat)
       /\ m.author = job.author /\ m.chat = job.chat /\ m.id = job.id

\* The messages to a client that were there before are in their old order, and
\* those just sent come after all of them.
MessagesInOrder ==
    \A q \in Clients : \E d \in {0, 1} : \A k \in DOMAIN replies'[q] :
        \/ Shifted(q, k, d)
        \/ d = 0 /\ k > Len(replies[q]) /\ JustSent(replies'[q][k], q)

LEMMA NoNewMessages ==
    ASSUME NoNewReplies
    PROVE  MessagesInOrder
BY DEF NoNewReplies, MessagesInOrder

LEMMA SentFlow ==
    ASSUME WireTypeOK, NEW ids, NEW ms \in Seq(Replies), Dispatch(ids, ms),
           \A q \in Clients : peer[q] \in ids => \A j \in DOMAIN ms : JustSent(ms[j], q)
    PROVE  MessagesInOrder
BY DispatchFlow DEF MessagesInOrder

LEMMA OtherKinds ==
    ASSUME WireTypeOK, NEW ids, NEW ms \in Seq(Replies), Dispatch(ids, ms),
           \A j \in DOMAIN ms : ms[j].kind \notin TellingKinds
    PROVE  MessagesInOrder
BY SentFlow DEF JustSent

LEMMA AccountMessages ==
    ASSUME WireTypeOK, ServerTypeOK, NEW p \in Clients,
           \/ RefuseWithoutSession(p) \/ HandleConnection(p) \/ HandleRegister(p)
           \/ HandleAuthorize(p) \/ HandleLogout(p)
    PROVE  MessagesInOrder
<1>1. Reads(p)
    BY DEF RefuseWithoutSession, HandleConnection, HandleRegister, HandleAuthorize,
           HandleLogout, Serves
<1>2. Current(p).body \in RequestBodies
    BY <1>1, CurrentTyped
<1>3. CASE RefuseWithoutSession(p) \/ HandleLogout(p)
    <2>1. <<NotAuthorized>> \in Seq(Replies)
        BY DEF NotAuthorized, Replies
    <2>2. \A j \in DOMAIN <<NotAuthorized>> : <<NotAuthorized>>[j].kind \notin TellingKinds
        BY DEF NotAuthorized, TellingKinds
    <2> QED
        BY <1>3, <2>1, <2>2, OtherKinds DEF RefuseWithoutSession, HandleLogout, Reply
<1>4. ASSUME NEW login \in Logins,
             Current(p).body.kind \in {"Connect", "ChangeName", "Authorize"},
             \E s \in sessions' : s.user = login /\ s.device = p,
             \/ Reply(p, <<[kind |-> "AlreadyAuthorized"],
                           [kind |-> "NewClientName", login |-> login]>>)
             \/ \E n \in Nat : Reply(p, <<[kind |-> "Authorize", session |-> n],
                                          [kind |-> "NewClientName", login |-> login]>>)
      PROVE  MessagesInOrder
    <2> DEFINE name == [kind |-> "NewClientName", login |-> login]
    <2>1. \A q \in Clients : peer[q] = Current(p).from => JustSent(name, q)
        BY <1>1, <1>4 DEF JustSent
    <2>2. name \in Replies
        BY DEF Replies
    <2> HIDE DEF name
    <2>3. ASSUME NEW m \in Replies, m.kind \notin TellingKinds, Reply(p, <<m, name>>)
          PROVE  MessagesInOrder
        <3>1. <<m, name>> \in Seq(Replies)
            BY <2>2
        <3>2. \A q \in Clients : peer[q] \in {Current(p).from} =>
                \A j \in DOMAIN <<m, name>> : JustSent(<<m, name>>[j], q)
            BY <2>1, <2>3 DEF JustSent
        <3> QED
            BY <2>3, <3>1, <3>2, SentFlow DEF Reply
    <2>4. /\ [kind |-> "AlreadyAuthorized"] \in Replies
          /\ \A n \in Nat : [kind |-> "Authorize", session |-> n] \in Replies
        BY DEF Replies
    <2> QED
        BY <1>4, <2>3, <2>4 DEF name, TellingKinds
<1>5. ASSUME \/ Reply(p, <<NotAuthorized>>)
             \/ \E ok \in BOOLEAN : Reply(p, <<[kind |-> "Register", registered |-> ok]>>)
             \/ Reply(p, <<[kind |-> "Authorize", session |-> 0]>>)
      PROVE  MessagesInOrder
    <2>1. ASSUME NEW m \in Replies, Reply(p, <<m>>), m.kind \notin TellingKinds
          PROVE  MessagesInOrder
        <3>1. <<m>> \in Seq(Replies)
            OBVIOUS
        <3>2. \A j \in DOMAIN <<m>> : <<m>>[j].kind \notin TellingKinds
            BY <2>1
        <3> QED
            BY <2>1, <3>1, <3>2, OtherKinds DEF Reply
    <2>2. /\ NotAuthorized \in Replies
          /\ \A ok \in BOOLEAN : [kind |-> "Register", registered |-> ok] \in Replies
          /\ [kind |-> "Authorize", session |-> 0] \in Replies
        BY DEF NotAuthorized, Replies
    <2>3. NotAuthorized.kind = "NotAuthorized"
        BY DEF NotAuthorized
    <2> QED
        BY <1>5, <2>1, <2>2, <2>3 DEF TellingKinds
<1>6. CASE HandleConnection(p)
    <2> DEFINE login == Current(p).body.login
    <2>1. login \in Logins /\ Current(p).body.kind \in {"Connect", "ChangeName"}
        BY <1>2, <1>6, BodyFields DEF HandleConnection, Serves
    <2>2. CASE UserDeviceSession(login, p)
        <3>1. \E s \in sessions' : s.user = login /\ s.device = p
            BY <1>6, <2>2 DEF HandleConnection, UserDeviceSession, serverVars, tableVars,
                              accountVars
        <3>2. Reply(p, <<[kind |-> "AlreadyAuthorized"],
                         [kind |-> "NewClientName", login |-> login]>>)
            BY <1>6, <2>2 DEF HandleConnection
        <3> HIDE DEF login
        <3> QED
            BY <1>4, <2>1, <3>1, <3>2
    <2>3. CASE ~UserDeviceSession(login, p)
        BY <1>5, <1>6, <2>3 DEF HandleConnection
    <2> QED
        BY <2>2, <2>3
<1>7. CASE HandleRegister(p)
    <2>1. (Current(p).body.valid /\ Current(p).body.login \notin users) \in BOOLEAN
        OBVIOUS
    <2> QED
        BY <1>5, <1>7, <2>1 DEF HandleRegister
<1>8. CASE HandleAuthorize(p)
    <2> DEFINE login == Current(p).body.login
    <2>1. login \in Logins /\ Current(p).body.kind = "Authorize"
        BY <1>2, <1>8, BodyFields DEF HandleAuthorize, Serves
    <2>2. issued + 1 \in Nat
        BY DEF ServerTypeOK
    <2>3. CASE Current(p).body.valid /\ login \in users
        <3> DEFINE new == [user |-> login, device |-> p, id |-> issued']
        <3>5. new \in sessions' /\ new.user = login /\ new.device = p
            BY <1>8, <2>3 DEF HandleAuthorize
        <3>1. \E s \in sessions' : s.user = login /\ s.device = p
            BY <3>5
        <3>2. Reply(p, <<[kind |-> "Authorize", session |-> issued + 1],
                         [kind |-> "NewClientName", login |-> login]>>)
            BY <1>8, <2>3 DEF HandleAuthorize, FreshSessionId
        <3> HIDE DEF login
        <3> QED
            BY <1>4, <2>1, <2>2, <3>1, <3>2
    <2>4. CASE ~(Current(p).body.valid /\ login \in users)
        BY <1>5, <1>8, <2>4 DEF HandleAuthorize
    <2> QED
        BY <2>3, <2>4
<1> QED
    BY <1>3, <1>6, <1>7, <1>8

LEMMA AskClientMessages ==
    ASSUME WireTypeOK, ServerTypeOK, NEW u \in Logins, AskClient(u)
    PROVE  MessagesInOrder
<1>1. CASE u \notin users
    BY <1>1, SameReplies, NoNewMessages DEF AskClient
<1>2. CASE u \in users
    <2>1. PICK n \in newestNotifications' : Dispatch({u}, <<[kind |-> "CreateChat", invite |->
                     [nid |-> n, author |-> job.creator, chat |-> job.chat]]>>)
        BY <1>2 DEF AskClient
    <2> DEFINE m == [kind |-> "CreateChat", invite |->
                        [nid |-> n, author |-> job.creator, chat |-> job.chat]]
    <2>2. n \in Nat
        <3>1. n \in DOMAIN notifications' /\ notifications' \in Seq(Notifications)
            BY AskClientTyped DEF ServerTypeOK
        <3> QED
            BY <3>1, LenProperties
    <2>3. job.creator \in Logins /\ job.chat \in Nat
        BY AskingJob DEF AskClient
    <2>4. <<m>> \in Seq(Replies)
        BY <2>2, <2>3 DEF Replies, Invites
    <2>5. \A q \in Clients : peer[q] \in {u} => \A j \in DOMAIN <<m>> : JustSent(<<m>>[j], q)
        BY <1>2 DEF JustSent
    <2> QED
        BY <2>1, <2>4, <2>5, SentFlow
<1> QED
    BY <1>1, <1>2

LEMMA NewChatMessages ==
    ASSUME WireTypeOK, NEW u \in Logins, NEW c \in Nat,
           AddClientToChat(u, c), Dispatch({u}, <<[kind |-> "NewChat", chat |-> c]>>)
    PROVE  MessagesInOrder
<1> DEFINE m == [kind |-> "NewChat", chat |-> c]
<1>1. <<m>> \in Seq(Replies)
    BY DEF Replies
<1>2. [chat |-> c, user |-> u] \in userChats'
    BY DEF AddClientToChat
<1>3. \A q \in Clients : peer[q] \in {u} => \A j \in DOMAIN <<m>> : JustSent(<<m>>[j], q)
    BY <1>2 DEF JustSent
<1> QED
    BY <1>1, <1>3, SentFlow

LEMMA FinishNewChatMessages ==
    ASSUME WireTypeOK, ServerTypeOK, FinishNewChat
    PROVE  MessagesInOrder
<1>1. job.creator \in Logins /\ job.chat \in Nat
    BY AskingJob DEF FinishNewChat
<1> QED
    BY <1>1, NewChatMessages DEF FinishNewChat

LEMMA ResponseMessages ==
    ASSUME WireTypeOK, ServerTypeOK, NEW p \in Clients, HandleResponseForInvite(p)
    PROVE  MessagesInOrder
<1>1. CASE Serves(p, "AcceptCreateChat")
    <2>1. Current(p).from \in Logins /\ Current(p).body.chat \in Nat
        BY <1>1, EntitledIsLogin, CurrentTyped, BodyFields DEF Serves, NonSessionActions
    <2>2. /\ AddClientToChat(Current(p).from, Current(p).body.chat)
          /\ Reply(p, <<[kind |-> "NewChat", chat |-> Current(p).body.chat]>>)
        BY <1>1 DEF HandleResponseForInvite, Serves
    <2> QED
        BY <2>1, <2>2, NewChatMessages DEF Reply
<1>2. CASE Serves(p, "DeclineCreateChat")
    <2>1. UNCHANGED replies
        BY <1>2 DEF HandleResponseForInvite, Serves
    <2> QED
        BY <2>1, SameReplies, NoNewMessages
<1> QED
    BY <1>1, <1>2 DEF HandleResponseForInvite

LEMMA QueryMessages ==
    ASSUME WireTypeOK, ServerTypeOK, NEW p \in Clients,
           HandleClientChatsInfoRequest(p) \/ HandleClientNotifications(p)
    PROVE  MessagesInOrder
<1> DEFINE from == Current(p).from
<1>1. CASE HandleClientChatsInfoRequest(p)
    <2> DEFINE m == [kind |-> "ClientChats", chats |-> GetClientChats(from)]
    <2>1. GetClientChats(from) \subseteq Nat
        BY DEF GetClientChats, ServerTypeOK, Memberships
    <2>2. <<m>> \in Seq(Replies)
        BY <2>1 DEF Replies
    <2>3. \A q \in Clients : peer[q] \in {from} => \A j \in DOMAIN <<m>> : JustSent(<<m>>[j], q)
        BY DEF JustSent
    <2>4. Dispatch({from}, <<m>>)
        BY <1>1 DEF HandleClientChatsInfoRequest, Reply
    <2> QED
        BY <2>2, <2>3, <2>4, SentFlow
<1>2. CASE HandleClientNotifications(p)
    <2> DEFINE m == [kind |-> "Notifications", invites |-> GetClientNotifications(from)]
    <2>1. GetClientNotifications(from) \subseteq Invites /\ IsFiniteSet(GetClientNotifications(from))
        BY ClientNotificationsTyped
    <2>2. <<m>> \in Seq(Replies)
        BY <2>1 DEF Replies
    <2>3. \A q \in Clients : peer[q] \in {from} => \A j \in DOMAIN <<m>> : JustSent(<<m>>[j], q)
        BY <1>2 DEF JustSent
    <2>4. Dispatch({from}, <<m>>)
        BY <1>2 DEF HandleClientNotifications, Reply
    <2> QED
        BY <2>2, <2>3, <2>4, SentFlow
<1> QED
    BY <1>1, <1>2

LEMMA DispatchMessageMessages ==
    ASSUME WireTypeOK, ServerTypeOK, DispatchMessage
    PROVE  MessagesInOrder
<1> DEFINE m == [kind |-> "IncomingMessage", author |-> job.author, chat |-> job.chat, id |-> job.id]
<1>1. job.author \in Logins /\ job.chat \in Int /\ job.id \in Nat
    BY DEF DispatchMessage, ServerTypeOK, Jobs, Idle
<1>2. <<m>> \in Seq(Replies)
    BY <1>1 DEF Replies
<1>3. \A q \in Clients : peer[q] \in GetChatClients(job.chat) =>
        \A j \in DOMAIN <<m>> : JustSent(<<m>>[j], q)
    BY DEF JustSent
<1>4. Dispatch(GetChatClients(job.chat), <<m>>)
    BY DEF DispatchMessage
<1> QED
    BY <1>2, <1>3, <1>4, SentFlow

LEMMA ServerMessages ==
    ASSUME WireTypeOK, ServerTypeOK, ServerStep
    PROVE  MessagesInOrder
<1>1. ASSUME NEW p \in Clients,
             PrepareNewChatSession(p) \/ RefuseMessage(p) \/ HandleSendMessage(p)
      PROVE  MessagesInOrder
    BY <1>1, SameReplies, NoNewMessages DEF PrepareNewChatSession, RefuseMessage, HandleSendMessage
<1>2. CASE SetNotificationChecked
    BY <1>2, SameReplies, NoNewMessages DEF SetNotificationChecked, wireVars
<1>3. CASE FinishNewChatFails
    BY <1>3, GoDownFlow, NoNewMessages DEF FinishNewChatFails
<1>4. ASSUME NEW p \in Clients, AcceptFails(p) PROVE MessagesInOrder
    BY <1>4, AcceptFailsFlow, NoNewMessages
<1> QED
    BY <1>1, <1>2, <1>3, <1>4, AccountMessages, AskClientMessages, FinishNewChatMessages,
       ResponseMessages, QueryMessages, DispatchMessageMessages DEF ServerStep

\* Whatever a step does, the messages under way to a client keep their order, and
\* new ones are sent for a reason.
LEMMA MessageOrder ==
    ASSUME TypeInv, [Next]_vars
    PROVE  MessagesInOrder
<1>1. WireTypeOK /\ ServerTypeOK
    BY DEF TypeInv, TypeOK
<1>2. ASSUME UNCHANGED replies PROVE MessagesInOrder
    BY <1>1, <1>2, SameReplies, NoNewMessages
<1>3. ASSUME NEW p \in Clients, StartClient(p) \/ AcceptConnection(p) PROVE MessagesInOrder
    BY <1>2, <1>3 DEF StartClient, Start, AcceptConnection, Accept
<1>4. ASSUME NEW p \in Clients, QuitClient(p) \/ OrphanCrash(p) PROVE MessagesInOrder
    BY <1>1, <1>4, ReconnectFlow, NoNewMessages DEF QuitClient, OrphanCrash, EndClient, CloseClient
<1>5. ASSUME NEW p \in Clients, UseAccount(p) PROVE MessagesInOrder
    BY <1>2, <1>5 DEF UseAccount, SwitchPage, RequestRegister, RequestAuthorize, RequestLogout,
        RequestChangeIdentity, SendRequest, wireVars
<1>6. ASSUME NEW p \in Clients, UsePane(p) PROVE MessagesInOrder
    BY <1>2, <1>6 DEF UsePane, RequestToCreateChat, PopUp, SelectChat, SendText, SendLine,
        SendRequest, wireVars
<1>7. ASSUME NEW p \in Clients, UseBox(p) PROVE MessagesInOrder
    BY <1>2, <1>7 DEF UseBox, FetchAllNotifications, OnClick, AnswerInvite, Answer, AnswerOrphan,
        SendRequest, wireVars
<1>8. ASSUME NEW p \in Clients, Receive(p) PROVE MessagesInOrder
    BY <1>8, ReceiveFlow, NoNewMessages
<1>9. CASE HaltServer
    BY <1>1, <1>9, GoDownFlow, NoNewMessages DEF HaltServer, Halt
<1>10. CASE RestartServer \/ UNCHANGED vars
    BY <1>2, <1>10 DEF RestartServer, Restart, vars, wireVars
<1>11. CASE RunServer
    BY <1>1, <1>11, ServerMessages DEF RunServer
<1> QED
    BY <1>3, <1>4, <1>5, <1>6, <1>7, <1>8, <1>9, <1>10, <1>11 DEF Next

\* Every message under way after a step was under way before, or has just been sent.
LEMMA MessageFlow ==
    ASSUME TypeInv, [Next]_vars, NEW q \in Clients, NEW k \in DOMAIN replies'[q]
    PROVE  Was(replies'[q][k], q) \/ JustSent(replies'[q][k], q)
BY MessageOrder DEF MessagesInOrder, Shifted, Was

\* A single message goes to the end.
LEMMA OneIsLast ==
    ASSUME WireTypeOK, NEW ids, NEW m, Dispatch(ids, <<m>>), NEW q \in Clients
    PROVE  Len(replies[q]) \in Nat
           /\ \A k \in DOMAIN replies'[q] : k \in Nat /\ k <= Len(replies[q]) + 1
<1> DEFINE n == Len(replies[q])
<1>1. replies[q] \in Seq(Replies) /\ n \in Nat /\ DOMAIN replies[q] = 1 .. n
    BY LenProperties DEF WireTypeOK
<1>2. CASE replies'[q] = replies[q]
    BY <1>1, <1>2
<1>3. CASE replies'[q] = replies[q] \o <<m>>
    <2>1. replies[q] \in Seq(Replies \cup {m}) /\ <<m>> \in Seq(Replies \cup {m}) /\ Len(<<m>>) = 1
        BY <1>1, ElementOfSeq, SeqDef
    <2>2. Len(replies[q] \o <<m>>) = n + 1 /\ replies[q] \o <<m>> \in Seq(Replies \cup {m})
        BY <2>1, ConcatProperties
    <2> QED
        BY <1>1, <1>3, <2>2, LenProperties
<1> QED
    BY <1>1, <1>2, <1>3 DEF Dispatch

\* The request that is read is the first one, and the message that is received too.
LEMMA CurrentIsFirst ==
    ASSUME WireTypeOK, NEW p \in Clients, Reads(p)
    PROVE  1 \in DOMAIN requests[p] /\ Current(p) = requests[p][1]
<1>1. requests[p] # <<>> /\ requests[p] \in Seq(Requests)
    BY DEF Reads, Readable, WireTypeOK
<1> QED
    BY <1>1, HeadTailProperties, LenProperties, EmptySeq DEF Current

LEMMA ReceivedIsFirst ==
    ASSUME WireTypeOK, NEW p \in Clients, NEW kind, Receives(p, kind)
    PROVE  1 \in DOMAIN replies[p] /\ Received(p) = replies[p][1] /\ Received(p).kind = kind
<1>1. replies[p] # <<>> /\ replies[p] \in Seq(Replies) /\ Received(p).kind = kind
    BY DEF Receives, Received, WireTypeOK
<1> QED
    BY <1>1, HeadTailProperties, LenProperties, EmptySeq DEF Received

\* The message received stands first, and the others move up.
LEMMA QueueMovesUp ==
    ASSUME WireTypeOK, NEW q \in Clients, replies[q] # <<>>, replies'[q] = Tail(replies[q])
    PROVE  /\ 1 \in DOMAIN replies[q] /\ Received(q) = replies[q][1]
           /\ \A k \in DOMAIN replies'[q] :
                k \in Nat /\ 1 < k + 1 /\ k + 1 \in DOMAIN replies[q]
                /\ replies'[q][k] = replies[q][k + 1]
BY HeadTailProperties, LenProperties, EmptySeq DEF WireTypeOK, Received

-----------------------------------------------------------------------------
(***************************************************************************)
(* Calm steps, by which no process ends.                                   *)
(***************************************************************************)
\* What was not spent by now was not spent before.
LEMMA SpentGrows ==
    ASSUME TypeInv, [Next]_vars, NEW kind \in Kinds, spent'[kind] = 0
    PROVE  spent[kind] = 0
<1>1. spent \in [Kinds -> Nat]
    BY DEF TypeInv, TypeOK
<1>2. ASSUME NEW k, Spend(k) PROVE spent[kind] = 0
    BY <1>1, <1>2 DEF Spend
<1>3. ASSUME UNCHANGED spent PROVE spent[kind] = 0
    BY <1>3
<1> QED
    BY <1>2, <1>3 DEF Next, StartClient, QuitClient, OrphanCrash, EndClient, AcceptConnection,
       UseAccount, UsePane, UseBox, AnswerInvite, Receive, HaltServer, RestartServer, RunServer,
       vars, systemVars

\* With no unique key, the server ends only when it is halted.
DownIsHalted == ~up => spent["halt"] # 0

\* A step after which no process has ended is none that ends one.
Calm ==
    /\ Undisturbed
    /\ \A p \in Clients : ~QuitClient(p) /\ ~OrphanCrash(p) /\ ~AcceptFails(p)
    /\ ~HaltServer /\ ~RestartServer /\ ~FinishNewChatFails

LEMMA CalmStep ==
    ASSUME TypeInv, DownIsHalted, ~MembershipKey, [Next]_vars, Undisturbed'
    PROVE  Calm
<1>1. /\ spent \in [Kinds -> Nat] /\ {"quit", "crash", "halt"} \subseteq Kinds
      /\ up' /\ \A k \in {"quit", "crash", "halt"} : spent'[k] = 0
    BY DEF TypeInv, TypeOK, Kinds, Undisturbed
<1>2. \A k \in {"quit", "crash", "halt"} : spent[k] = 0
    BY <1>1, SpentGrows
<1>3. up
    BY <1>2 DEF DownIsHalted
<1>4. ~(\E k \in {"quit", "crash", "halt"} : Spend(k))
    BY <1>1 DEF Spend
<1>5. ~HaltServer /\ ~RestartServer
    BY <1>3, <1>4 DEF HaltServer, RestartServer, Restart
<1>6. ~FinishNewChatFails /\ \A p \in Clients : ~AcceptFails(p)
    BY DEF FinishNewChatFails, AcceptFails, InsertFails
<1>7. \A p \in Clients : ~QuitClient(p) /\ ~OrphanCrash(p)
    BY <1>4 DEF QuitClient, OrphanCrash
<1> QED
    BY <1>2, <1>3, <1>5, <1>6, <1>7 DEF Calm, Undisturbed

LEMMA DownStaysHalted ==
    ASSUME TypeInv, DownIsHalted, ~MembershipKey, [Next]_vars
    PROVE  DownIsHalted'
<1> SUFFICES ASSUME ~up' PROVE spent'["halt"] # 0
    BY DEF DownIsHalted
<1>1. "halt" \in Kinds /\ spent \in [Kinds -> Nat]
    BY DEF TypeInv, TypeOK, Kinds
<1>2. CASE HaltServer
    BY <1>1, <1>2 DEF HaltServer, Spend
<1>3. CASE ~HaltServer
    <2>1. ~up
        <3>1. ~FinishNewChatFails /\ \A p \in Clients : ~AcceptFails(p)
            BY DEF FinishNewChatFails, AcceptFails, InsertFails
        <3>2. ASSUME NEW p \in Clients,
                     \/ RefuseWithoutSession(p) \/ HandleConnection(p) \/ HandleRegister(p)
                     \/ HandleAuthorize(p) \/ HandleLogout(p) \/ PrepareNewChatSession(p)
                     \/ HandleResponseForInvite(p) \/ HandleClientChatsInfoRequest(p)
                     \/ HandleClientNotifications(p) \/ RefuseMessage(p) \/ HandleSendMessage(p)
              PROVE  UNCHANGED up
            BY <3>2 DEF RefuseWithoutSession, HandleConnection, HandleRegister, HandleAuthorize,
                HandleLogout, PrepareNewChatSession, HandleResponseForInvite,
                HandleClientChatsInfoRequest, HandleClientNotifications, RefuseMessage,
                HandleSendMessage, serverVars
        <3>3. ASSUME FinishNewChat \/ SetNotificationChecked \/ DispatchMessage
                     \/ \E u \in Logins : AskClient(u)
              PROVE  UNCHANGED up
            BY <3>3 DEF FinishNewChat, SetNotificationChecked, DispatchMessage, AskClient
        <3>4. CASE RunServer
            BY <3>1, <3>2, <3>3, <3>4 DEF RunServer, ServerStep
        <3>5. CASE ~RunServer
            BY <1>3, <3>5 DEF Next, StartClient, QuitClient, OrphanCrash, EndClient,
                AcceptConnection, UseAccount, UsePane, UseBox, Receive, RestartServer, Restart,
                vars, serverVars
        <3> QED
            BY <3>4, <3>5
    <2>2. spent["halt"] # 0
        BY <2>1 DEF DownIsHalted
    <2> QED
        BY <1>1, <2>2, SpentGrows
<1> QED
    BY <1>2, <1>3

\* The queue of q loses nothing.
QueueStays(q) ==
    \A k \in DOMAIN replies[q] : k \in DOMAIN replies'[q] /\ replies'[q][k] = replies[q][k]

LEMMA DispatchKeepsQueues ==
    ASSUME WireTypeOK, NEW ids, NEW S, NEW ms \in Seq(S), Dispatch(ids, ms), NEW q \in Clients
    PROVE  QueueStays(q)
<1>1. CASE replies'[q] = replies[q]
    BY <1>1 DEF QueueStays
<1>2. CASE replies'[q] = replies[q] \o ms
    <2> DEFINE T == Replies \cup S
    <2>1. replies[q] \in Seq(T) /\ ms \in Seq(T)
        <3>1. replies[q] \in Seq(Replies)
            BY DEF WireTypeOK
        <3> QED
            BY <3>1, ElementOfSeq, SeqDef
    <2> HIDE DEF T
    <2> QED
        BY <1>2, <2>1, ConcatProperties, LenProperties DEF QueueStays
<1> QED
    BY <1>1, <1>2 DEF Dispatch

\* As long as the server goes on, queues and connections stay.
LEMMA CalmServer ==
    ASSUME WireTypeOK, ServerStep, Calm
    PROVE  UNCHANGED <<identity, peer>> /\ \A q \in Clients : QueueStays(q)
<1> DEFINE QueuesStay == \A q \in Clients : QueueStays(q)
<1>1. ASSUME UNCHANGED replies PROVE QueuesStay
    BY <1>1 DEF QueueStays
<1>2. ASSUME NEW ids, NEW m, Dispatch(ids, <<m>>) PROVE QueuesStay
    <2>1. <<m>> \in Seq({m})
        OBVIOUS
    <2> QED
        BY <1>2, <2>1, DispatchKeepsQueues
<1>3. ASSUME NEW ids, NEW m, NEW n, Dispatch(ids, <<m, n>>) PROVE QueuesStay
    <2>1. <<m, n>> \in Seq({m, n})
        OBVIOUS
    <2> QED
        BY <1>3, <2>1, DispatchKeepsQueues
<1> HIDE DEF QueuesStay
<1>4. ASSUME NEW p \in Clients,
             PrepareNewChatSession(p) \/ RefuseMessage(p) \/ HandleSendMessage(p)
      PROVE  QueuesStay /\ UNCHANGED <<identity, peer>>
    BY <1>1, <1>4 DEF PrepareNewChatSession, RefuseMessage, HandleSendMessage, Take
<1>5. ASSUME NEW p \in Clients,
             \/ RefuseWithoutSession(p) \/ HandleRegister(p) \/ HandleLogout(p)
             \/ HandleClientChatsInfoRequest(p) \/ HandleClientNotifications(p)
      PROVE  QueuesStay /\ UNCHANGED <<identity, peer>>
    BY <1>2, <1>5 DEF RefuseWithoutSession, HandleRegister, HandleLogout,
        HandleClientChatsInfoRequest, HandleClientNotifications, Reply, Take
<1>6. ASSUME NEW p \in Clients, HandleConnection(p) \/ HandleAuthorize(p)
      PROVE  QueuesStay /\ UNCHANGED <<identity, peer>>
    BY <1>2, <1>3, <1>6 DEF HandleConnection, HandleAuthorize, Reply, Take
<1>7. ASSUME NEW p \in Clients, HandleResponseForInvite(p)
      PROVE  QueuesStay /\ UNCHANGED <<identity, peer>>
    BY <1>1, <1>2, <1>7 DEF HandleResponseForInvite, Reply, Take
<1>8. ASSUME NEW u \in Logins, AskClient(u) PROVE QueuesStay /\ UNCHANGED <<identity, peer>>
    BY <1>1, <1>2, <1>8 DEF AskClient
<1>9. CASE FinishNewChat \/ DispatchMessage
    BY <1>2, <1>9 DEF FinishNewChat, DispatchMessage, QueuesStay
<1>10. CASE SetNotificationChecked
    BY <1>1, <1>10 DEF SetNotificationChecked, wireVars, QueuesStay
<1> QED
    BY <1>4, <1>5, <1>6, <1>7, <1>8, <1>9, <1>10 DEF ServerStep, Calm, QueuesStay

\* q takes the first message, and what follows is as it was.
Receipt(q) == Receive(q) /\ replies[q] # <<>> /\ replies'[q] = Tail(replies[q])

\* q goes on under another name, with a new connection.
Renamed(q) ==
    /\ Receives(q, "NewClientName")
    /\ Received(q).login # identity[q] /\ identity'[q] = Received(q).login
    /\ replies'[q] = <<>>
    /\ UNCHANGED <<page, sessions>>

\* As long as no process ends, a client loses messages and its connection only when
\* it is told another name.
LEMMA CalmQueue ==
    ASSUME TypeInv, Calm, [Next]_vars, NEW q \in Clients
    PROVE  \/ Renamed(q)
           \/ /\ QueueStays(q) \/ Receipt(q)
              /\ Admitted(q) => Admitted(q)' /\ identity'[q] = identity[q]
              /\ \/ identity'[q] = identity[q]
                 \/ ~Running(q) /\ identity'[q] \in FreshTempIds
<1>1. WireTypeOK
    BY DEF TypeInv, TypeOK
<1> DEFINE IdStays == /\ Admitted(q) => Admitted(q)' /\ identity'[q] = identity[q]
                      /\ \/ identity'[q] = identity[q]
                         \/ ~Running(q) /\ identity'[q] \in FreshTempIds
<1>2. ASSUME UNCHANGED <<identity, peer>> PROVE IdStays
    BY <1>2 DEF Admitted, Running
<1>3. ASSUME UNCHANGED replies PROVE QueueStays(q)
    BY <1>3 DEF QueueStays
<1>4. ASSUME NEW p \in Clients, StartClient(p) PROVE QueueStays(q) /\ IdStays
    <2>1. ~Running(p) /\ UNCHANGED <<replies, peer>>
          /\ \E t \in FreshTempIds : identity' = [identity EXCEPT ![p] = t]
        BY <1>4 DEF StartClient, Start
    <2> QED
        BY <1>1, <1>3, <2>1 DEF Admitted, Running, WireTypeOK
<1>5. ASSUME NEW p \in Clients, AcceptConnection(p) PROVE QueueStays(q) /\ IdStays
    BY <1>1, <1>3, <1>5 DEF AcceptConnection, Accept, Admitted, Running, WireTypeOK
<1>6. ASSUME NEW p \in Clients, UseAccount(p) \/ UsePane(p) \/ UseBox(p)
      PROVE  QueueStays(q) /\ IdStays
    <2>1. UNCHANGED <<replies, identity, peer>>
        BY <1>6 DEF UseAccount, SwitchPage, RequestRegister,
            RequestAuthorize, RequestLogout, RequestChangeIdentity, UsePane, RequestToCreateChat,
            PopUp, SelectChat, SendText, SendLine, UseBox, FetchAllNotifications, OnClick,
            AnswerInvite, Answer, AnswerOrphan, SendRequest, wireVars
    <2> QED
        BY <1>2, <1>3, <2>1
<1>7. ASSUME NEW p \in Clients, Receive(p)
      PROVE  Renamed(q) \/ ((QueueStays(q) \/ Receipt(q)) /\ IdStays)
    <2>1. CASE Consume(p) /\ replies[p] # <<>>
        <3>1. replies' = [replies EXCEPT ![p] = Tail(replies[p])] /\ UNCHANGED <<identity, peer>>
            BY <2>1 DEF Consume
        <3>2. QueueStays(q) \/ Receipt(q)
            BY <1>1, <1>7, <2>1, <3>1 DEF Receipt, QueueStays, WireTypeOK
        <3> QED
            BY <1>2, <3>1, <3>2
    <2>2. ASSUME p # q, NEW id, Reconnect(p, id) PROVE QueueStays(q) /\ IdStays
        BY <1>1, <2>2 DEF Reconnect, QueueStays, Admitted, Running, WireTypeOK
    <2>3. \/ Consume(p) /\ replies[p] # <<>>
          \/ /\ ReceiveNewClientName(p) /\ Received(p).login # identity[p]
             /\ \E id : Reconnect(p, id)
        BY <1>7 DEF Receive, ReceiveRegister, ReceiveAuthorize, ReceiveAlreadyAuthorized,
            ReceiveNotAuthorized, ReceiveNewClientName, ReceiveNewChat, ReceiveCreateChat,
            ReceiveNotifications, ReceiveClientChats, ReceiveIncomingMessage, Receives
    <2>4. ASSUME ReceiveNewClientName(p), Received(p).login # identity[p],
                 \E id : Reconnect(p, id)
          PROVE  Renamed(q) \/ ((QueueStays(q) \/ Receipt(q)) /\ IdStays)
        <3>1. CASE p = q
            <4>1. Reconnect(p, Received(p).login) /\ Receives(p, "NewClientName") /\ UNCHANGED page
                BY <2>4 DEF ReceiveNewClientName
            <4>2. identity'[p] = Received(p).login /\ replies'[p] = <<>>
                BY <1>1, <4>1 DEF Reconnect, WireTypeOK
            <4>3. UNCHANGED sessions
                BY <1>7 DEF Receive, serverVars, tableVars, accountVars
            <4> QED
                BY <2>4, <3>1, <4>1, <4>2, <4>3 DEF Renamed, Receives, Received
        <3>2. CASE p # q
            BY <2>2, <2>4, <3>2
        <3> QED
            BY <3>1, <3>2
    <2> QED
        BY <2>1, <2>3, <2>4
<1>8. CASE RunServer
    BY <1>1, <1>2, <1>8, CalmServer DEF RunServer
<1>9. CASE UNCHANGED vars
    BY <1>2, <1>3, <1>9 DEF vars, wireVars
<1> QED
    BY <1>4, <1>5, <1>6, <1>7, <1>8, <1>9 DEF Next, Calm

=============================================================================
