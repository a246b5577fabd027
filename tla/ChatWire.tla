------------------------------ MODULE ChatWire ------------------------------
(***************************************************************************)
(* The link between the clients' DEALER sockets and the ROUTER socket of   *)
(* the server, as the code uses it (libzmq itself is external).            *)
(*                                                                         *)
(* A client process has one device id, kept in its conf.json, so a process *)
(* and its device are the same element of Clients.  The ROUTER knows the   *)
(* connection of a process by the routing id the DEALER had when it        *)
(* connected: a temporary id at first, the login of the user afterwards.   *)
(* A message to an id that no admitted connection holds is dropped, and a  *)
(* connection whose id is already held is not admitted.                    *)
(***************************************************************************)
EXTENDS Integers, Sequences, FiniteSets

CONSTANTS
    Clients,   \* client processes, each on a device of its own
    Logins,    \* the names users register, type and are known by
    TempIds,   \* routing ids drawn at random when a client starts
    NoId       \* no routing id: the process is not running, nobody is admitted

ASSUME IdsAssumption == Logins \cap TempIds = {} /\ NoId \notin Logins \cup TempIds

Ids == Logins \cup TempIds

VARIABLES
    requests,  \* requests[p]: requests of p that the server has not read yet
    replies,   \* replies[p]: messages for p that its receiver has not read yet
    identity,  \* identity[p]: the routing id of p's socket
    peer       \* peer[p]: the id under which the ROUTER has admitted p

wireVars == <<requests, replies, identity, peer>>

(***************************************************************************)
(* What travels: every request carries the session id read from conf.json, *)
(* the session 0 standing for none.  "sent" marks a request transmitted by *)
(* a connection that has been closed since.                                *)
(***************************************************************************)
RequestBodies ==
         [kind : {"Connect", "ChangeName"}, login : Logins]
    \cup [kind : {"Register", "Authorize"}, login : Logins, valid : BOOLEAN]
    \cup [kind : {"Logout", "ClientChats", "Notifications"}]
    \cup [kind : {"SendMessage"}, chat : Int]
    \cup [kind : {"CreateChat"}, invited : SUBSET Logins]
    \cup [kind : {"AcceptCreateChat", "DeclineCreateChat"}, nid : Nat, chat : Nat]

Requests == [from : Ids, session : Nat, sent : BOOLEAN, body : RequestBodies]

Invites == [nid : Nat, author : Logins, chat : Nat]

Replies ==
         [kind : {"AlreadyAuthorized", "NotAuthorized"}]
    \cup [kind : {"NewClientName"}, login : Logins]
    \cup [kind : {"Register"}, registered : BOOLEAN]
    \cup [kind : {"Authorize"}, session : Nat]
    \cup [kind : {"NewChat"}, chat : Nat]
    \cup [kind : {"ClientChats"}, chats : SUBSET Nat]
    \cup [kind : {"CreateChat"}, invite : Invites]
    \cup [kind : {"Notifications"}, invites : {I \in SUBSET Invites : IsFiniteSet(I)}]
    \cup [kind : {"IncomingMessage"}, author : Logins, chat : Int, id : Nat]

WireTypeOK ==
    /\ requests \in [Clients -> Seq(Requests)]
    /\ replies  \in [Clients -> Seq(Replies)]
    /\ identity \in [Clients -> Ids \cup {NoId}]
    /\ peer     \in [Clients -> Ids \cup {NoId}]

-----------------------------------------------------------------------------
Running(p)  == identity[p] # NoId
Admitted(p) == Running(p) /\ peer[p] = identity[p]

\* Client::SendRequest: the request joins the outgoing pipe of p's connection.
Post(p, session, body) ==
    requests' = [requests EXCEPT ![p] = Append(@,
        [from |-> identity[p], session |-> session, sent |-> FALSE, body |-> body])]

\* Server::MessageDispatch: ms, in order, for whoever is admitted under ids.
Dispatch(ids, ms) ==
    replies' = [p \in Clients |-> IF peer[p] \in ids THEN replies[p] \o ms ELSE replies[p]]

\* The server can read a request of p: an admitted connection carries it, or
\* one that is closed by now had transmitted it.
Readable(p) ==
    /\ requests[p] # <<>>
    /\ Head(requests[p]).sent \/ Admitted(p)

\* The ROUTER learns the id of p's connection, unless another connection has it:
\* one that is admitted, or one that is closed but has not been read to its end.
Accept(p) ==
    /\ Running(p)
    /\ \A q \in Clients :
        /\ peer[q] # identity[p]
        /\ \A i \in DOMAIN requests[q] : requests[q][i].sent => requests[q][i].from # identity[p]
    /\ peer' = [peer EXCEPT ![p] = identity[p]]
    /\ UNCHANGED <<requests, replies, identity>>

-----------------------------------------------------------------------------
\* How many requests of p were transmitted by connections already closed.
Stale(p) == Cardinality({i \in DOMAIN requests[p] : requests[p][i].sent})

\* What is left of p's requests when its connection closes with linger 0: those
\* transmitted by then, a prefix of the pipe if the connection was admitted.
Transmitted(p) ==
    { [i \in 1 .. n |-> [requests[p][i] EXCEPT !.sent = TRUE]] :
        n \in Stale(p) .. (IF Admitted(p) THEN Len(requests[p]) ELSE Stale(p)) }

\* Fault: the new connection goes on with the messages for the old one.
ReconnectKeepingReplies(p, id) ==
    /\ \E left \in Transmitted(p) : requests' = [requests EXCEPT ![p] = left]
    /\ identity' = [identity EXCEPT ![p] = id]
    /\ peer'     = [peer     EXCEPT ![p] = NoId]
    /\ UNCHANGED replies

\* p's socket closes its connection and goes on as id (NoId: it is gone).
Reconnect(p, id) ==
    /\ \E left \in Transmitted(p) : requests' = [requests EXCEPT ![p] = left]
    /\ replies'  = [replies  EXCEPT ![p] = <<>>]
    /\ identity' = [identity EXCEPT ![p] = id]
    /\ peer'     = [peer     EXCEPT ![p] = NoId]

\* A temporary id nothing refers to any more (36 random characters).
FreshTempIds ==
    { t \in TempIds : \A p \in Clients :
        /\ identity[p] # t /\ peer[p] # t
        /\ \A i \in DOMAIN requests[p] : requests[p][i].from # t }

-----------------------------------------------------------------------------
\* What may be left of the unread requests q of one client when the server goes
\* down: requests in its memory or on their way to it are lost, which includes
\* all those of closed connections; the rest waits for the next connection.
Resendable(q) ==
    { SubSeq(q, n, Len(q)) : n \in {m \in 1 .. Len(q) + 1 :
        \A i \in m .. Len(q) : ~q[i].sent} }

\* What may be left of messages on their way from the server when it goes down.
Arrived(q) == { SubSeq(q, 1, n) : n \in 0 .. Len(q) }

\* All connections break because the server goes down; unread is what clients
\* had in their pipes at that moment.
BreakConnections(unread) ==
    /\ requests' \in { f \in [Clients -> UNION {Resendable(unread[p]) : p \in Clients}] :
                         \A p \in Clients : f[p] \in Resendable(unread[p]) }
    /\ replies'  \in { f \in [Clients -> UNION {Arrived(replies[p]) : p \in Clients}] :
                         \A p \in Clients : f[p] \in Arrived(replies[p]) }
    /\ peer' = [p \in Clients |-> NoId]
    /\ UNCHANGED identity

WireInit(ids) ==
    /\ requests = [p \in Clients |-> <<>>]
    /\ replies  = [p \in Clients |-> <<>>]
    /\ identity = ids
    /\ peer     = ids
=============================================================================
