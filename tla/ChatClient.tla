----------------------------- MODULE ChatClient -----------------------------
(***************************************************************************)
(* A client process (Client/client.cpp) and the pages of its window        *)
(* (Client/ui/chat_ui.cpp): its routing id, the conf.json it reads and     *)
(* writes, its requests and what it does with the answers about accounts.  *)
(*                                                                         *)
(* Taking a message from the socket, the hand-over to the window and what  *)
(* both threads do with it are one step here: the messages of a client     *)
(* stay in order all the way.                                              *)
(***************************************************************************)
EXTENDS ChatWire

VARIABLES
    config,   \* config[p]: identity and session_id in p's conf.json, which outlives p
    page,     \* page[p]: the page p's window shows
    chatId    \* chatId[p]: _chatId, the chat p entered last, for the console

clientVars == <<config, page, chatId>>

ClientTypeOK ==
    /\ config \in [Clients -> [identity : Logins \cup {NoId}, session : Nat]]
    /\ page   \in [Clients -> {"login", "register", "main"}]
    /\ chatId \in [Clients -> Int]

-----------------------------------------------------------------------------
\* The session id of a request is read from the file when the request is sent.
SendRequest(p, body) ==
    /\ Running(p)
    /\ Post(p, config[p].session, body)
    /\ UNCHANGED <<replies, identity, peer>>

Receives(p, kind) ==
    /\ Running(p) /\ replies[p] # <<>>
    /\ Head(replies[p]).kind = kind

Received(p) == Head(replies[p])

Consume(p) ==
    /\ replies' = [replies EXCEPT ![p] = Tail(@)]
    /\ UNCHANGED <<requests, identity, peer>>

Show(p, pg) == page' = [page EXCEPT ![p] = pg]

-----------------------------------------------------------------------------
(***************************************************************************)
(* The process: it starts under a temporary id and asks for the identity   *)
(* in its file, or for self, the one on its command line.                  *)
(***************************************************************************)
Start(p, self) ==
    /\ ~Running(p)
    /\ \E t \in FreshTempIds :
        /\ identity' = [identity EXCEPT ![p] = t]
        /\ requests' = [requests EXCEPT ![p] = Append(@,
             [from |-> t, session |-> config[p].session, sent |-> FALSE,
              body |-> [kind  |-> "Connect",
                        login |-> IF config[p].identity = NoId THEN self
                                                               ELSE config[p].identity]])]
    /\ UNCHANGED <<replies, peer, clientVars>>

CloseClient(p) ==
    /\ Running(p)
    /\ Reconnect(p, NoId)
    /\ Show(p, "login")
    /\ chatId' = [chatId EXCEPT ![p] = -1]
    /\ UNCHANGED config

(***************************************************************************)
(* What the user asks for.  The name can be changed from the console too.  *)
(***************************************************************************)
SwitchPage(p) ==
    /\ Running(p) /\ page[p] # "main"
    /\ Show(p, IF page[p] = "login" THEN "register" ELSE "login")
    /\ UNCHANGED <<wireVars, config, chatId>>

RequestRegister(p, login, valid) ==
    /\ page[p] = "register"
    /\ SendRequest(p, [kind |-> "Register", login |-> login, valid |-> valid])
    /\ UNCHANGED clientVars

RequestAuthorize(p, login, valid) ==
    /\ page[p] = "login"
    /\ SendRequest(p, [kind |-> "Authorize", login |-> login, valid |-> valid])
    /\ UNCHANGED clientVars

RequestLogout(p) ==
    /\ page[p] = "main"
    /\ SendRequest(p, [kind |-> "Logout"])
    /\ UNCHANGED clientVars

RequestChangeIdentity(p, login) ==
    /\ SendRequest(p, [kind |-> "ChangeName", login |-> login])
    /\ UNCHANGED clientVars

(***************************************************************************)
(* What the receiver thread and the window do with the answers.            *)
(***************************************************************************)
ReceiveRegister(p) ==
    /\ Receives(p, "Register")
    /\ Show(p, IF Received(p).registered THEN "login" ELSE "register")
    /\ Consume(p)
    /\ UNCHANGED <<config, chatId>>

ReceiveAuthorize(p) ==
    /\ Receives(p, "Authorize")
    /\ IF Received(p).session # 0
       THEN /\ Show(p, "main")
            /\ config' = [config EXCEPT ![p].session = Received(p).session]
       ELSE /\ Show(p, "login")
            /\ UNCHANGED config
    /\ Consume(p)
    /\ UNCHANGED chatId

ReceiveAlreadyAuthorized(p) ==
    /\ Receives(p, "AlreadyAuthorized")
    /\ Show(p, "main")
    /\ Consume(p)
    /\ UNCHANGED <<config, chatId>>

ReceiveNotAuthorized(p) ==
    /\ Receives(p, "NotAuthorized")
    /\ Show(p, "login")
    /\ Consume(p)
    /\ UNCHANGED <<config, chatId>>

\* Fault: the connection stays as it is.
RenameInFileOnly(p) ==
    /\ Receives(p, "NewClientName")
    /\ config' = [config EXCEPT ![p].identity = Received(p).login]
    /\ Consume(p)
    /\ UNCHANGED <<page, chatId>>

\* ChangeIdentity: a new id is a new connection; what is under way is lost.
ReceiveNewClientName(p) ==
    /\ Receives(p, "NewClientName")
    /\ LET login == Received(p).login IN
        IF identity[p] # login
        THEN /\ config' = [config EXCEPT ![p].identity = login]
             /\ Reconnect(p, login)
        ELSE /\ Consume(p)
             /\ UNCHANGED config
    /\ UNCHANGED <<page, chatId>>

ReceiveNewChat(p) ==
    /\ Receives(p, "NewChat")
    /\ chatId' = [chatId EXCEPT ![p] = Received(p).chat]
    /\ Consume(p)
    /\ UNCHANGED <<config, page>>

\* Client p is logged in as who[p] with session sid[p], or has never run (NoId).
ClientInit(who, sid) ==
    /\ config = [p \in Clients |-> [identity |-> who[p],
                                    session  |-> IF who[p] = NoId THEN 0 ELSE sid[p]]]
    /\ page   = [p \in Clients |-> IF who[p] = NoId THEN "login" ELSE "main"]
    /\ chatId = [p \in Clients |-> -1]
=============================================================================
