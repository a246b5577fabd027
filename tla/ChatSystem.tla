----------------------------- MODULE ChatSystem -----------------------------
(***************************************************************************)
(* The whole system: one server and its database, client processes with    *)
(* their windows, and the sockets between them.                            *)
(*                                                                         *)
(* What users and failures may do is bounded by Limit: Limit[k] steps of   *)
(* kind k in a behaviour.  Answers to requests are not bounded, they come  *)
(* as often as the code sends them.                                        *)
(***************************************************************************)
EXTENDS ChatServer, NoticeBox, ChatPane

CONSTANTS
    Registered,  \* the users registered at first
    LoggedIn,    \* LoggedIn[p]: the user logged in on p at first (NoId: p is not running)
    Session,     \* Session[p]: the id of that session
    Drawn,       \* how many session ids had been given out by then
    InviteSets,  \* the sets of names a user may ask a new chat for
    Limit        \* bound: how many steps of each kind users and failures take

Kinds == {"start", "quit", "crash", "halt", "page", "register", "authorize", "logout",
          "changeName", "create", "update", "popup", "select", "send", "line"}

ASSUME SystemAssumption ==
    /\ Registered \subseteq Logins
    /\ LoggedIn \in [Clients -> Registered \cup {NoId}]
    /\ Drawn \in Nat
    /\ Session \in [Clients -> 1 .. Drawn]
    /\ \A p, q \in Clients :
        p # q => Session[p] # Session[q] /\ (LoggedIn[p] # LoggedIn[q] \/ LoggedIn[p] = NoId)
    /\ InviteSets \subseteq SUBSET Logins
    /\ Limit \in [Kinds -> Nat]

VARIABLES
    spent,      \* steps taken of each kind
    answers,    \* history: the invitations answered by users
    granted     \* history: the sessions there have been

systemVars == <<spent, answers, granted>>
vars == <<wireVars, serverVars, clientVars, boxVars, paneVars, systemVars>>

Answers == [user : Ids, nid : Nat, chat : Nat, yes : BOOLEAN]

TypeOK ==
    /\ WireTypeOK /\ ServerTypeOK /\ ClientTypeOK /\ BoxTypeOK /\ PaneTypeOK
    /\ spent \in [Kinds -> Nat]
    /\ answers \subseteq Answers
    /\ granted \subseteq [user : Logins, device : Clients, id : Nat]

Spend(kind) ==
    /\ spent[kind] < Limit[kind]
    /\ spent' = [spent EXCEPT ![kind] = @ + 1]
    /\ UNCHANGED <<answers, granted>>

-----------------------------------------------------------------------------
(***************************************************************************)
(* Processes.  A process that ends takes its window and its socket along.  *)
(***************************************************************************)
StartClient(p) ==
    /\ \E self \in Logins : Start(p, self)
    /\ Spend("start")
    /\ UNCHANGED <<serverVars, boxVars, paneVars>>

EndClient(p) ==
    /\ CloseClient(p) /\ CloseBox(p) /\ ClosePane(p)
    /\ UNCHANGED serverVars

QuitClient(p) == EndClient(p) /\ Spend("quit")

\* The other outcome of a button of a window that has lost its entry.
OrphanCrash(p) == orphans[p] > 0 /\ EndClient(p) /\ Spend("crash")

AcceptConnection(p) ==
    /\ up /\ Accept(p)
    /\ UNCHANGED <<serverVars, clientVars, boxVars, paneVars, systemVars>>

HaltServer ==
    /\ Halt /\ Spend("halt")
    /\ UNCHANGED <<clientVars, boxVars, paneVars>>

RestartServer ==
    /\ Restart
    /\ UNCHANGED <<clientVars, boxVars, paneVars, systemVars>>

RunServer ==
    /\ ServerStep
    /\ granted' = granted \cup sessions'
    /\ UNCHANGED <<clientVars, boxVars, paneVars, spent, answers>>

(***************************************************************************)
(* What the users do.                                                      *)
(***************************************************************************)
UseAccount(p) ==
    /\ \/ SwitchPage(p) /\ Spend("page")
       \/ \E u \in Logins, valid \in BOOLEAN : RequestRegister(p, u, valid) /\ Spend("register")
       \/ \E u \in Logins, valid \in BOOLEAN : RequestAuthorize(p, u, valid) /\ Spend("authorize")
       \/ RequestLogout(p) /\ Spend("logout")
       \/ \E u \in Logins : RequestChangeIdentity(p, u) /\ Spend("changeName")
    /\ UNCHANGED <<serverVars, boxVars, paneVars>>

UsePane(p) ==
    /\ \/ \E invited \in InviteSets : RequestToCreateChat(p, invited) /\ Spend("create")
       \/ PopUp(p) /\ Spend("popup")
       \/ \E c \in combo[p] \cup {-1} : SelectChat(p, c) /\ Spend("select")
       \/ SendText(p) /\ Spend("send")
       \/ SendLine(p) /\ Spend("line")
    /\ UNCHANGED <<serverVars, boxVars>>

AnswerInvite(p, i, accept) ==
    /\ Answer(p, i, accept)
    /\ answers' = answers \cup {[user |-> identity[p], nid |-> notices[p][i].nid,
                                 chat |-> notices[p][i].chat, yes |-> accept]}
    /\ UNCHANGED <<spent, granted>>

UseBox(p) ==
    /\ \/ FetchAllNotifications(p) /\ Spend("update")
       \/ \E i \in DOMAIN notices[p] : OnClick(p, i) /\ UNCHANGED systemVars
       \/ \E i \in DOMAIN notices[p], accept \in BOOLEAN : AnswerInvite(p, i, accept)
       \/ AnswerOrphan(p) /\ UNCHANGED systemVars
    /\ UNCHANGED <<serverVars, paneVars>>

(***************************************************************************)
(* What a client does with a message.                                      *)
(***************************************************************************)
Receive(p) ==
    /\ \/ /\ \/ ReceiveRegister(p)
             \/ ReceiveAuthorize(p)
             \/ ReceiveAlreadyAuthorized(p)
             \/ ReceiveNotAuthorized(p)
             \/ ReceiveNewClientName(p)
             \/ ReceiveNewChat(p)
          /\ UNCHANGED <<boxVars, paneVars>>
       \/ /\ ReceiveCreateChat(p) \/ ReceiveNotifications(p)
          /\ UNCHANGED paneVars
       \/ /\ ReceiveClientChats(p) \/ ReceiveIncomingMessage(p)
          /\ UNCHANGED boxVars
    /\ UNCHANGED <<serverVars, systemVars>>

-----------------------------------------------------------------------------
Next ==
    \/ \E p \in Clients :
        \/ StartClient(p)
        \/ QuitClient(p)
        \/ OrphanCrash(p)
        \/ AcceptConnection(p)
        \/ UseAccount(p)
        \/ UsePane(p)
        \/ UseBox(p)
        \/ Receive(p)
    \/ HaltServer
    \/ RestartServer
    \/ RunServer

Init ==
    /\ WireInit(LoggedIn)
    /\ ServerInit(Registered, {[user |-> LoggedIn[p], device |-> p, id |-> Session[p]] :
                                  p \in {q \in Clients : LoggedIn[q] # NoId}},
                  Drawn)
    /\ ClientInit(LoggedIn, Session)
    /\ BoxInit /\ PaneInit
    /\ spent = [k \in Kinds |-> 0]
    /\ answers = {}
    /\ granted = sessions

Spec == Init /\ [][Next]_vars
=============================================================================
