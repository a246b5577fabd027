----------------------------- MODULE NameSearch -----------------------------
(***************************************************************************)
(* The search for users to invite: the window "Create chat"                *)
(* (Client/ui/qt_helper_window.cpp), its connections in the main window    *)
(* (ConnectSignalsCreateChat), the query of the server                     *)
(* (HandleGetClientsByName, GetClientsRegexp), and what the server makes   *)
(* of the chosen names (ParseClients).                                     *)
(*                                                                         *)
(* The user of the window is logged in and stays connected, so requests    *)
(* and answers stay in order; losing them is the matter of ChatWire.       *)
(***************************************************************************)
EXTENDS Integers, Sequences, FiniteSetsExt, SequencesExt

CONSTANTS
    Names,      \* the registered users
    Self,       \* the one whose window it is
    Texts,      \* what may be typed, a regular expression
    Empty,      \* the empty text
    Invalid,    \* the texts that are no regular expressions, "(" for one
    Matches,    \* Matches[t]: the users whose names match t
    Holds,      \* <<m, n>> if name m contains name n
    Words,      \* Words[n]: the parts of name n between its spaces
    MaxTyped, MaxConfirms  \* bounds: changes of the text, chats asked for

ASSUME SearchAssumption ==
    /\ Self \in Names
    /\ Empty \in Texts /\ Invalid \subseteq Texts \ {Empty}
    /\ Matches \in [Texts -> SUBSET Names]
    /\ \A n \in Names : <<n, n>> \in Holds
    /\ DOMAIN Words = Names
    /\ MaxTyped \in Nat /\ MaxConfirms \in Nat

VARIABLES
    visible,    \* the window is shown
    text,       \* its line
    found,      \* m_listWidget: the names in the list
    listShown,  \* and whether it is shown
    chosen,     \* m_chosenItemsListWidget
    requests,   \* requests on their way to the server
    answers,    \* answers on their way to the window
    up,         \* the server runs
    typed,      \* history: the text was changed since the window was opened
    asked,      \* history: the names chosen and the users asked, for every chat
    changes, confirms  \* changes of the text and chats asked for so far

listVars == <<found, listShown, chosen>>
countVars == <<changes, confirms>>
vars == <<visible, text, listVars, requests, answers, up, typed, asked, countVars>>

Requests == [kind : {"ClientsByName"}, text : Texts]
       \cup [kind : {"CreateChat"}, names : SUBSET Names]

SearchTypeOK ==
    /\ {visible, listShown, up, typed} \subseteq BOOLEAN
    /\ text \in Texts
    /\ found \subseteq Names
    /\ chosen \in Seq(Names)
    /\ requests \in Seq(Requests)
    /\ answers \in Seq(SUBSET Names)
    /\ asked \subseteq [chosen : SUBSET Names, users : SUBSET Names]
    /\ changes \in 0 .. MaxTyped /\ confirms \in 0 .. MaxConfirms

-----------------------------------------------------------------------------
(***************************************************************************)
(* The window.                                                             *)
(***************************************************************************)
\* The button "Create chat" of the main window.
Show ==
    /\ ~visible /\ visible' = TRUE
    /\ UNCHANGED <<text, listVars, requests, answers, up, typed, asked, countVars>>

\* Fault: an empty text is not asked for.
ChangeText(t) ==
    /\ visible /\ changes < MaxTyped
    /\ t # text /\ text' = t
    /\ requests' = IF t = Empty THEN requests
                   ELSE Append(requests, [kind |-> "ClientsByName", text |-> t])
    /\ typed' = TRUE
    /\ changes' = changes + 1
    /\ UNCHANGED <<visible, listVars, answers, up, asked, confirms>>

\* textChanged: every change of the text of a visible window is a request.
Type(t) ==
    /\ visible /\ changes < MaxTyped
    /\ t # text /\ text' = t
    /\ requests' = Append(requests, [kind |-> "ClientsByName", text |-> t])
    /\ typed' = TRUE
    /\ changes' = changes + 1
    /\ UNCHANGED <<visible, listVars, answers, up, asked, confirms>>

\* hideEvent clears the text of a window that is hidden already; the lists stay.
HideEvent ==
    /\ visible /\ visible' = FALSE
    /\ text' = Empty
    /\ typed' = FALSE

Hide ==
    /\ HideEvent
    /\ UNCHANGED <<listVars, requests, answers, up, asked, countVars>>

\* A click on a found name, which does nothing if a chosen one contains it.
Choose(n) ==
    /\ visible /\ listShown /\ n \in found
    /\ \A i \in DOMAIN chosen : <<chosen[i], n>> \notin Holds
    /\ chosen' = Append(chosen, n)
    /\ UNCHANGED <<visible, text, found, listShown, requests, answers, up, typed, asked, countVars>>

\* A click on a chosen name.
Unchoose(i) ==
    /\ visible /\ i \in DOMAIN chosen
    /\ chosen' = RemoveAt(chosen, i)
    /\ UNCHANGED <<visible, text, found, listShown, requests, answers, up, typed, asked, countVars>>

\* Confirm asks for a chat with the chosen names, joined by spaces, and hides the
\* window.
Confirm ==
    /\ HideEvent
    /\ confirms < MaxConfirms /\ confirms' = confirms + 1
    /\ requests' = Append(requests, [kind |-> "CreateChat", names |-> ToSet(chosen)])
    /\ UNCHANGED <<listVars, answers, up, asked, changes>>

\* Fault: no list comes up with an empty answer, but the old one stays.
ShowAnswer ==
    /\ answers # <<>> /\ answers' = Tail(answers)
    /\ IF Head(answers) = {}
       THEN UNCHANGED <<found, listShown>>
       ELSE found' = Head(answers) /\ listShown' = TRUE
    /\ UNCHANGED <<visible, text, chosen, requests, up, typed, asked, countVars>>

\* AddItems puts names in the place of what is in the list; ShowClientList.
Fill(names) == found' = names /\ listShown' = TRUE

\* An empty answer hides the list, any other one fills and shows it.
ReceiveClientsByName ==
    /\ answers # <<>> /\ answers' = Tail(answers)
    /\ IF Head(answers) = {}
       THEN listShown' = FALSE /\ UNCHANGED found
       ELSE Fill(Head(answers))
    /\ UNCHANGED <<visible, text, chosen, requests, up, typed, asked, countVars>>

-----------------------------------------------------------------------------
(***************************************************************************)
(* The server.                                                             *)
(***************************************************************************)
GetClientsRegexp(t) == IF t = Empty THEN {} ELSE Matches[t] \ {Self}

\* Fault: spaces do not part names.
ParseNames(names) == names \ {Self}

\* The names are one string, which is split at spaces.
ParseClients(names) == (UNION {Words[n] : n \in names}) \ {Self}

\* An invalid expression is an exception of the database that nobody catches.
HandleGetClientsByName ==
    /\ up /\ requests # <<>> /\ Head(requests).kind = "ClientsByName"
    /\ LET t == Head(requests).text IN
        IF t \in Invalid
        THEN up' = FALSE /\ UNCHANGED answers
        ELSE answers' = Append(answers, GetClientsRegexp(t)) /\ UNCHANGED up
    /\ requests' = Tail(requests)
    /\ UNCHANGED <<visible, text, listVars, typed, asked, countVars>>

\* Fault: users are asked whether they exist or not.
AskAnyone ==
    /\ up /\ requests # <<>> /\ Head(requests).kind = "CreateChat"
    /\ asked' = asked \cup {[chosen |-> Head(requests).names,
                             users  |-> ParseClients(Head(requests).names)]}
    /\ requests' = Tail(requests)
    /\ UNCHANGED <<visible, text, listVars, answers, up, typed, countVars>>

\* PrepareNewChatSession as far as the names go: AskClients asks those that exist.
AskChosen ==
    /\ up /\ requests # <<>> /\ Head(requests).kind = "CreateChat"
    /\ asked' = asked \cup {[chosen |-> Head(requests).names,
                             users  |-> ParseClients(Head(requests).names) \cap Names]}
    /\ requests' = Tail(requests)
    /\ UNCHANGED <<visible, text, listVars, answers, up, typed, countVars>>

-----------------------------------------------------------------------------
ServerStep == HandleGetClientsByName \/ AskChosen

UserStep ==
    \/ Show \/ Hide \/ Confirm
    \/ \E t \in Texts : Type(t)
    \/ \E n \in Names : Choose(n)
    \/ \E i \in DOMAIN chosen : Unchoose(i)

Next == ServerStep \/ ReceiveClientsByName \/ UserStep

Init ==
    /\ visible = FALSE /\ text = Empty /\ typed = FALSE
    /\ found = {} /\ listShown = FALSE /\ chosen = <<>>
    /\ requests = <<>> /\ answers = <<>> /\ up = TRUE
    /\ asked = {} /\ changes = 0 /\ confirms = 0

Spec == Init /\ [][Next]_vars

\* The server's loop and the client's threads run on.
FairSpec == Spec /\ WF_vars(ServerStep) /\ WF_vars(ReceiveClientsByName)

-----------------------------------------------------------------------------
(***************************************************************************)
(* Properties.                                                             *)
(***************************************************************************)
\* The list is what the text asks for.
ListIsFor(t) ==
    IF GetClientsRegexp(t) = {} THEN ~listShown ELSE listShown /\ found = GetClientsRegexp(t)

\* However fast the user types, deletes and opens the window again, the list ends
\* up with the answer to the text in the line: answers to earlier texts, those from
\* before the window was hidden included, are overtaken by the last one.
ListAnswersText ==
    visible /\ typed /\ up /\ requests = <<>> /\ answers = <<>> => ListIsFor(text)

\* Every chosen name without a space that is not one's own is asked, and nobody is
\* asked whose name is not a part of a chosen one.
AskedWereChosen ==
    \A a \in asked :
        /\ \A n \in a.chosen \ {Self} : Words[n] = {n} => n \in a.users
        /\ \A u \in a.users : \E n \in a.chosen : u \in Words[n]

\* The list comes up for a text that stays in the line, unless the server was
\* brought down by an expression it cannot read.
SearchSettles ==
    \A t \in Texts :
        (visible /\ typed /\ text = t)
            ~> ~visible \/ text # t \/ ListIsFor(t) \/ ~up
=============================================================================
