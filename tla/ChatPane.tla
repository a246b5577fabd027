------------------------------ MODULE ChatPane ------------------------------
(***************************************************************************)
(* The list of chats and the text of the one that is selected              *)
(* (Client/ui/chat_ui.cpp, Client/ui/chat_text_frame.cpp), with the        *)
(* console of Client/main.cpp, which writes to the chat entered last.      *)
(***************************************************************************)
EXTENDS ChatClient

VARIABLES
    combo,      \* combo[p]: the chats offered besides "No chat"
    selected,   \* selected[p]: the chat the combo box shows; -1 is "No chat"
    current,    \* current[p]: _currentChat of the text frame, -1 at first
    shown       \* shown[p]: the messages in the text frame, oldest first

paneVars == <<combo, selected, current, shown>>

Messages == [author : Logins, chat : Int, id : Nat]

PaneTypeOK ==
    /\ combo    \in [Clients -> SUBSET Nat]
    /\ selected \in [Clients -> Int]
    /\ current  \in [Clients -> Int]
    /\ shown    \in [Clients -> Seq(Messages)]

-----------------------------------------------------------------------------
\* Opening the list asks for the chats of the user ...
PopUp(p) ==
    /\ page[p] = "main"
    /\ SendRequest(p, [kind |-> "ClientChats"])
    /\ UNCHANGED <<clientVars, paneVars>>

\* ... and the answer adds those that are not in it; none is ever removed.
ReceiveClientChats(p) ==
    /\ Receives(p, "ClientChats")
    /\ combo' = [combo EXCEPT ![p] = @ \cup Received(p).chats]
    /\ Consume(p)
    /\ UNCHANGED <<clientVars, selected, current, shown>>

\* "No chat" hides the text frame, which stays on its chat; a chat empties it.
SelectChat(p, c) ==
    /\ Running(p) /\ page[p] = "main"
    /\ c \in combo[p] \cup {-1} /\ c # selected[p]
    /\ selected' = [selected EXCEPT ![p] = c]
    /\ IF c = -1
       THEN UNCHANGED <<current, shown>>
       ELSE /\ current' = [current EXCEPT ![p] = c]
            /\ shown' = [shown EXCEPT ![p] = <<>>]
    /\ UNCHANGED <<wireVars, clientVars, combo>>

\* Fault: with "No chat" in the list, messages of the frame's chat are forgotten.
ReceiveSelectedMessage(p) ==
    /\ Receives(p, "IncomingMessage")
    /\ LET m == Received(p) IN
        shown' = IF m.chat = selected[p]
                 THEN [shown EXCEPT ![p] = Append(@,
                          [author |-> m.author, chat |-> m.chat, id |-> m.id])]
                 ELSE shown
    /\ Consume(p)
    /\ UNCHANGED <<clientVars, combo, selected, current>>

\* A message of any other chat than the current one is forgotten.
ReceiveIncomingMessage(p) ==
    /\ Receives(p, "IncomingMessage")
    /\ LET m == Received(p) IN
        shown' = IF m.chat = current[p]
                 THEN [shown EXCEPT ![p] = Append(@,
                          [author |-> m.author, chat |-> m.chat, id |-> m.id])]
                 ELSE shown
    /\ Consume(p)
    /\ UNCHANGED <<clientVars, combo, selected, current>>

\* Return in the text bar, which is there when a chat is selected.
SendText(p) ==
    /\ page[p] = "main" /\ selected[p] # -1
    /\ SendRequest(p, [kind |-> "SendMessage", chat |-> current[p]])
    /\ UNCHANGED <<clientVars, paneVars>>

\* A line typed at the console.
SendLine(p) ==
    /\ SendRequest(p, [kind |-> "SendMessage", chat |-> chatId[p]])
    /\ UNCHANGED <<clientVars, paneVars>>

\* The button of the window "Create chat", or /connect: at the console.
RequestToCreateChat(p, invited) ==
    /\ SendRequest(p, [kind |-> "CreateChat", invited |-> invited])
    /\ UNCHANGED <<clientVars, paneVars>>

\* What is left to search, from a first to a last index, which may be one before it.
SearchRanges(ids) == (0 .. Len(ids)) \X (-1 .. Len(ids) - 1)

\* Fault: the search ends one step too early.
ShortSearch(ids, id) ==
    LET index[range \in SearchRanges(ids)] ==
            LET left   == range[1]
                right  == range[2]
                middle == (left + right) \div 2
            IN  IF left >= right THEN 0 ELSE
                CASE id < ids[middle + 1] -> index[<<left, middle - 1>>]
                  [] id > ids[middle + 1] -> index[<<middle + 1, right>>]
                  [] id = ids[middle + 1] -> middle
    IN  index[<<0, Len(ids) - 1>>]

\* The index at which RemoveMessage takes the item out of a frame that shows the
\* messages ids: a binary search, which gives the first item for an id it does not
\* find.  (Nothing in the program calls it yet.)
RemovedIndex(ids, id) ==
    LET index[range \in SearchRanges(ids)] ==
            LET left   == range[1]
                right  == range[2]
                middle == (left + right) \div 2
            IN  IF left > right THEN 0 ELSE
                CASE id < ids[middle + 1] -> index[<<left, middle - 1>>]
                  [] id > ids[middle + 1] -> index[<<middle + 1, right>>]
                  [] id = ids[middle + 1] -> middle
    IN  index[<<0, Len(ids) - 1>>]

ClosePane(p) ==
    /\ combo'    = [combo    EXCEPT ![p] = {}]
    /\ selected' = [selected EXCEPT ![p] = -1]
    /\ current'  = [current  EXCEPT ![p] = -1]
    /\ shown'    = [shown    EXCEPT ![p] = <<>>]

PaneInit ==
    /\ combo    = [p \in Clients |-> {}]
    /\ selected = [p \in Clients |-> -1]
    /\ current  = [p \in Clients |-> -1]
    /\ shown    = [p \in Clients |-> <<>>]
=============================================================================
