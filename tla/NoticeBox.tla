----------------------------- MODULE NoticeBox ------------------------------
(***************************************************************************)
(* The box of pending invitations (Client/ui/notice_box.cpp), its entries  *)
(* (Client/ui/chat_invite.cpp) and the answer that leaves the client       *)
(* (Client::ReplyChatInvite).                                              *)
(*                                                                         *)
(* A click on an entry opens a window that asks "yes or no"; it does not   *)
(* block, so an entry may have several.  Such a window outlives its entry: *)
(* when the list is refilled, or another window of the same entry is       *)
(* answered, the entry is deleted and the window refers to freed memory.   *)
(***************************************************************************)
EXTENDS ChatClient, SequencesExt

CONSTANT MaxWindows   \* bound: open windows on entries of one client

ASSUME MaxWindowsAssumption == MaxWindows \in Nat

VARIABLES
    notices,   \* notices[p]: the entries, each with the number of windows open on it
    orphans    \* orphans[p]: how many open windows have lost their entry

boxVars == <<notices, orphans>>

Entries == [nid : Nat, author : Logins, chat : Nat, open : 0 .. MaxWindows]

BoxTypeOK ==
    /\ notices \in [Clients -> Seq(Entries)]
    /\ orphans \in [Clients -> Nat]

Entry(invite) ==
    [nid |-> invite.nid, author |-> invite.author, chat |-> invite.chat, open |-> 0]

\* The windows open on the entries of p.
Windows(p) ==
    Cardinality({w \in (DOMAIN notices[p]) \X (1 .. MaxWindows) : w[2] <= notices[p][w[1]].open})

-----------------------------------------------------------------------------
\* ProcessNotification: a live invitation is appended.
ReceiveCreateChat(p) ==
    /\ Receives(p, "CreateChat")
    /\ notices' = [notices EXCEPT ![p] = Append(@, Entry(Received(p).invite))]
    /\ Consume(p)
    /\ UNCHANGED <<clientVars, orphans>>

\* Fault: the list is not cleared.
ReceiveMoreNotifications(p) ==
    /\ Receives(p, "Notifications")
    /\ notices' = [notices EXCEPT ![p] = @ \o SetToSeq({Entry(i) : i \in Received(p).invites})]
    /\ Consume(p)
    /\ UNCHANGED <<clientVars, orphans>>

\* ProcessAllNotifications: the list is cleared and filled from the answer.
ReceiveNotifications(p) ==
    /\ Receives(p, "Notifications")
    /\ notices' = [notices EXCEPT ![p] = SetToSeq({Entry(i) : i \in Received(p).invites})]
    /\ orphans' = [orphans EXCEPT ![p] = @ + Windows(p)]
    /\ Consume(p)
    /\ UNCHANGED clientVars

\* The button "Update".
FetchAllNotifications(p) ==
    /\ page[p] = "main"
    /\ SendRequest(p, [kind |-> "Notifications"])
    /\ UNCHANGED <<clientVars, boxVars>>

OnClick(p, i) ==
    /\ Running(p) /\ page[p] = "main"
    /\ i \in DOMAIN notices[p]
    /\ Windows(p) < MaxWindows
    /\ notices' = [notices EXCEPT ![p][i].open = @ + 1]
    /\ UNCHANGED <<wireVars, clientVars, orphans>>

\* A button of a window of entry i: ReplyChatInvite, then the entry goes.
Answer(p, i, accept) ==
    /\ i \in DOMAIN notices[p]
    /\ LET e == notices[p][i] IN
        /\ e.open > 0
        /\ SendRequest(p, [kind |-> IF accept THEN "AcceptCreateChat" ELSE "DeclineCreateChat",
                           nid |-> e.nid, chat |-> e.chat])
        /\ orphans' = [orphans EXCEPT ![p] = @ + e.open - 1]
    /\ notices' = [notices EXCEPT ![p] = RemoveAt(@, i)]
    /\ UNCHANGED clientVars

\* Fault: a window closes that was never open.
AnswerNoWindow(p) ==
    /\ Running(p)
    /\ orphans' = [orphans EXCEPT ![p] = @ - 1]
    /\ UNCHANGED <<wireVars, clientVars, notices>>

\* A button of a window that has lost its entry: undefined behaviour, of which
\* this is the harmless outcome, nothing but the window closing; the other one
\* is that the process ends.
AnswerOrphan(p) ==
    /\ Running(p) /\ orphans[p] > 0
    /\ orphans' = [orphans EXCEPT ![p] = @ - 1]
    /\ UNCHANGED <<wireVars, clientVars, notices>>

\* The box of a process that has ended.
CloseBox(p) ==
    /\ notices' = [notices EXCEPT ![p] = <<>>]
    /\ orphans' = [orphans EXCEPT ![p] = 0]

BoxInit ==
    /\ notices = [p \in Clients |-> <<>>]
    /\ orphans = [p \in Clients |-> 0]
=============================================================================
