--------------------------- MODULE ClientProcess ----------------------------
(***************************************************************************)
(* The threads of one client process, from the first message to the end    *)
(* (Client/main.cpp, Client/client.cpp, Client/include/message_queue.hpp,  *)
(* Client/ui/qt_message_observer.cpp).                                     *)
(*                                                                         *)
(*   main      builds the client, the observer and the window, runs the    *)
(*             window and takes all of it down again;                      *)
(*   receiver  takes messages from the socket, hands them to the window    *)
(*             through queue and observer, and keeps conf.json;            *)
(*   console   reads lines and sends requests.                             *)
(*                                                                         *)
(* A message is its number in the order of arrival.  What the window and   *)
(* the server make of messages and requests is in the other modules.       *)
(***************************************************************************)
EXTENDS RequestFrames

CONSTANTS
    Messages,   \* bound: messages the server sends
    Saves,      \* those that make the receiver rewrite conf.json (Authorize, NewClientName)
    MaxAsked,   \* bound: requests the user makes in the window
    MaxLines    \* bound: lines the user types

ASSUME ProcessAssumption ==
    /\ Messages \in Nat /\ MaxAsked \in Nat /\ MaxLines \in Nat
    /\ Saves \subseteq 1 .. Messages
    /\ Senders = {"main", "console"}

VARIABLES
    main, receiver, console,   \* where the threads are
    taken,      \* number of messages taken from the socket
    queue,      \* the MessageQueue
    attached,   \* _messageObserver is set
    early,      \* how many messages the receiver passed by before that
    hand,       \* the message TryGetMessage gave the observer, <<>> if none
    events,     \* messages in the event queue of the window
    shown,      \* messages that have come up in the window
    lost,       \* history: messages emitted to nobody
    clientAlive, \* Client::_alive
    alive,      \* alive in main.cpp
    file,       \* conf.json: "whole", or "short" while it is being rewritten
    saved,      \* the last message whose data conf.json has; 0 at first
    line,       \* what the line read last asks for
    eof,        \* the standard input has come to its end
    asked, lines, \* requests made in the window and lines typed so far
    fault       \* how the process broke down, "none" if it did not

pipeVars == <<taken, queue, attached, early, hand, events, shown, lost>>
fileVars == <<file, saved>>
inputVars == <<line, eof, asked, lines>>
threadVars == <<main, receiver, console>>
vars == <<frameVars, threadVars, pipeVars, fileVars, inputVars, clientAlive, alive, fault>>

LineKinds == {"request", "nothing", "quit"}

MainAt == {"subscribe", "window", "console", "loop", "file", "frames",
           "join", "destroyWindow", "dropClient", "joinReceiver", "leave", "ended"}
ReceiverAt == {"recv", "notify", "update", "lock", "take", "emit", "release",
               "handle", "write", "ended"}
ConsoleAt == {"off", "loop", "read", "line", "file", "frames", "ended"}

ProcessTypeOK ==
    /\ FrameTypeOK
    /\ main \in MainAt /\ receiver \in ReceiverAt /\ console \in ConsoleAt
    /\ taken \in 0 .. Messages /\ early \in 0 .. taken /\ saved \in 0 .. taken
    /\ {queue, hand, events, shown} \subseteq Seq(1 .. taken)
    /\ Len(hand) <= 1
    /\ lost \subseteq 1 .. taken
    /\ {attached, clientAlive, alive, eof} \subseteq BOOLEAN
    /\ file \in {"whole", "short"}
    /\ line \in LineKinds
    /\ asked \in 0 .. MaxAsked /\ lines \in 0 .. MaxLines
    /\ fault \in {"none", "parse", "null", "selfJoin"}

-----------------------------------------------------------------------------
Lives == fault = "none" /\ main # "ended"

\* What main does at its place at, going on at next.
Main(at, to) == Lives /\ main = at /\ main' = to /\ UNCHANGED <<receiver, console>>
Receiver(at, to) == Lives /\ receiver = at /\ receiver' = to /\ UNCHANGED <<main, console>>
Console(at, to) == Lives /\ console = at /\ console' = to /\ UNCHANGED <<main, receiver>>

\* Main's references to the client: its own and the one of the window.  The
\* console thread has one too, but it ends before main gives up its own.
MainHolds == main \notin {"joinReceiver", "leave", "ended"}

\* The reference that lock() gave to Update.
ReceiverHolds == receiver \in {"take", "emit", "release"}

\* The window is connected to the observer.
Listening == main \notin {"subscribe", "window", "dropClient", "joinReceiver", "leave", "ended"}

\* SendRequest begins with ReadSessionID, whose parser throws on half a file.
ReadSessionID(t) ==
    IF file = "whole"
    THEN BeginRequest(t) /\ UNCHANGED fault
    ELSE fault' = "parse" /\ UNCHANGED frameVars

-----------------------------------------------------------------------------
(***************************************************************************)
(* The receiver.                                                           *)
(***************************************************************************)
Enqueue(m) == queue' = Append(queue, m)

Pop ==
    /\ queue # <<>>
    /\ hand' = <<Head(queue)>>
    /\ queue' = Tail(queue)

\* while (_alive): a message is received whole or not at all, and enqueued.
ReceiveMessage ==
    /\ Receiver("recv", "notify")
    /\ clientAlive /\ taken < Messages
    /\ taken' = taken + 1
    /\ Enqueue(taken')
    /\ UNCHANGED <<frameVars, attached, early, hand, events, shown, lost, fileVars, inputVars,
                   clientAlive, alive, fault>>

ReceiverStops ==
    /\ Receiver("recv", "ended")
    /\ ~clientAlive
    /\ UNCHANGED <<frameVars, pipeVars, fileVars, inputVars, clientAlive, alive, fault>>

\* Fault: only the messages that are not kept in conf.json are passed on.
NotifyOfOthers ==
    /\ Receiver("notify", IF attached /\ taken \notin Saves THEN "update" ELSE "handle")
    /\ early' = IF attached THEN early ELSE early + 1
    /\ UNCHANGED <<frameVars, taken, queue, attached, hand, events, shown, lost, fileVars,
                   inputVars, clientAlive, alive, fault>>

\* if (_messageObserver)
NotifyObserver ==
    /\ Receiver("notify", IF attached THEN "update" ELSE "handle")
    /\ early' = IF attached THEN early ELSE early + 1
    /\ UNCHANGED <<frameVars, taken, queue, attached, hand, events, shown, lost, fileVars,
                   inputVars, clientAlive, alive, fault>>

\* QtMessageObserver::Update, if (!_client.expired())
Update ==
    /\ Receiver("update", IF MainHolds THEN "lock" ELSE "handle")
    /\ UNCHANGED <<frameVars, pipeVars, fileVars, inputVars, clientAlive, alive, fault>>

\* _client.lock() gives no client when main let go of it since.
Lock ==
    /\ Receiver("lock", "take")
    /\ fault' = IF MainHolds THEN "none" ELSE "null"
    /\ UNCHANGED <<frameVars, pipeVars, fileVars, inputVars, clientAlive, alive>>

\* Fault: Pop takes the message that came last.
TakeNewest ==
    /\ Receiver("take", "emit")
    /\ hand' = <<queue[Len(queue)]>>
    /\ queue' = SubSeq(queue, 1, Len(queue) - 1)
    /\ UNCHANGED <<frameVars, taken, attached, early, events, shown, lost, fileVars, inputVars,
                   clientAlive, alive, fault>>

\* TryGetMessage; nobody else takes from the queue, so Pop does not wait.
TryGetMessage ==
    /\ Receiver("take", "emit")
    /\ Pop
    /\ UNCHANGED <<frameVars, taken, attached, early, events, shown, lost, fileVars, inputVars,
                   clientAlive, alive, fault>>

\* The signal becomes an event of the window if its connection is there.
Emit ==
    /\ Receiver("emit", "release")
    /\ \/ /\ Listening \/ main = "window"
          /\ events' = events \o hand
          /\ UNCHANGED lost
       \/ /\ ~Listening
          /\ lost' = lost \cup {hand[1]}
          /\ UNCHANGED events
    /\ hand' = <<>>
    /\ UNCHANGED <<frameVars, taken, queue, attached, early, shown, fileVars, inputVars,
                   clientAlive, alive, fault>>

\* The end of Update.  If this is the last reference, ~Client runs on this very
\* thread and waits for it.
Release ==
    /\ Receiver("release", "handle")
    /\ fault' = IF MainHolds THEN "none" ELSE "selfJoin"
    /\ UNCHANGED <<frameVars, pipeVars, fileVars, inputVars, clientAlive, alive>>

\* The switch on the message that was received, which need not be the one that
\* was passed on.  UpdateSessionID and UpdateClientIDConfig open the file for
\* output, which empties it, ...
HandleMessage ==
    /\ Receiver("handle", IF taken \in Saves THEN "write" ELSE "recv")
    /\ file' = IF taken \in Saves THEN "short" ELSE file
    /\ UNCHANGED <<frameVars, pipeVars, saved, inputVars, clientAlive, alive, fault>>

\* ... and write it again.
WriteFile ==
    /\ Receiver("write", "recv")
    /\ file' = "whole" /\ saved' = taken
    /\ UNCHANGED <<frameVars, pipeVars, inputVars, clientAlive, alive, fault>>
-----------------------------------------------------------------------------
(***************************************************************************)
(* The main thread: up to app.exec().  While the window is being built     *)
(* some of its connections are there and others are not.                   *)
(***************************************************************************)
Subscribe ==
    /\ Main("subscribe", "window")
    /\ attached' = TRUE
    /\ UNCHANGED <<frameVars, taken, queue, early, hand, events, shown, lost, fileVars, inputVars,
                   clientAlive, alive, fault>>

BuildWindow ==
    /\ Main("window", "console")
    /\ UNCHANGED <<frameVars, pipeVars, fileVars, inputVars, clientAlive, alive, fault>>

StartConsole ==
    /\ Lives /\ main = "console" /\ main' = "loop" /\ console' = "loop"
    /\ UNCHANGED <<frameVars, receiver, pipeVars, fileVars, inputVars, clientAlive, alive, fault>>

(***************************************************************************)
(* The event loop: messages come up, the user asks for something, or       *)
(* closes the window.                                                      *)
(***************************************************************************)
ComeUp ==
    /\ Main("loop", "loop")
    /\ events # <<>>
    /\ shown' = Append(shown, Head(events))
    /\ events' = Tail(events)
    /\ UNCHANGED <<frameVars, taken, queue, attached, early, hand, lost, fileVars, inputVars,
                   clientAlive, alive, fault>>

AskInWindow ==
    /\ Main("loop", "file")
    /\ asked < MaxAsked /\ asked' = asked + 1
    /\ UNCHANGED <<frameVars, pipeVars, fileVars, line, eof, lines, clientAlive, alive, fault>>

MainReadsFile ==
    /\ Main("file", "frames")
    /\ ReadSessionID("main")
    /\ UNCHANGED <<pipeVars, fileVars, inputVars, clientAlive, alive>>

MainSends ==
    /\ SendFrame("main")
    /\ Main("frames", IF SendsLastFrame("main") THEN "loop" ELSE "frames")
    /\ UNCHANGED <<pipeVars, fileVars, inputVars, clientAlive, alive, fault>>

CloseWindow ==
    /\ Main("loop", "join")
    /\ alive' = FALSE
    /\ UNCHANGED <<frameVars, pipeVars, fileVars, inputVars, clientAlive, fault>>

(***************************************************************************)
(* The end: aboutToQuit joins the console thread, then the locals of main  *)
(* go in the reverse order of their making.                                *)
(***************************************************************************)
JoinConsole ==
    /\ Main("join", "destroyWindow")
    /\ console = "ended"
    /\ UNCHANGED <<frameVars, pipeVars, fileVars, inputVars, clientAlive, alive, fault>>

DestroyWindow ==
    /\ Main("destroyWindow", "dropClient")
    /\ UNCHANGED <<frameVars, pipeVars, fileVars, inputVars, clientAlive, alive, fault>>

\* Unless the receiver has a reference just now, ~Client begins.
DropClient ==
    /\ Main("dropClient", IF ReceiverHolds THEN "leave" ELSE "joinReceiver")
    /\ clientAlive' = ReceiverHolds
    /\ UNCHANGED <<frameVars, pipeVars, fileVars, inputVars, alive, fault>>

\* Fault: ~Client does not wait for the receiver.
EndAtOnce ==
    /\ Main("joinReceiver", "ended")
    /\ UNCHANGED <<frameVars, pipeVars, fileVars, inputVars, clientAlive, alive, fault>>

JoinReceiver ==
    /\ Main("joinReceiver", "ended")
    /\ receiver = "ended"
    /\ UNCHANGED <<frameVars, pipeVars, fileVars, inputVars, clientAlive, alive, fault>>

\* main returns and the process ends, with the receiver still in Update.
Leave ==
    /\ Main("leave", "ended")
    /\ UNCHANGED <<frameVars, pipeVars, fileVars, inputVars, clientAlive, alive, fault>>

-----------------------------------------------------------------------------
(***************************************************************************)
(* The console thread.                                                     *)
(***************************************************************************)
\* Fault: alive is not looked at.
LoopForever ==
    /\ Console("loop", "read")
    /\ UNCHANGED <<frameVars, pipeVars, fileVars, inputVars, clientAlive, alive, fault>>

\* while (alive)
ConsoleLoop ==
    /\ Console("loop", IF alive THEN "read" ELSE "ended")
    /\ UNCHANGED <<frameVars, pipeVars, fileVars, inputVars, clientAlive, alive, fault>>

\* getline waits for a line, or for the end of the input, which may follow the
\* beginning of a line.
ReadLine ==
    /\ Console("read", "line")
    /\ ~eof
    /\ line' \in LineKinds
    /\ \/ lines < MaxLines /\ lines' = lines + 1 /\ UNCHANGED eof
       \/ eof' = TRUE /\ UNCHANGED lines
    /\ UNCHANGED <<frameVars, pipeVars, fileVars, asked, clientAlive, alive, fault>>

\* After the end getline fails at once and leaves line as it is.
ReadPastEnd ==
    /\ Console("read", "line")
    /\ eof
    /\ UNCHANGED <<frameVars, pipeVars, fileVars, inputVars, clientAlive, alive, fault>>

\* An empty line is a message too.
ProcessLine ==
    /\ Console("line", CASE line = "request" -> "file" [] line = "nothing" -> "loop"
                          [] line = "quit" -> "ended")
    /\ alive' = (alive /\ line # "quit")
    /\ UNCHANGED <<frameVars, pipeVars, fileVars, inputVars, clientAlive, fault>>

ConsoleReadsFile ==
    /\ Console("file", "frames")
    /\ ReadSessionID("console")
    /\ UNCHANGED <<pipeVars, fileVars, inputVars, clientAlive, alive>>

ConsoleSends ==
    /\ SendFrame("console")
    /\ Console("frames", IF SendsLastFrame("console") THEN "loop" ELSE "frames")
    /\ UNCHANGED <<pipeVars, fileVars, inputVars, clientAlive, alive, fault>>

\* handleSigInt
Interrupt ==
    /\ Lives /\ alive /\ alive' = FALSE
    /\ UNCHANGED <<frameVars, threadVars, pipeVars, fileVars, inputVars, clientAlive, fault>>

-----------------------------------------------------------------------------
MainStep ==
    \/ Subscribe \/ BuildWindow \/ StartConsole
    \/ ComeUp \/ MainReadsFile \/ MainSends
    \/ JoinConsole \/ DestroyWindow \/ DropClient \/ JoinReceiver \/ Leave

ReceiverStep ==
    \/ ReceiverStops \/ NotifyObserver \/ Update \/ Lock \/ TryGetMessage
    \/ Emit \/ Release \/ HandleMessage \/ WriteFile

ConsoleStep ==
    \/ ConsoleLoop \/ ReadPastEnd \/ ProcessLine \/ ConsoleReadsFile \/ ConsoleSends

\* What users, the server and the system may do or not.
Outside == ReceiveMessage \/ AskInWindow \/ CloseWindow \/ ReadLine \/ Interrupt

Next == MainStep \/ ReceiverStep \/ ConsoleStep \/ Outside

\* The end of the constructor of Client.
Init ==
    /\ FramesInit
    /\ main = "subscribe" /\ receiver = "recv" /\ console = "off"
    /\ taken = 0 /\ queue = <<>> /\ attached = FALSE /\ early = 0
    /\ hand = <<>> /\ events = <<>> /\ shown = <<>> /\ lost = {}
    /\ clientAlive = TRUE /\ alive = TRUE
    /\ file = "whole" /\ saved = 0
    /\ line = "nothing" /\ eof = FALSE /\ asked = 0 /\ lines = 0
    /\ fault = "none"

Spec == Init /\ [][Next]_vars

\* The threads run as long as the process does.
FairSpec == Spec /\ WF_vars(MainStep) /\ WF_vars(ReceiverStep) /\ WF_vars(ConsoleStep)

-----------------------------------------------------------------------------
(***************************************************************************)
(* Properties.                                                             *)
(***************************************************************************)
\* The user has not closed the window and the process has not broken down.
WindowUp == Lives /\ main \in {"subscribe", "window", "console", "loop", "file", "frames"}

\* Messages come up in the order in which the socket gave them, each once, and
\* get lost only while the window is being built or taken down: the queue, the
\* observer and the event loop together are a MessageFifo.
Fifo == INSTANCE MessageFifo WITH pending <- events \o hand \o queue, listening <- Listening

FifoRefined == Fifo!FifoSpec

\* Each Update passes one message on.  Those that came before the observer stay
\* in the queue for good (ReceiveMessage enqueues even then), so that everything
\* comes up as many messages late, until main lets go of the client.
QueueLag ==
    MainHolds =>
        Len(queue) = early + (IF receiver \in {"notify", "update", "lock", "take"} THEN 1 ELSE 0)

\* The client object is not destroyed under a thread that works with it: it is
\* gone only when receiver and console have ended.
ClientOutlivesThreads ==
    main = "ended" /\ ~clientAlive => receiver = "ended" /\ console = "ended"

\* The server takes the frames of different requests for one only when window
\* and console were within their requests at the same time.
MisreadOnlyIfOverlapped == misread => overlapped

\* However requests overlapped, between requests the server is at the beginning
\* of one: what is misread ends with the last of the requests that overlapped.
ServerRealigns == (\A t \in Senders : next[t] = 0) => group = <<>> /\ ~open

\* A message comes up once as many followed it as were early, unless it was lost
\* before the window listened, or the window has been closed, or the process
\* broke down.
LateMessagesComeUp ==
    \A m \in 1 .. Messages : \A e \in 0 .. Messages - m :
        (attached /\ early = e /\ taken >= m + e)
            ~> \/ \E i \in DOMAIN shown : shown[i] = m
               \/ m \in lost
               \/ ~WindowUp

\* Closing the window ends the process once getline returns: aboutToQuit waits
\* for the console thread, and that for a line or the end of its input.
CloseEndsProcess ==
    (main = "join" /\ (eof \/ console # "read")) ~> ~Lives

\* Every message the server sends comes up in the window as long as it is open.
EveryMessageComesUp ==
    \A m \in 1 .. Messages :
        taken >= m ~> \/ \E i \in DOMAIN shown : shown[i] = m
                      \/ ~WindowUp
=============================================================================
