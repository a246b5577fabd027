--------------------------- MODULE RequestFrames ----------------------------
(***************************************************************************)
(* The frames of requests on the way from one client process to the server *)
(* (Client::SendRequest, the start of the loop of Server::Run).            *)
(*                                                                         *)
(* A request is sent as Frames frames by as many calls of send, all but    *)
(* the last with sndmore.  Window and console do so from threads of their  *)
(* own on one socket.  The ROUTER puts the identity before the first frame *)
(* of a message, and the server reads one frame after the other, Frames+1  *)
(* for a request, wherever messages begin and end.  It reads in the order  *)
(* of sending and nothing of it comes back here, so a frame is read in the *)
(* step that sends it.  Calls of send that overlap in time, which libzmq   *)
(* does not allow, are taken one after the other.                          *)
(***************************************************************************)
EXTENDS Integers, Sequences

CONSTANTS
    Senders,   \* the threads that send requests
    Frames     \* frames of a request: 5 in the code

ASSUME FramesAssumption == Frames \in Nat \ {0}

VARIABLES
    next,        \* next[t]: the frame t sends next; 0 when it sends no request
    open,        \* the frame sent last had sndmore: the message goes on
    group,       \* the frames the server has read for the request it is reading
    misread,     \* history: some group was not the frames of one request
    overlapped   \* history: two threads were within their requests at a time

frameVars == <<next, open, group, misread, overlapped>>

Identity == [by |-> "router", frame |-> 0]
Frame(t, k) == [by |-> t, frame |-> k]
Whole(t) == <<Identity>> \o [k \in 1 .. Frames |-> Frame(t, k)]

FrameTypeOK ==
    /\ next \in [Senders -> 0 .. Frames]
    /\ group \in Seq({Identity} \cup [by : Senders, frame : 1 .. Frames])
    /\ Len(group) <= Frames
    /\ {open, misread, overlapped} \subseteq BOOLEAN

\* Which threads have sent some frames of a request and not the others.
Within == {t \in Senders : next[t] > 1}

BeginRequest(t) ==
    /\ next[t] = 0
    /\ next' = [next EXCEPT ![t] = 1]
    /\ UNCHANGED <<open, group, misread, overlapped>>

\* Run takes a group as soon as it is full.
Read(frames) ==
    LET read == group \o frames
        full == Len(read) > Frames
    IN  /\ group' = IF full THEN SubSeq(read, Frames + 2, Len(read)) ELSE read
        /\ misread' = (misread \/ (full /\ \A t \in Senders :
                                      SubSeq(read, 1, Frames + 1) # Whole(t)))

\* Fault: a request is given up after its first frames.
SendFrameOrStop(t) ==
    /\ next[t] # 0
    /\ \E last \in {Frames, next[t]} :
         next' = [next EXCEPT ![t] = IF @ = last THEN 0 ELSE @ + 1]
    /\ open' = (next'[t] # 0)
    /\ Read(IF open THEN <<Frame(t, next[t])>> ELSE <<Identity, Frame(t, next[t])>>)
    /\ overlapped' = (overlapped \/ Within \ {t} # {})

\* Fault: one frame more than the server reads.
SendOneFrameMore(t) ==
    /\ next[t] # 0
    /\ next' = [next EXCEPT ![t] = IF @ > Frames THEN 0 ELSE @ + 1]
    /\ open' = (next[t] <= Frames)
    /\ Read(IF open THEN <<Frame(t, next[t])>> ELSE <<Identity, Frame(t, next[t])>>)
    /\ overlapped' = (overlapped \/ Within \ {t} # {})

\* One of the calls of send in SendRequest.
SendFrame(t) ==
    /\ next[t] # 0
    /\ next' = [next EXCEPT ![t] = IF @ = Frames THEN 0 ELSE @ + 1]
    /\ open' = (next[t] # Frames)
    /\ Read(IF open THEN <<Frame(t, next[t])>> ELSE <<Identity, Frame(t, next[t])>>)
    /\ overlapped' = (overlapped \/ Within \ {t} # {})

\* Thread t has sent its request.
SendsLastFrame(t) == next[t] # 0 /\ next'[t] = 0

FramesInit ==
    /\ next = [t \in Senders |-> 0]
    /\ open = FALSE
    /\ group = <<>>
    /\ misread = FALSE
    /\ overlapped = FALSE
=============================================================================
