---------------------------- MODULE MessageFifo -----------------------------
(***************************************************************************)
(* What the receiver thread, the queue, the observer and the event queue   *)
(* of the window are for: messages come up in the window in the order in   *)
(* which they were taken from the socket, each once.  A message may be     *)
(* lost only while nobody listens, before the window is up and after it is *)
(* gone.  No message comes up in a window that is not there.               *)
(***************************************************************************)
EXTENDS Integers, Sequences

CONSTANT Messages   \* how many messages the server sends; they are 1 .. Messages

VARIABLES
    taken,      \* the number of messages taken so far
    pending,    \* taken and neither come up nor lost, in order
    shown,      \* those that have come up in the window, in order
    listening   \* the window has made its connections and is there

fifoVars == <<taken, pending, shown, listening>>

Take ==
    /\ taken < Messages
    /\ taken' = taken + 1
    /\ pending' = Append(pending, taken')
    /\ UNCHANGED <<shown, listening>>

ComeUp ==
    /\ listening /\ pending # <<>>
    /\ shown' = Append(shown, Head(pending))
    /\ pending' = Tail(pending)
    /\ UNCHANGED <<taken, listening>>

\* One is lost; those before and behind it stay.
Lose ==
    /\ ~listening
    /\ \E i \in DOMAIN pending :
         pending' = SubSeq(pending, 1, i - 1) \o SubSeq(pending, i + 1, Len(pending))
    /\ UNCHANGED <<taken, shown, listening>>

Listen == listening' = ~listening /\ UNCHANGED <<taken, pending, shown>>

FifoInit == taken = 0 /\ pending = <<>> /\ shown = <<>> /\ listening = FALSE

FifoNext == Take \/ ComeUp \/ Lose \/ Listen

FifoSpec == FifoInit /\ [][FifoNext]_fifoVars
=============================================================================
