--------------------------- MODULE ProcessProofs ----------------------------
(***************************************************************************)
(* Proofs about ClientProcess and RequestFrames.  ProcessInv is inductive: *)
(* where the threads are decides whether the client is alive, who holds    *)
(* what, and how long the queue is; what the server has read of a group is *)
(* what the senders have sent of their requests, up to one whole group.    *)
(***************************************************************************)
EXTENDS ClientProcess, SequenceTheorems, TLAPS

\* The frames t has sent of the request it is within.
Sent(t) == IF next[t] > 1 THEN next[t] - 1 ELSE 0

\* The frames of requests that are not all sent, and the identity of an open message.
Unfinished == Sent("main") + Sent("console") + (IF open THEN 1 ELSE 0)

\* What the server has read of the present group are as many frames, unless they
\* have filled a group already.
Aligned ==
    /\ open => Within # {}
    /\ Len(group) \in {Unfinished, Unfinished - (Frames + 1)}

\* The first n frames of a request of t, with the identity before them.
Prefix(t, n) == [i \in 1 .. n |-> IF i = 1 THEN Identity ELSE Frame(t, i - 1)]

\* As long as no two requests overlapped, the group is what the one sender has sent.
OneByOne ==
    ~overlapped =>
        /\ ~misread
        /\ \A t, u \in Within : t = u
        /\ \A t \in Within : open /\ group = Prefix(t, next[t])
        /\ Within = {} => ~open /\ group = <<>>

\* Where main is tells what is left of client and console, and where the receiver is
\* whether the observer has a message in hand.
Places ==
    /\ MainHolds => clientAlive
    /\ main = "joinReceiver" => ~clientAlive
    /\ main = "leave" => clientAlive
    /\ main \in {"destroyWindow", "dropClient", "joinReceiver", "leave", "ended"}
         => console = "ended"
    /\ receiver = "notify" => early < taken
    /\ hand = <<>> <=> receiver # "emit"

ProcessInv ==
    /\ ProcessTypeOK /\ Places
    /\ QueueLag /\ ClientOutlivesThreads
    /\ Aligned /\ OneByOne

-----------------------------------------------------------------------------
(***************************************************************************)
(* The frames of requests.                                                 *)
(***************************************************************************)
AnyFrame == {Identity} \cup [by : Senders, frame : 1 .. Frames]

\* The frames that one call of send makes the server read.
Sends(t) == IF open THEN <<Frame(t, next[t])>> ELSE <<Identity, Frame(t, next[t])>>

LEMMA SeqOfFunction ==
    ASSUME NEW S, NEW n \in Nat, NEW f \in [1 .. n -> S]
    PROVE  f \in Seq(S) /\ Len(f) = n
BY SeqDef

\* What a server reads that has a whole request before it.
LEMMA WholeIsPrefix ==
    ASSUME NEW t \in Senders
    PROVE  /\ Whole(t) \in Seq(AnyFrame)
           /\ Whole(t) = Prefix(t, Frames + 1)
<1> USE FramesAssumption
<1> DEFINE own == [k \in 1 .. Frames |-> Frame(t, k)]
<1>1. own \in Seq(AnyFrame) /\ Len(own) = Frames
    <2>1. own \in [1 .. Frames -> AnyFrame]
        BY DEF Frame, AnyFrame
    <2> QED
        BY <2>1, SeqOfFunction
<1>2. <<Identity>> \in Seq(AnyFrame) /\ Len(<<Identity>>) = 1 /\ <<Identity>>[1] = Identity
    BY DEF AnyFrame
<1> HIDE DEF own
<1>3. /\ <<Identity>> \o own \in Seq(AnyFrame)
      /\ Len(<<Identity>> \o own) = Frames + 1
      /\ \A i \in 1 .. Frames + 1 :
            (<<Identity>> \o own)[i] = IF i <= 1 THEN <<Identity>>[i] ELSE own[i - 1]
    BY <1>1, <1>2, ConcatProperties
<1>4. Prefix(t, Frames + 1) \in Seq(AnyFrame) /\ Len(Prefix(t, Frames + 1)) = Frames + 1
    <2>1. Prefix(t, Frames + 1) \in [1 .. Frames + 1 -> AnyFrame]
        BY DEF Prefix, Frame, AnyFrame
    <2> QED
        BY <2>1, SeqOfFunction
<1>5. ASSUME NEW i \in 1 .. Frames + 1
      PROVE  (<<Identity>> \o own)[i] = Prefix(t, Frames + 1)[i]
    BY <1>2, <1>3 DEF own, Prefix
<1>6. <<Identity>> \o own = Prefix(t, Frames + 1)
    BY <1>3, <1>4, <1>5, SeqEqual
<1> QED
    BY <1>3, <1>6 DEF Whole, own

\* A call of send adds one frame, or two if it begins a message.
LEMMA SendsFrames ==
    ASSUME FrameTypeOK, NEW t \in Senders, next[t] # 0
    PROVE  /\ Sends(t) \in Seq(AnyFrame)
           /\ Len(Sends(t)) = IF open THEN 1 ELSE 2
           /\ group \o Sends(t) \in Seq(AnyFrame)
           /\ Len(group \o Sends(t)) = Len(group) + (IF open THEN 1 ELSE 2)
           /\ Len(group) \in 0 .. Frames
<1> USE FramesAssumption
<1>1. next[t] \in 1 .. Frames
    BY DEF FrameTypeOK
<1>2. Frame(t, next[t]) \in AnyFrame /\ Identity \in AnyFrame
    BY <1>1 DEF Frame, AnyFrame
<1>3. Sends(t) \in Seq(AnyFrame) /\ Len(Sends(t)) = IF open THEN 1 ELSE 2
    BY <1>2 DEF Sends
<1>4. group \in Seq(AnyFrame) /\ Len(group) \in 0 .. Frames
    BY LenProperties DEF FrameTypeOK, AnyFrame
<1> DEFINE sent == Sends(t)
<1> HIDE DEF sent
<1>5. group \o sent \in Seq(AnyFrame) /\ Len(group \o sent) = Len(group) + Len(sent)
    BY <1>3, <1>4, ConcatProperties DEF sent
<1> QED
    BY <1>3, <1>4, <1>5 DEF sent

\* What is left when the server has taken a group, if it has.
LEMMA GroupAfterRead ==
    ASSUME FrameTypeOK, NEW t \in Senders, SendFrame(t)
    PROVE  LET read == group \o Sends(t)
           IN  /\ group' \in Seq(AnyFrame)
               /\ Len(group') = IF Len(read) > Frames THEN Len(read) - (Frames + 1) ELSE Len(read)
               /\ Len(group') <= Frames
               /\ Len(read) <= Frames => group' = read
               /\ Len(read) = Frames + 1 => group' = <<>>
<1> USE FramesAssumption
<1> DEFINE read == group \o Sends(t)
<1>1. /\ read \in Seq(AnyFrame)
      /\ Len(read) \in Nat /\ Len(read) <= Frames + 2
    BY SendsFrames DEF SendFrame
<1>2. group' = IF Len(read) > Frames THEN SubSeq(read, Frames + 2, Len(read)) ELSE read
    BY DEF SendFrame, Read, Sends
<1> HIDE DEF read
<1>3. CASE Len(read) <= Frames
    BY <1>1, <1>2, <1>3 DEF read
<1>4. CASE Len(read) > Frames
    <2>1. \A i \in Frames + 2 .. Len(read) : read[i] \in AnyFrame
        BY <1>1, ElementOfSeq
    <2>2. /\ SubSeq(read, Frames + 2, Len(read)) \in Seq(AnyFrame)
          /\ Len(SubSeq(read, Frames + 2, Len(read))) =
               IF Frames + 2 <= Len(read) THEN Len(read) - (Frames + 2) + 1 ELSE 0
        BY <1>1, <2>1, SubSeqProperties
    <2>3. Len(read) = Frames + 1 => SubSeq(read, Frames + 2, Len(read)) = <<>>
        BY <1>1, <2>2, EmptySeq
    <2> QED
        BY <1>1, <1>2, <1>4, <2>2, <2>3 DEF read
<1> QED
    BY <1>1, <1>3, <1>4 DEF read

LEMMA FramesTyped ==
    ASSUME FrameTypeOK, NEW t \in Senders, BeginRequest(t) \/ SendFrame(t)
    PROVE  FrameTypeOK'
<1> USE FramesAssumption DEF FrameTypeOK
<1>1. CASE BeginRequest(t)
    BY <1>1 DEF BeginRequest
<1>2. CASE SendFrame(t)
    <2>1. next' \in [Senders -> 0 .. Frames] /\ open' \in BOOLEAN
        BY <1>2 DEF SendFrame
    <2>2. misread' \in BOOLEAN /\ overlapped' \in BOOLEAN
        BY <1>2 DEF SendFrame, Read
    <2>3. group' \in Seq(AnyFrame) /\ Len(group') <= Frames
        BY <1>2, GroupAfterRead
    <2> QED
        BY <2>1, <2>2, <2>3 DEF AnyFrame
<1> QED
    BY <1>1, <1>2

-----------------------------------------------------------------------------

\* The server is as far with a group as the senders are with their requests.
LEMMA FramesAligned ==
    ASSUME FrameTypeOK, Aligned, NEW t \in Senders, BeginRequest(t) \/ SendFrame(t)
    PROVE  Aligned'
<1> USE FramesAssumption, ProcessAssumption
<1>1. FrameTypeOK'
    BY FramesTyped
<1>2. next \in [Senders -> 0 .. Frames] /\ open \in BOOLEAN
    BY DEF FrameTypeOK
<1>3. CASE BeginRequest(t)
    <2>1. Within' = Within
        BY <1>2, <1>3 DEF BeginRequest, Within
    <2>2. Sent("main")' = Sent("main") /\ Sent("console")' = Sent("console")
        BY <1>2, <1>3 DEF BeginRequest, Sent
    <2> QED
        BY <1>3, <2>1, <2>2 DEF BeginRequest, Aligned, Unfinished
<1>4. CASE SendFrame(t)
    <2> DEFINE k == next[t]
    <2>1. PICK u \in Senders : {"main", "console"} = {t, u} /\ u # t
        OBVIOUS
    <2>2. Unfinished = Sent(t) + Sent(u) + (IF open THEN 1 ELSE 0)
        BY <1>2, <2>1 DEF Unfinished, Sent
    <2>3. Unfinished' = Sent(t)' + Sent(u)' + (IF open' THEN 1 ELSE 0)
        BY <1>1, <2>1 DEF Unfinished, Sent, FrameTypeOK
    <2>4. /\ k \in 1 .. Frames /\ Sent(u)' = Sent(u) /\ Sent(u) \in 0 .. Frames - 1
          /\ Sent(t) = k - 1
          /\ Sent(t)' = IF k = Frames THEN 0 ELSE k
          /\ k = Frames => ~open'
          /\ k # Frames => open'
        <3>1. /\ k \in 1 .. Frames
              /\ next' = [next EXCEPT ![t] = IF k = Frames THEN 0 ELSE k + 1]
              /\ open' = (k # Frames)
            BY <1>2, <1>4 DEF SendFrame
        <3>2. next'[t] = (IF k = Frames THEN 0 ELSE k + 1) /\ next'[u] = next[u]
            BY <1>2, <2>1, <3>1
        <3>3. Sent(u)' = Sent(u) /\ Sent(u) \in 0 .. Frames - 1
            BY <1>2, <3>2 DEF Sent
        <3>4. Sent(t) = k - 1 /\ Sent(t)' = IF k = Frames THEN 0 ELSE k
            BY <3>1, <3>2 DEF Sent
        <3> QED
            BY <3>1, <3>3, <3>4
    <2> DEFINE more == IF open THEN 1 ELSE 2
               n    == Len(group) + more
    <2>5. /\ Unfinished = k - 1 + Sent(u) + 2 - more
          /\ k < Frames => Unfinished' = k + Sent(u) + 1
          /\ k = Frames => Unfinished' = Sent(u)
        BY <1>2, <2>2, <2>3, <2>4
    <2>6. Len(group) \in 0 .. Frames
          /\ Len(group') = IF n > Frames THEN n - (Frames + 1) ELSE n
        <3>1. next[t] # 0
            BY <1>4 DEF SendFrame
        <3>2. Len(group) \in 0 .. Frames /\ Len(group \o Sends(t)) = n
            BY <3>1, SendsFrames
        <3> QED
            BY <1>4, <3>2, GroupAfterRead
    <2>7. Len(group) = Unfinished \/ Len(group) = Unfinished - (Frames + 1)
        BY DEF Aligned
    <2>8. more \in 1 .. 2 /\ Frames \in Nat
        OBVIOUS
    <2> HIDE DEF k, more
    <2>9. Len(group') = Unfinished' \/ Len(group') = Unfinished' - (Frames + 1)
        <3>1. CASE k = Frames
            BY <2>4, <2>5, <2>6, <2>7, <2>8, <3>1
        <3>2. CASE k < Frames
            <4>1. Unfinished' = Unfinished + more
                BY <2>4, <2>5, <2>8, <3>2
            <4>2. Unfinished \in Int /\ Unfinished' \in Int
                BY <2>4, <2>5, <2>8, <3>2
            <4>3. Unfinished < Frames + Frames
                BY <2>4, <2>5, <2>8, <3>2
            <4> QED
                BY <2>4, <2>6, <2>7, <2>8, <4>1, <4>2, <4>3
        <3> QED
            BY <2>4, <3>1, <3>2
    <2>10. open' => Within' # {}
        <3>1. k < Frames => next'[t] = k + 1
            BY <1>2, <1>4, <2>4 DEF SendFrame, k
        <3>2. k < Frames => t \in Within'
            BY <2>4, <3>1 DEF Within
        <3> QED
            BY <2>4, <3>2
    <2> QED
        BY <2>9, <2>10 DEF Aligned
<1> QED
    BY <1>3, <1>4

\* A thread that is alone with its request makes the server read that request.
LEMMA FramesOneByOne ==
    ASSUME FrameTypeOK, OneByOne, NEW t \in Senders, BeginRequest(t) \/ SendFrame(t)
    PROVE  OneByOne'
<1> USE FramesAssumption
<1>1. next \in [Senders -> 0 .. Frames] /\ open \in BOOLEAN
    BY DEF FrameTypeOK
<1>2. CASE BeginRequest(t)
    <2>1. Within' = Within /\ \A u \in Within : next'[u] = next[u]
        BY <1>1, <1>2 DEF BeginRequest, Within
    <2> QED
        BY <1>2, <2>1 DEF BeginRequest, OneByOne, Prefix
<1>3. CASE SendFrame(t)
    <2> SUFFICES ASSUME ~overlapped'
                 PROVE  OneByOne'
        BY DEF OneByOne
    <2> DEFINE k    == next[t]
               read == group \o Sends(t)
    <2>1. ~overlapped /\ Within \ {t} = {}
        BY <1>3 DEF SendFrame
    <2>2. k \in 1 .. Frames
        BY <1>1, <1>3 DEF SendFrame
    <2>3. /\ k = 1 => ~open
          /\ k > 1 => open
          /\ group = IF k = 1 THEN <<>> ELSE Prefix(t, k)
        BY <1>1, <2>1, <2>2 DEF OneByOne, Within
    <2>4. Len(group) = IF k = 1 THEN 0 ELSE k
        <3>1. Prefix(t, k) \in [1 .. k -> AnyFrame]
            BY <2>2 DEF Prefix, Frame, AnyFrame
        <3>2. Len(Prefix(t, k)) = k
            BY <2>2, <3>1, SeqOfFunction
        <3> QED
            BY <2>3, <3>2
    <2>5. read \in Seq(AnyFrame) /\ Len(read) = k + 1
        <3>1. /\ read \in Seq(AnyFrame)
              /\ Len(read) = Len(group) + (IF open THEN 1 ELSE 2)
            BY <2>2, SendsFrames
        <3>2. CASE k = 1
            BY <2>3, <2>4, <3>1, <3>2
        <3>3. CASE k # 1
            <4>1. open /\ Len(group) = k
                BY <1>1, <2>2, <2>3, <2>4, <3>3
            <4> QED
                BY <3>1, <4>1
        <3> QED
            BY <3>2, <3>3
    <2>6. Prefix(t, k + 1) \in Seq(AnyFrame) /\ Len(Prefix(t, k + 1)) = k + 1
        <3>1. Prefix(t, k + 1) \in [1 .. k + 1 -> AnyFrame]
            BY <2>2 DEF Prefix, Frame, AnyFrame
        <3> QED
            BY <2>2, <3>1, SeqOfFunction
    <2>7. read = Prefix(t, k + 1)
        <3>1. CASE k = 1
            <4>1. read = <<Identity, Frame(t, 1)>>
                <5>1. group = <<>> /\ Sends(t) = <<Identity, Frame(t, 1)>>
                    BY <2>3, <3>1 DEF Sends
                <5>2. Sends(t) \in Seq(AnyFrame)
                    BY <2>2, SendsFrames
                <5> QED
                    BY <5>1, <5>2, ConcatEmptySeq
            <4>2. \A i \in 1 .. Len(read) : read[i] = Prefix(t, k + 1)[i]
                BY <2>5, <3>1, <4>1 DEF Prefix
            <4> QED
                BY <2>5, <2>6, <4>2, SeqEqual
        <3>2. CASE k # 1
            <4>1. Sends(t) = <<Frame(t, k)>> /\ Len(group) = k
                <5>1. open
                    BY <1>1, <2>2, <2>3, <3>2
                <5> QED
                    BY <2>4, <3>2, <5>1 DEF Sends
            <4>2. group \in Seq(AnyFrame) /\ Sends(t) \in Seq(AnyFrame) /\ Len(Sends(t)) = 1
                <5>1. Sends(t) \in Seq(AnyFrame)
                    BY <2>2, SendsFrames
                <5> QED
                    BY <4>1, <5>1 DEF FrameTypeOK, AnyFrame
            <4>3. \A i \in 1 .. k + 1 :
                    read[i] = IF i <= k THEN group[i] ELSE Sends(t)[i - k]
                BY <4>1, <4>2, ConcatProperties
            <4>4. \A i \in 1 .. k : group[i] = Prefix(t, k + 1)[i]
                BY <2>2, <2>3, <3>2 DEF Prefix
            <4>5. Sends(t)[1] = Prefix(t, k + 1)[k + 1]
                BY <2>2, <3>2, <4>1 DEF Prefix
            <4>6. \A i \in 1 .. Len(read) : read[i] = Prefix(t, k + 1)[i]
                BY <2>2, <2>5, <4>3, <4>4, <4>5
            <4> QED
                BY <2>5, <2>6, <4>6, SeqEqual
        <3> QED
            BY <3>1, <3>2
    <2> HIDE DEF read
    <2>8. CASE k = Frames
        <3>1. Within' = {} /\ open' = FALSE
            BY <1>1, <1>3, <2>1, <2>8 DEF SendFrame, Within
        <3>2. group' = <<>>
            BY <1>3, <2>5, <2>8, GroupAfterRead DEF read
        <3>3. SubSeq(read, 1, Frames + 1) = Whole(t)
            BY <2>5, <2>7, <2>8, SubSeqFull, WholeIsPrefix
        <3>4. misread' = misread
            <4>1. misread' = (misread \/ (Len(read) > Frames /\ \A u \in Senders :
                                            SubSeq(read, 1, Frames + 1) # Whole(u)))
                BY <1>3 DEF SendFrame, Read, Sends, read
            <4> QED
                BY <3>3, <4>1, Zenon DEF FrameTypeOK
        <3> QED
            BY <2>1, <3>1, <3>2, <3>4 DEF OneByOne
    <2>9. CASE k < Frames
        <3>1. Within' = {t} /\ next'[t] = k + 1 /\ open' = TRUE
            <4>1. next' = [next EXCEPT ![t] = k + 1] /\ open' = TRUE
                <5>1. k # Frames
                    BY <2>9
                <5> QED
                    BY <1>3, <5>1 DEF SendFrame
            <4>2. next'[t] = k + 1 /\ \A u \in Senders \ {t} : next'[u] = next[u]
                BY <1>1, <4>1
            <4>3. k + 1 > 1
                BY <2>2
            <4> HIDE DEF k
            <4> QED
                BY <2>1, <4>1, <4>2, <4>3 DEF Within
        <3>2. group' = Prefix(t, next'[t])
            <4>1. Len(read) <= Frames
                BY <2>2, <2>5, <2>9
            <4> QED
                BY <1>3, <2>7, <3>1, <4>1, GroupAfterRead DEF read
        <3>3. Prefix(t, next'[t]) = Prefix(t, next[t])'
            BY DEF Prefix, Identity, Frame
        <3>4. misread' = misread
            <4>1. ~(Len(read) > Frames)
                BY <2>2, <2>5, <2>9
            <4>2. misread' = (misread \/ (Len(read) > Frames /\ \A u \in Senders :
                                            SubSeq(read, 1, Frames + 1) # Whole(u)))
                BY <1>3 DEF SendFrame, Read, Sends, read
            <4> QED
                BY <4>1, <4>2, Zenon DEF FrameTypeOK
        <3> QED
            BY <2>1, <3>1, <3>2, <3>3, <3>4 DEF OneByOne
    <2> QED
        BY <2>2, <2>8, <2>9
<1> QED
    BY <1>2, <1>3

-----------------------------------------------------------------------------

(***************************************************************************)
(* The steps of the threads.                                               *)
(***************************************************************************)
\* Requests are sent by main and console, and nobody else touches the frames.
LEMMA WhoSends ==
    ASSUME [Next]_vars
    PROVE  UNCHANGED frameVars \/ \E t \in Senders : BeginRequest(t) \/ SendFrame(t)
<1> USE ProcessAssumption
<1>1. CASE UNCHANGED vars
    BY <1>1 DEF vars, frameVars
<1>2. CASE MainStep
    <2>1. CASE MainReadsFile
        BY <2>1 DEF MainReadsFile, ReadSessionID
    <2>2. CASE MainSends
        BY <2>2 DEF MainSends
    <2> QED
        BY <1>2, <2>1, <2>2 DEF MainStep, Subscribe, BuildWindow, StartConsole, ComeUp,
            JoinConsole, DestroyWindow, DropClient, JoinReceiver, Leave
<1>3. CASE ReceiverStep
    BY <1>3 DEF ReceiverStep, ReceiverStops, NotifyObserver, Update, Lock, TryGetMessage,
        Emit, Release, HandleMessage, WriteFile, pipeVars
<1>4. CASE ConsoleStep
    <2>1. CASE ConsoleReadsFile
        BY <2>1 DEF ConsoleReadsFile, ReadSessionID
    <2>2. CASE ConsoleSends
        BY <2>2 DEF ConsoleSends
    <2> QED
        BY <1>4, <2>1, <2>2 DEF ConsoleStep, ConsoleLoop, ReadPastEnd, ProcessLine
<1>5. CASE Outside
    BY <1>5 DEF Outside, ReceiveMessage, AskInWindow, CloseWindow, ReadLine, Interrupt
<1> QED
    BY <1>1, <1>2, <1>3, <1>4, <1>5 DEF Next

LEMMA FramesStep ==
    ASSUME FrameTypeOK, Aligned, OneByOne, [Next]_vars
    PROVE  FrameTypeOK' /\ Aligned' /\ OneByOne'
<1>1. CASE UNCHANGED frameVars
    BY <1>1 DEF frameVars, FrameTypeOK, Aligned, Unfinished, Sent, Within, OneByOne, Prefix,
        Identity, Frame
<1>2. CASE \E t \in Senders : BeginRequest(t) \/ SendFrame(t)
    BY <1>2, FramesTyped, FramesAligned, FramesOneByOne
<1> QED
    BY <1>1, <1>2, WhoSends

\* What has been taken from the socket stays taken.
LEMMA MoreTaken ==
    ASSUME NEW s \in Seq(1 .. taken), taken \in Nat, taken' \in Nat, taken' >= taken
    PROVE  s \in Seq(1 .. taken')
<1>1. 1 .. taken \subseteq 1 .. taken'
    OBVIOUS
<1> QED
    BY <1>1, SeqMonotonic

\* The variables of the pipe, that is of the receiver's way from socket to window.
PipeTyped ==
    /\ receiver \in ReceiverAt
    /\ taken \in 0 .. Messages /\ early \in 0 .. taken /\ saved \in 0 .. taken
    /\ queue \in Seq(1 .. taken) /\ hand \in Seq(1 .. taken)
    /\ events \in Seq(1 .. taken) /\ shown \in Seq(1 .. taken)
    /\ Len(hand) <= 1
    /\ lost \subseteq 1 .. taken
    /\ attached \in BOOLEAN /\ file \in {"whole", "short"}

OthersTyped ==
    /\ main \in MainAt /\ console \in ConsoleAt
    /\ clientAlive \in BOOLEAN /\ alive \in BOOLEAN /\ eof \in BOOLEAN
    /\ line \in LineKinds
    /\ asked \in 0 .. MaxAsked /\ lines \in 0 .. MaxLines
    /\ fault \in {"none", "parse", "null", "selfJoin"}

LEMMA TypeParts == ProcessTypeOK <=> FrameTypeOK /\ PipeTyped /\ OthersTyped
BY DEF ProcessTypeOK, PipeTyped, OthersTyped

pipeAndFile == <<receiver, pipeVars, fileVars>>

LEMMA PipeStep ==
    ASSUME PipeTyped, Places, [Next]_vars
    PROVE  PipeTyped'
<1> USE ProcessAssumption
<1>1. CASE UNCHANGED pipeAndFile
    BY <1>1 DEF PipeTyped, pipeAndFile, pipeVars, fileVars
<1>2. CASE ReceiveMessage
    <2>1. taken' = taken + 1 /\ taken' \in 0 .. Messages /\ taken' >= taken /\ taken \in Nat
        BY <1>2 DEF ReceiveMessage, PipeTyped
    <2>2. \A s \in Seq(1 .. taken) : s \in Seq(1 .. taken')
        BY <2>1, MoreTaken
    <2>3. queue' \in Seq(1 .. taken')
        <3>1. queue \in Seq(1 .. taken') /\ taken' \in 1 .. taken'
            BY <2>1, <2>2 DEF PipeTyped
        <3> QED
            BY <1>2, <3>1, AppendProperties DEF ReceiveMessage, Enqueue
    <2> QED
        BY <1>2, <2>1, <2>2, <2>3 DEF ReceiveMessage, Receiver, ReceiverAt, PipeTyped, fileVars
<1>3. CASE NotifyObserver
    <2>1. early < taken
        BY <1>3 DEF NotifyObserver, Receiver, Places
    <2> QED
        BY <1>3, <2>1 DEF NotifyObserver, Receiver, ReceiverAt, PipeTyped, fileVars
<1>4. CASE TryGetMessage
    <2>1. /\ queue # <<>> /\ queue' = Tail(queue) /\ hand' = <<Head(queue)>>
          /\ taken' = taken
        BY <1>4 DEF TryGetMessage, Pop
    <2>2. Head(queue) \in 1 .. taken /\ Tail(queue) \in Seq(1 .. taken)
        BY <2>1, HeadTailProperties DEF PipeTyped
    <2>3. hand' \in Seq(1 .. taken) /\ Len(hand') = 1
        BY <2>1, <2>2
    <2> QED
        BY <1>4, <2>1, <2>2, <2>3 DEF TryGetMessage, Receiver, ReceiverAt, PipeTyped, fileVars
<1>5. CASE Emit
    <2>1. hand # <<>> /\ hand \in Seq(1 .. taken)
        BY <1>5 DEF Emit, Receiver, Places, PipeTyped
    <2>2. hand[1] \in 1 .. taken
        <3>1. Len(hand) \in Nat \ {0}
            BY <2>1, EmptySeq
        <3>2. 1 \in 1 .. Len(hand)
            BY <3>1
        <3> QED
            BY <2>1, <3>2, ElementOfSeq
    <2>3. events \o hand \in Seq(1 .. taken)
        BY <2>1, ConcatProperties DEF PipeTyped
    <2>4. events' \in Seq(1 .. taken) /\ lost' \subseteq 1 .. taken
        BY <1>5, <2>2, <2>3 DEF Emit, PipeTyped
    <2>5. hand' = <<>> /\ hand' \in Seq(1 .. taken) /\ Len(hand') = 0
        BY <1>5, EmptySeq DEF Emit
    <2> QED
        BY <1>5, <2>4, <2>5 DEF Emit, Receiver, ReceiverAt, PipeTyped, fileVars
<1>6. CASE ComeUp
    <2>1. /\ events # <<>> /\ events' = Tail(events) /\ shown' = Append(shown, Head(events))
          /\ taken' = taken
        BY <1>6 DEF ComeUp
    <2>2. Head(events) \in 1 .. taken /\ Tail(events) \in Seq(1 .. taken)
        BY <2>1, HeadTailProperties DEF PipeTyped
    <2>3. shown' \in Seq(1 .. taken)
        BY <2>1, <2>2, AppendProperties DEF PipeTyped
    <2> QED
        BY <1>6, <2>1, <2>2, <2>3 DEF ComeUp, Main, PipeTyped, fileVars
<1>7. CASE Subscribe \/ HandleMessage \/ WriteFile \/ ReceiverStops \/ Update \/ Lock \/ Release
    <2>1. CASE Subscribe
        BY <2>1 DEF Subscribe, Main, PipeTyped, fileVars
    <2>2. CASE HandleMessage
        BY <2>2 DEF HandleMessage, Receiver, ReceiverAt, PipeTyped, pipeVars
    <2>3. CASE WriteFile
        BY <2>3 DEF WriteFile, Receiver, ReceiverAt, PipeTyped, pipeVars
    <2>4. CASE ReceiverStops \/ Update \/ Lock \/ Release
        BY <2>4 DEF ReceiverStops, Update, Lock, Release, Receiver, ReceiverAt, PipeTyped,
            pipeVars, fileVars
    <2> QED
        BY <1>7, <2>1, <2>2, <2>3, <2>4
<1>8. CASE MainStep /\ ~Subscribe /\ ~ComeUp
    BY <1>1, <1>8 DEF MainStep, BuildWindow, StartConsole, MainReadsFile, MainSends,
        JoinConsole, DestroyWindow, DropClient, JoinReceiver, Leave, Main, pipeAndFile
<1>9. CASE ConsoleStep
    BY <1>1, <1>9 DEF ConsoleStep, ConsoleLoop, ReadPastEnd, ProcessLine, ConsoleReadsFile,
        ConsoleSends, Console, pipeAndFile
<1>10. CASE AskInWindow \/ CloseWindow \/ ReadLine \/ Interrupt
    BY <1>1, <1>10 DEF AskInWindow, CloseWindow, ReadLine, Interrupt, Main, Console, threadVars,
        pipeAndFile
<1>11. CASE UNCHANGED vars
    BY <1>1, <1>11 DEF vars, threadVars, pipeAndFile
<1> QED
    BY <1>2, <1>3, <1>4, <1>5, <1>6, <1>7, <1>8, <1>9, <1>10, <1>11
        DEF Next, MainStep, ReceiverStep, Outside

\* Lines, requests, and the places of main and console.
LEMMA OthersStep ==
    ASSUME OthersTyped, [Next]_vars
    PROVE  OthersTyped'
<1> USE ProcessAssumption DEF OthersTyped, MainAt, ConsoleAt, Main, Console, inputVars
<1>1. CASE UNCHANGED vars
    BY <1>1 DEF vars, threadVars
<1>2. CASE ReceiverStep
    BY <1>2 DEF ReceiverStep, ReceiverStops, NotifyObserver, Update, Lock, TryGetMessage,
        Emit, Release, HandleMessage, WriteFile, Receiver
<1>3. CASE MainStep
    <2>1. CASE MainReadsFile
        BY <2>1 DEF MainReadsFile, ReadSessionID
    <2>2. CASE DropClient
        BY <2>2 DEF DropClient, ReceiverHolds
    <2>3. CASE StartConsole
        BY <2>3 DEF StartConsole
    <2>4. CASE MainSends
        BY <2>4 DEF MainSends
    <2> QED
        BY <1>3, <2>1, <2>2, <2>3, <2>4 DEF MainStep, Subscribe, BuildWindow, ComeUp, JoinConsole,
            DestroyWindow, JoinReceiver, Leave
<1>4. CASE ConsoleStep
    <2>1. CASE ProcessLine
        BY <2>1 DEF ProcessLine, LineKinds
    <2> QED
        BY <1>4, <2>1 DEF ConsoleStep, ConsoleLoop, ReadPastEnd, ConsoleReadsFile, ReadSessionID,
            ConsoleSends
<1>5. CASE Outside
    <2>1. CASE ReceiveMessage
        BY <2>1 DEF ReceiveMessage, Receiver
    <2>2. CASE AskInWindow
        BY <2>2 DEF AskInWindow
    <2>3. CASE ReadLine
        <3>1. CASE lines' = lines + 1 /\ lines < MaxLines /\ UNCHANGED eof
            BY <2>3, <3>1 DEF ReadLine
        <3>2. CASE eof' = TRUE /\ UNCHANGED lines
            BY <2>3, <3>2 DEF ReadLine
        <3> QED
            BY <2>3, <3>1, <3>2 DEF ReadLine
    <2>4. CASE CloseWindow \/ Interrupt
        BY <2>4 DEF CloseWindow, Interrupt, threadVars
    <2> QED
        BY <1>5, <2>1, <2>2, <2>3, <2>4 DEF Outside
<1> QED
    BY <1>1, <1>2, <1>3, <1>4, <1>5 DEF Next

\* A thread that has ended does nothing any more, and only main takes the client down.
LEMMA PlacesStep ==
    ASSUME PipeTyped, OthersTyped, Places, ClientOutlivesThreads, [Next]_vars
    PROVE  Places' /\ ClientOutlivesThreads'
<1> USE DEF Places, ClientOutlivesThreads, MainHolds, Lives, Main, Receiver, Console
<1>1. CASE UNCHANGED vars
    BY <1>1 DEF vars, threadVars, pipeVars
<1>2. CASE ReceiveMessage
    BY <1>2 DEF ReceiveMessage, PipeTyped
<1>3. CASE ReceiverStep
    <2>1. CASE TryGetMessage
        BY <2>1 DEF TryGetMessage, Pop
    <2>2. CASE Emit
        BY <2>2 DEF Emit
    <2>3. CASE NotifyObserver
        BY <2>3 DEF NotifyObserver
    <2> QED
        BY <1>3, <2>1, <2>2, <2>3 DEF ReceiverStep, ReceiverStops, Update, Lock, Release,
            HandleMessage, WriteFile, pipeVars
<1>4. CASE MainStep
    <2>1. CASE DropClient
        BY <2>1 DEF DropClient, ReceiverHolds, pipeVars
    <2>2. CASE JoinConsole
        BY <2>2 DEF JoinConsole, pipeVars
    <2>3. CASE JoinReceiver \/ Leave
        BY <2>3 DEF JoinReceiver, Leave, pipeVars
    <2> QED
        BY <1>4, <2>1, <2>2, <2>3 DEF MainStep, Subscribe, BuildWindow, StartConsole, ComeUp,
            MainReadsFile, MainSends, DestroyWindow, pipeVars
<1>5. CASE ConsoleStep
    BY <1>5 DEF ConsoleStep, ConsoleLoop, ReadPastEnd, ProcessLine, ConsoleReadsFile,
        ConsoleSends, pipeVars
<1>6. CASE AskInWindow \/ CloseWindow \/ ReadLine \/ Interrupt
    BY <1>6 DEF AskInWindow, CloseWindow, ReadLine, Interrupt, threadVars, pipeVars
<1> QED
    BY <1>1, <1>2, <1>3, <1>4, <1>5, <1>6 DEF Next, Outside

\* Every message enqueued is followed by an Update that takes one, except for those that
\* found no observer.
LEMMA LagStep ==
    ASSUME PipeTyped, Places, QueueLag, [Next]_vars
    PROVE  QueueLag'
<1> USE DEF QueueLag
<1>1. Len(queue) \in Nat /\ early \in Nat
    BY LenProperties DEF PipeTyped
<1>2. MainHolds' => MainHolds
    <2>1. CASE MainStep
        BY <2>1 DEF MainStep, Subscribe, BuildWindow, StartConsole, ComeUp, MainReadsFile,
            MainSends, JoinConsole, DestroyWindow, DropClient, JoinReceiver, Leave, Main, MainHolds
    <2>2. CASE ReceiverStep
        BY <2>2 DEF ReceiverStep, ReceiverStops, NotifyObserver, Update, Lock, TryGetMessage,
            Emit, Release, HandleMessage, WriteFile, Receiver, MainHolds
    <2>3. CASE ConsoleStep
        BY <2>3 DEF ConsoleStep, ConsoleLoop, ReadPastEnd, ProcessLine, ConsoleReadsFile,
            ConsoleSends, Console, MainHolds
    <2>4. CASE Outside
        BY <2>4 DEF Outside, ReceiveMessage, AskInWindow, CloseWindow, ReadLine, Interrupt,
            Main, Receiver, Console, threadVars, MainHolds
    <2>5. CASE UNCHANGED vars
        BY <2>5 DEF vars, threadVars, MainHolds
    <2> QED
        BY <2>1, <2>2, <2>3, <2>4, <2>5 DEF Next
<1>3. CASE UNCHANGED <<queue, early, receiver>>
    BY <1>2, <1>3
<1>4. CASE ReceiveMessage
    <2>1. taken + 1 \in Nat
        BY DEF PipeTyped
    <2>2. Len(queue') = Len(queue) + 1
        <3>1. queue \in Seq(Nat)
            <4>1. 1 .. taken \subseteq Nat
                OBVIOUS
            <4> QED
                BY <4>1, SeqMonotonic DEF PipeTyped
        <3> QED
            BY <1>4, <2>1, <3>1, AppendProperties DEF ReceiveMessage, Enqueue
    <2> QED
        BY <1>1, <1>2, <1>4, <2>2 DEF ReceiveMessage, Receiver
<1>5. CASE NotifyObserver
    BY <1>1, <1>2, <1>5 DEF NotifyObserver, Receiver
<1>6. CASE Update
    BY <1>1, <1>2, <1>6 DEF Update, Receiver, pipeVars, MainHolds
<1>7. CASE TryGetMessage
    <2>1. Len(queue') = Len(queue) - 1
        BY <1>7, HeadTailProperties DEF TryGetMessage, Pop, PipeTyped
    <2> QED
        BY <1>1, <1>2, <1>7, <2>1 DEF TryGetMessage, Receiver
<1>8. CASE Lock \/ Emit \/ Release \/ HandleMessage \/ WriteFile \/ ReceiverStops
    BY <1>1, <1>2, <1>8 DEF Lock, Emit, Release, HandleMessage, WriteFile, ReceiverStops, Receiver,
        pipeVars
<1>9. CASE MainStep
    BY <1>3, <1>9 DEF MainStep, Subscribe, BuildWindow, StartConsole, ComeUp, MainReadsFile,
        MainSends, JoinConsole, DestroyWindow, DropClient, JoinReceiver, Leave, Main, pipeVars
<1>10. CASE ConsoleStep
    BY <1>3, <1>10 DEF ConsoleStep, ConsoleLoop, ReadPastEnd, ProcessLine, ConsoleReadsFile,
        ConsoleSends, Console, pipeVars
<1>11. CASE AskInWindow \/ CloseWindow \/ ReadLine \/ Interrupt
    BY <1>3, <1>11 DEF AskInWindow, CloseWindow, ReadLine, Interrupt, Main, Console, threadVars,
        pipeVars
<1>12. CASE UNCHANGED vars
    BY <1>3, <1>12 DEF vars, threadVars, pipeVars
<1> QED
    BY <1>4, <1>5, <1>6, <1>7, <1>8, <1>9, <1>10, <1>11, <1>12 DEF Next, ReceiverStep, Outside

-----------------------------------------------------------------------------
LEMMA InitProcessInv == Init => ProcessInv
<1> SUFFICES ASSUME Init
             PROVE  ProcessInv
    OBVIOUS
<1> USE FramesAssumption, ProcessAssumption DEF Init, FramesInit
<1>1. (\A S : <<>> \in Seq(S)) /\ Len(<<>>) = 0
    BY EmptySeq
<1>2. FrameTypeOK
    <2>1. next \in [Senders -> 0 .. Frames]
        OBVIOUS
    <2>2. group \in Seq({Identity} \cup [by : Senders, frame : 1 .. Frames]) /\ Len(group) <= Frames
        BY <1>1
    <2>3. open \in BOOLEAN /\ misread \in BOOLEAN /\ overlapped \in BOOLEAN
        OBVIOUS
    <2> QED
        BY <2>1, <2>2, <2>3 DEF FrameTypeOK
<1>3. PipeTyped
    <2>1. queue \in Seq(1 .. taken) /\ hand \in Seq(1 .. taken) /\ events \in Seq(1 .. taken)
          /\ shown \in Seq(1 .. taken) /\ Len(hand) <= 1
        BY <1>1
    <2>2. taken \in 0 .. Messages /\ early \in 0 .. taken /\ saved \in 0 .. taken
        OBVIOUS
    <2> QED
        BY <2>1, <2>2 DEF PipeTyped, ReceiverAt
<1>4. OthersTyped
    <2>1. clientAlive \in BOOLEAN /\ alive \in BOOLEAN /\ eof \in BOOLEAN
        OBVIOUS
    <2>2. asked \in 0 .. MaxAsked /\ lines \in 0 .. MaxLines
        OBVIOUS
    <2> QED
        BY <2>1, <2>2 DEF OthersTyped, MainAt, ConsoleAt, LineKinds
<1>5. Places /\ ClientOutlivesThreads
    BY DEF Places, ClientOutlivesThreads, MainHolds
<1>6. QueueLag
    BY <1>1 DEF QueueLag
<1>7. Aligned
    BY <1>1 DEF Aligned, Unfinished, Sent
<1>8. OneByOne
    BY DEF OneByOne, Within
<1> QED
    BY <1>2, <1>3, <1>4, <1>5, <1>6, <1>7, <1>8, TypeParts DEF ProcessInv

LEMMA ProcessInvStep == ProcessInv /\ [Next]_vars => ProcessInv'
<1> SUFFICES ASSUME ProcessInv, [Next]_vars
             PROVE  ProcessInv'
    OBVIOUS
<1>1. /\ FrameTypeOK /\ PipeTyped /\ OthersTyped
      /\ Places /\ QueueLag /\ ClientOutlivesThreads /\ Aligned /\ OneByOne
    BY TypeParts DEF ProcessInv
<1>2. FrameTypeOK' /\ Aligned' /\ OneByOne'
    BY <1>1, FramesStep
<1>3. PipeTyped' /\ OthersTyped'
    BY <1>1, PipeStep, OthersStep
<1>4. Places' /\ ClientOutlivesThreads' /\ QueueLag'
    BY <1>1, PlacesStep, LagStep
<1>5. ProcessTypeOK'
    BY <1>2, <1>3, TypeParts, PTL
<1> QED
    BY <1>2, <1>4, <1>5 DEF ProcessInv

LEMMA ProcessInvariant == Spec => []ProcessInv
BY InitProcessInv, ProcessInvStep, PTL DEF Spec

-----------------------------------------------------------------------------
(***************************************************************************)
(* Theorems.                                                               *)
(***************************************************************************)
\* The variables of a client process keep their types, whatever its threads do.
THEOREM ProcessTypeCorrect == Spec => []ProcessTypeOK
<1>1. ProcessInv => ProcessTypeOK
    BY DEF ProcessInv
<1> QED
    BY <1>1, ProcessInvariant, PTL

\* As long as main holds the client, the queue of messages is as long as many messages came
\* before the observer: they are shown late, for good (ReceiveMessage, NotifyObserver).
THEOREM QueueLagsForGood == Spec => []QueueLag
<1>1. ProcessInv => QueueLag
    BY DEF ProcessInv
<1> QED
    BY <1>1, ProcessInvariant, PTL

\* When the client has been destroyed, no thread that works with it is left (~Client, the
\* joins of main.cpp).
THEOREM NoThreadOutlivesClient == Spec => []ClientOutlivesThreads
<1>1. ProcessInv => ClientOutlivesThreads
    BY DEF ProcessInv
<1> QED
    BY <1>1, ProcessInvariant, PTL

\* For any number of frames: if the server takes frames of two requests for one, two threads
\* were within SendRequest at a time.
THEOREM MisreadNeedsOverlap == Spec => []MisreadOnlyIfOverlapped
<1>1. ProcessInv => MisreadOnlyIfOverlapped
    BY DEF ProcessInv, ProcessTypeOK, FrameTypeOK, OneByOne, MisreadOnlyIfOverlapped
<1> QED
    BY <1>1, ProcessInvariant, PTL

\* For any number of frames and however requests overlapped: between requests the server
\* is at the beginning of one (Server::Run reads Frames + 1 frames for each).
THEOREM ServerFindsRequests == Spec => []ServerRealigns
<1>1. ProcessInv => ServerRealigns
    <2> SUFFICES ASSUME ProcessInv, \A t \in Senders : next[t] = 0
                 PROVE  group = <<>> /\ ~open
        BY DEF ServerRealigns
    <2>1. Within = {} /\ ~open
        BY DEF Within, ProcessInv, Aligned
    <2>2. Unfinished = 0
        BY <2>1, ProcessAssumption DEF Unfinished, Sent
    <2>3. group \in Seq(AnyFrame) /\ Len(group) \in Nat
        BY LenProperties DEF ProcessInv, ProcessTypeOK, FrameTypeOK, AnyFrame
    <2>4. Len(group) = 0
        BY <2>2, <2>3, FramesAssumption DEF ProcessInv, Aligned
    <2> QED
        BY <2>1, <2>3, <2>4, EmptySeq
<1> QED
    BY <1>1, ProcessInvariant, PTL

-----------------------------------------------------------------------------
(***************************************************************************)
(* The way of a message through receiver, queue, observer and event loop   *)
(* is a MessageFifo: each step is one of it or leaves it as it is.         *)
(***************************************************************************)
pending == events \o hand \o queue

LEMMA PipeSequences ==
    ASSUME PipeTyped
    PROVE  /\ events \in Seq(1 .. taken) /\ hand \in Seq(1 .. taken) /\ queue \in Seq(1 .. taken)
           /\ events \o hand \in Seq(1 .. taken)
           /\ pending \in Seq(1 .. taken)
BY ConcatProperties DEF PipeTyped, pending

LEMMA HeadTailOfConcat ==
    ASSUME NEW S, NEW s \in Seq(S), NEW t \in Seq(S), s # <<>>
    PROVE  /\ s \o t # <<>>
           /\ Head(s \o t) = Head(s)
           /\ Tail(s \o t) = Tail(s) \o t
<1>1. Len(s) \in Nat \ {0} /\ Len(t) \in Nat
    BY EmptySeq, LenProperties
<1> DEFINE st == s \o t
<1>2. /\ st \in Seq(S) /\ Len(st) = Len(s) + Len(t)
      /\ \A i \in 1 .. Len(s) + Len(t) : st[i] = IF i <= Len(s) THEN s[i] ELSE t[i - Len(s)]
    BY ConcatProperties
<1> HIDE DEF st
<1>3. st # <<>>
    BY <1>1, <1>2, EmptySeq
<1>4. Head(st) = Head(s)
    <2>1. st[1] = s[1]
        BY <1>1, <1>2
    <2> QED
        BY <1>2, <1>3, <2>1
<1>5. /\ Tail(st) \in Seq(S) /\ Len(Tail(st)) = Len(s) + Len(t) - 1
      /\ \A i \in 1 .. Len(s) + Len(t) - 1 : Tail(st)[i] = st[i + 1]
    BY <1>2, <1>3, HeadTailProperties
<1>6. /\ Tail(s) \in Seq(S) /\ Len(Tail(s)) = Len(s) - 1
      /\ \A i \in 1 .. Len(s) - 1 : Tail(s)[i] = s[i + 1]
    BY HeadTailProperties
<1> DEFINE rest == Tail(s)
<1> HIDE DEF rest
<1> DEFINE rt == rest \o t
<1>7. /\ rt \in Seq(S) /\ Len(rt) = Len(s) + Len(t) - 1
      /\ \A i \in 1 .. Len(s) + Len(t) - 1 :
            rt[i] = IF i <= Len(s) - 1 THEN rest[i] ELSE t[i - (Len(s) - 1)]
    <2>1. /\ rt \in Seq(S) /\ Len(rt) = Len(rest) + Len(t)
          /\ \A i \in 1 .. Len(rest) + Len(t) :
                rt[i] = IF i <= Len(rest) THEN rest[i] ELSE t[i - Len(rest)]
        BY <1>6, ConcatProperties DEF rest
    <2>2. Len(rest) = Len(s) - 1 /\ Len(rest) + Len(t) = Len(s) + Len(t) - 1
        BY <1>1, <1>6 DEF rest
    <2> HIDE DEF rt
    <2> QED
        BY <2>1, <2>2
<1> HIDE DEF rt
<1>8. ASSUME NEW i \in 1 .. Len(s) + Len(t) - 1
      PROVE  Tail(st)[i] = rt[i]
    <2>1. Tail(st)[i] = st[i + 1] /\ i + 1 \in 1 .. Len(s) + Len(t)
        BY <1>1, <1>5
    <2>2. CASE i <= Len(s) - 1
        <3>1. i \in 1 .. Len(s) - 1 /\ i + 1 <= Len(s)
            BY <1>1, <2>2
        <3>2. st[i + 1] = s[i + 1] /\ rest[i] = s[i + 1]
            BY <1>2, <1>6, <2>1, <3>1 DEF rest
        <3>3. rt[i] = rest[i]
            BY <1>1, <1>7, <2>2
        <3> QED
            BY <2>1, <3>2, <3>3
    <2>3. CASE i > Len(s) - 1
        <3>1. st[i + 1] = t[i + 1 - Len(s)]
            BY <1>1, <1>2, <2>1, <2>3
        <3>2. rt[i] = t[i - (Len(s) - 1)]
            BY <1>1, <1>7, <2>3
        <3>3. i + 1 - Len(s) = i - (Len(s) - 1)
            BY <1>1
        <3> QED
            BY <2>1, <3>1, <3>2, <3>3
    <2>4. i <= Len(s) - 1 \/ i > Len(s) - 1
        BY <1>1
    <2> QED
        BY <2>2, <2>3, <2>4
<1>9. Tail(st) = rt
    <2>1. Len(Tail(st)) = Len(rt) /\ \A i \in 1 .. Len(Tail(st)) : Tail(st)[i] = rt[i]
        BY <1>5, <1>7, <1>8
    <2> QED
        BY <1>5, <1>7, <2>1, SeqEqual
<1> QED
    BY <1>3, <1>4, <1>9 DEF st, rt, rest

\* Taking the first element apart, or out of the middle.
LEMMA HeadAndTail ==
    ASSUME NEW S, NEW s \in Seq(S), s # <<>>
    PROVE  <<Head(s)>> \o Tail(s) = s
<1>1. Head(s) \in S /\ Tail(s) \in Seq(S) /\ Len(s) \in Nat \ {0}
    BY HeadTailProperties, EmptySeq
<1>2. Tail(s) = SubSeq(s, 2, Len(s)) /\ SubSeq(s, 1, Len(s)) = s
    BY TailIsSubSeq, SubSeqFull
<1>3. SubSeq(s, 1, Len(s)) = <<s[1]>> \o SubSeq(s, 1 + 1, Len(s))
    <2>1. 1 \in 1 .. Len(s) /\ Len(s) \in 1 .. Len(s)
        BY <1>1
    <2> QED
        BY <2>1, SubSeqRecursiveFirst
<1>4. Head(s) = s[1] /\ 1 + 1 = 2
    OBVIOUS
<1> QED
    BY <1>2, <1>3, <1>4

Without(p, i) == SubSeq(p, 1, i - 1) \o SubSeq(p, i + 1, Len(p))

LEMMA OutOfTheMiddle ==
    ASSUME NEW S, NEW e \in Seq(S), NEW h \in S, NEW q \in Seq(S),
           NEW p, p = (e \o <<h>>) \o q
    PROVE  \E i \in DOMAIN p : Without(p, i) = e \o q
<1> DEFINE n == Len(e)
           m == Len(q)
<1>1. n \in Nat /\ m \in Nat
    BY LenProperties
<1>2. /\ e \o <<h>> \in Seq(S) /\ Len(e \o <<h>>) = n + 1
      /\ \A i \in 1 .. n + 1 : (e \o <<h>>)[i] = IF i <= n THEN e[i] ELSE <<h>>[i - n]
    <2>1. <<h>> \in Seq(S) /\ Len(<<h>>) = 1
        OBVIOUS
    <2> QED
        BY <2>1, ConcatProperties
<1> DEFINE eh == e \o <<h>>
<1> HIDE DEF eh
<1>3. /\ eh \o q \in Seq(S) /\ Len(eh \o q) = n + 1 + m
      /\ \A i \in 1 .. n + 1 + m : (eh \o q)[i] = IF i <= n + 1 THEN eh[i] ELSE q[i - (n + 1)]
    BY <1>2, ConcatProperties DEF eh
<1> DEFINE r == eh \o q
<1> HIDE DEF r
<1>4. \A i \in 1 .. n + 1 + m : r[i] \in S
    BY <1>1, <1>3, ElementOfSeq DEF r
<1>5. SubSeq(r, 1, n) = e
    <2>1. /\ SubSeq(r, 1, n) \in Seq(S)
          /\ Len(SubSeq(r, 1, n)) = IF 1 <= n THEN n - 1 + 1 ELSE 0
          /\ \A i \in 1 .. n - 1 + 1 : SubSeq(r, 1, n)[i] = r[1 + i - 1]
        <3>1. 1 \in Int /\ n \in Int /\ \A i \in 1 .. n : r[i] \in S
            BY <1>1, <1>4
        <3> QED
            BY <3>1, SubSeqProperties
    <2>2. Len(SubSeq(r, 1, n)) = n
        BY <1>1, <2>1
    <2>3. ASSUME NEW i \in 1 .. n PROVE SubSeq(r, 1, n)[i] = e[i]
        <3>1. SubSeq(r, 1, n)[i] = r[i]
            BY <1>1, <2>1
        <3>2. r[i] = eh[i] /\ eh[i] = e[i]
            BY <1>1, <1>2, <1>3 DEF r, eh
        <3> QED
            BY <3>1, <3>2
    <2> QED
        BY <2>1, <2>2, <2>3, SeqEqual
<1>6. SubSeq(r, n + 2, n + 1 + m) = q
    <2>1. /\ SubSeq(r, n + 2, n + 1 + m) \in Seq(S)
          /\ Len(SubSeq(r, n + 2, n + 1 + m)) =
               IF n + 2 <= n + 1 + m THEN n + 1 + m - (n + 2) + 1 ELSE 0
          /\ \A i \in 1 .. n + 1 + m - (n + 2) + 1 :
               SubSeq(r, n + 2, n + 1 + m)[i] = r[n + 2 + i - 1]
        <3>1. n + 2 \in Int /\ n + 1 + m \in Int /\ \A i \in n + 2 .. n + 1 + m : r[i] \in S
            BY <1>1, <1>4
        <3> QED
            BY <3>1, SubSeqProperties
    <2>2. Len(SubSeq(r, n + 2, n + 1 + m)) = m
        BY <1>1, <2>1
    <2>3. ASSUME NEW i \in 1 .. m PROVE SubSeq(r, n + 2, n + 1 + m)[i] = q[i]
        <3>1. i \in 1 .. n + 1 + m - (n + 2) + 1 /\ n + 2 + i - 1 = n + 1 + i
            BY <1>1
        <3>2. SubSeq(r, n + 2, n + 1 + m)[i] = r[n + 1 + i]
            BY <2>1, <3>1
        <3>3. n + 1 + i \in 1 .. n + 1 + m /\ ~(n + 1 + i <= n + 1) /\ n + 1 + i - (n + 1) = i
            BY <1>1
        <3>4. r[n + 1 + i] = q[i]
            BY <1>3, <3>3 DEF r
        <3> QED
            BY <3>2, <3>4
    <2> QED
        BY <2>1, <2>2, <2>3, SeqEqual
<1>7. r = p /\ Len(p) = n + 1 + m /\ DOMAIN p = 1 .. n + 1 + m
    BY <1>1, <1>3, LenProperties DEF r, eh
<1>8. n + 1 \in DOMAIN p /\ (n + 1) - 1 = n /\ (n + 1) + 1 = n + 2
    BY <1>1, <1>7
<1> HIDE DEF n, m
<1>9. Without(p, n + 1) = e \o q
    BY <1>5, <1>6, <1>7, <1>8 DEF Without
<1> QED
    BY <1>8, <1>9

\* ReceiveMessage is Take.
LEMMA ReceiveTakes ==
    ASSUME PipeTyped, ReceiveMessage
    PROVE  Fifo!Take
<1>1. taken \in Nat /\ taken' = taken + 1 /\ taken < Messages
    BY DEF ReceiveMessage, PipeTyped
<1>2. events \o hand \in Seq(Nat) /\ queue \in Seq(Nat)
    <2>1. 1 .. taken \subseteq Nat
        OBVIOUS
    <2> QED
        BY <2>1, PipeSequences, SeqMonotonic
<1>3. queue' = queue \o <<taken'>> /\ <<taken'>> \in Seq(Nat)
    BY <1>1, <1>2, AppendIsConcat DEF ReceiveMessage, Enqueue
<1>4. (events \o hand) \o queue' = ((events \o hand) \o queue) \o <<taken'>>
    BY <1>2, <1>3, ConcatAssociative
<1>5. ((events \o hand) \o queue) \in Seq(Nat)
    BY <1>2, ConcatProperties
<1>6. (events \o hand) \o queue' = Append((events \o hand) \o queue, taken')
    BY <1>1, <1>4, <1>5, AppendIsConcat
<1>7. UNCHANGED <<events, hand, shown>> /\ UNCHANGED Listening
    BY DEF ReceiveMessage, Receiver, Listening
<1> QED
    BY <1>1, <1>6, <1>7 DEF Fifo!Take

\* ComeUp is ComeUp.
LEMMA WindowShows ==
    ASSUME PipeTyped, ComeUp
    PROVE  Fifo!ComeUp
<1>1. events # <<>> /\ shown' = Append(shown, Head(events)) /\ events' = Tail(events)
      /\ UNCHANGED <<taken, hand, queue>>
    BY DEF ComeUp
<1>2. Listening /\ UNCHANGED Listening
    BY DEF ComeUp, Main, Listening
<1>3. /\ events \o (hand \o queue) = (events \o hand) \o queue
      /\ Tail(events) \o (hand \o queue) = (Tail(events) \o hand) \o queue
      /\ Tail(events) \in Seq(1 .. taken) /\ hand \o queue \in Seq(1 .. taken)
    <2>1. events \in Seq(1 .. taken) /\ hand \in Seq(1 .. taken) /\ queue \in Seq(1 .. taken)
        BY PipeSequences
    <2>2. Tail(events) \in Seq(1 .. taken) /\ hand \o queue \in Seq(1 .. taken)
        BY <1>1, <2>1, ConcatProperties, HeadTailProperties
    <2> QED
        BY <2>1, <2>2, ConcatAssociative
<1>4. LET s == events \o (hand \o queue)
      IN  s # <<>> /\ Head(s) = Head(events) /\ Tail(s) = Tail(events) \o (hand \o queue)
    BY <1>1, <1>3, PipeSequences, HeadTailOfConcat
<1> QED
    BY <1>1, <1>2, <1>3, <1>4 DEF Fifo!ComeUp


\* TryGetMessage, which finds nothing in hand, moves a message within what is pending.
LEMMA PopMoves ==
    ASSUME PipeTyped, Places, TryGetMessage
    PROVE  UNCHANGED <<taken, pending, shown, Listening>>
<1>1. /\ hand = <<>> /\ queue # <<>>
      /\ hand' = <<Head(queue)>> /\ queue' = Tail(queue)
      /\ UNCHANGED <<taken, events, shown, main>>
    BY DEF TryGetMessage, Pop, Receiver, Places
<1>2. Head(queue) \in 1 .. taken /\ Tail(queue) \in Seq(1 .. taken)
    BY <1>1, PipeSequences, HeadTailProperties
<1> DEFINE h == <<Head(queue)>>
           q == Tail(queue)
<1>3. h \in Seq(1 .. taken) /\ h \o q = queue
    BY <1>1, <1>2, PipeSequences, HeadAndTail
<1>4. (events \o h) \o q = events \o (h \o q)
    BY <1>2, <1>3, PipeSequences, ConcatAssociative
<1>5. events \o hand = events
    BY <1>1, PipeSequences, ConcatEmptySeq
<1> QED
    BY <1>1, <1>3, <1>4, <1>5 DEF pending, Listening

\* Emit moves it on, or loses it when nobody listens.
LEMMA EmitMovesOrLoses ==
    ASSUME PipeTyped, Places, Emit
    PROVE  UNCHANGED <<taken, pending, shown, Listening>> \/ Fifo!Lose
<1>1. /\ hand # <<>> /\ hand' = <<>>
      /\ UNCHANGED <<taken, queue, shown, main>>
    BY DEF Emit, Receiver, Places
<1>2. UNCHANGED Listening
    BY <1>1 DEF Listening
<1>3. CASE events' = events \o hand
    <2>1. (events \o hand) \o <<>> = events \o hand
        BY PipeSequences, ConcatEmptySeq
    <2> QED
        BY <1>1, <1>2, <1>3, <2>1 DEF pending
<1>4. CASE ~Listening /\ UNCHANGED events
    <2>1. PICK h \in 1 .. taken : hand = <<h>>
        <3>1. Len(hand) = 1
            <4> DEFINE n == Len(hand)
            <4>1. n \in Nat \ {0}
                BY <1>1, PipeSequences, EmptySeq
            <4>2. n <= 1
                BY DEF PipeTyped
            <4> HIDE DEF n
            <4>3. n = 1
                BY <4>1, <4>2
            <4> QED
                BY <4>3 DEF n
        <3>2. hand[1] \in 1 .. taken
            <4>1. 1 \in 1 .. Len(hand)
                BY <3>1
            <4> QED
                BY <4>1, PipeSequences, ElementOfSeq
        <3>3. hand = <<hand[1]>>
            <4>1. <<hand[1]>> \in Seq(1 .. taken) /\ Len(<<hand[1]>>) = 1
                BY <3>2
            <4>2. \A i \in 1 .. Len(hand) : hand[i] = <<hand[1]>>[i]
                BY <3>1
            <4> QED
                BY <3>1, <4>1, <4>2, PipeSequences, SeqEqual
        <3> QED
            BY <3>2, <3>3
    <2>2. \E i \in DOMAIN pending :
            Without(pending, i) = events \o queue
        <3>1. events \in Seq(1 .. taken) /\ queue \in Seq(1 .. taken)
            BY PipeSequences
        <3>2. pending = (events \o <<h>>) \o queue
            BY <2>1 DEF pending
        <3> QED
            <4> DEFINE S == 1 .. taken
            <4>1. events \in Seq(S) /\ queue \in Seq(S) /\ h \in S
                BY <3>1
            <4> HIDE DEF S
            <4> QED
                BY <3>2, <4>1, OutOfTheMiddle
    <2>3. pending' = events \o queue
        BY <1>1, <1>4, PipeSequences, ConcatEmptySeq DEF pending
    <2> QED
        BY <1>1, <1>2, <1>4, <2>2, <2>3 DEF Fifo!Lose, pending, Without
<1> QED
    BY <1>3, <1>4 DEF Emit

\* All other steps leave the messages where they are; two of main's connect the window and
\* take it away.
LEMMA OtherStepsListen ==
    ASSUME [Next]_vars, ~ReceiveMessage, ~ComeUp, ~TryGetMessage, ~Emit
    PROVE  /\ UNCHANGED <<taken, events, hand, queue, shown>>
           /\ Listening' = Listening \/ Listening' = ~Listening
<1>1. Listening' = Listening \/ Listening' = ~Listening
    BY DEF Listening
<1>2. CASE UNCHANGED vars
    BY <1>1, <1>2 DEF vars, pipeVars
<1>3. CASE MainStep
    BY <1>1, <1>3 DEF MainStep, Subscribe, BuildWindow, StartConsole, MainReadsFile, MainSends,
        JoinConsole, DestroyWindow, DropClient, JoinReceiver, Leave, pipeVars
<1>4. CASE ReceiverStep
    BY <1>1, <1>4 DEF ReceiverStep, ReceiverStops, NotifyObserver, Update, Lock, Release,
        HandleMessage, WriteFile, pipeVars
<1>5. CASE ConsoleStep
    BY <1>1, <1>5 DEF ConsoleStep, ConsoleLoop, ReadPastEnd, ProcessLine, ConsoleReadsFile,
        ConsoleSends, pipeVars
<1>6. CASE AskInWindow \/ CloseWindow \/ ReadLine \/ Interrupt
    BY <1>1, <1>6 DEF AskInWindow, CloseWindow, ReadLine, Interrupt, pipeVars
<1> QED
    BY <1>2, <1>3, <1>4, <1>5, <1>6 DEF Next, Outside

\* Whatever the threads do, messages come up in the window in the order in which the socket
\* gave them, each once, and none is lost while the window listens: the process implements
\* MessageFifo (Client::ReceiveMessage, MessageQueue, QtMessageObserver::Update).
THEOREM ProcessIsFifo == Spec => FifoRefined
<1>1. Init => Fifo!FifoInit
    <2> SUFFICES ASSUME Init PROVE Fifo!FifoInit
        OBVIOUS
    <2>1. (<<>> \o <<>>) \o <<>> = <<>>
        BY EmptySeq, ConcatEmptySeq
    <2> QED
        BY <2>1 DEF Init, Fifo!FifoInit, Listening
<1>2. ProcessInv /\ [Next]_vars => [Fifo!FifoNext]_(Fifo!fifoVars)
    <2> SUFFICES ASSUME ProcessInv, [Next]_vars
                 PROVE  Fifo!FifoNext \/ UNCHANGED <<taken, pending, shown, Listening>>
        BY DEF Fifo!fifoVars, pending
    <2>1. PipeTyped /\ Places
        BY TypeParts DEF ProcessInv
    <2>2. CASE ReceiveMessage
        BY <2>1, <2>2, ReceiveTakes DEF Fifo!FifoNext
    <2>3. CASE ComeUp
        BY <2>1, <2>3, WindowShows DEF Fifo!FifoNext
    <2>4. CASE TryGetMessage
        BY <2>1, <2>4, PopMoves
    <2>5. CASE Emit
        BY <2>1, <2>5, EmitMovesOrLoses DEF Fifo!FifoNext
    <2>6. CASE ~ReceiveMessage /\ ~ComeUp /\ ~TryGetMessage /\ ~Emit
        <3>1. /\ UNCHANGED <<taken, events, hand, queue, shown>>
              /\ Listening' = Listening \/ Listening' = ~Listening
            BY <2>6, OtherStepsListen
        <3>2. Listening' = ~Listening => Fifo!Listen
            BY <3>1 DEF Fifo!Listen
        <3> QED
            BY <3>1, <3>2 DEF Fifo!FifoNext, pending
    <2> QED
        BY <2>2, <2>3, <2>4, <2>5, <2>6
<1> QED
    BY <1>1, <1>2, ProcessInvariant, PTL DEF Spec, FifoRefined, Fifo!FifoSpec
=============================================================================
