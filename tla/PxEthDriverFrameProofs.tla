------------------------ MODULE PxEthDriverFrameProofs ------------------------
(***************************************************************************)
(* Where the frames and the receive buffers of the Ethernet driver are,    *)
(* for every number of frames, buffers, descriptors and retries.           *)
(***************************************************************************)
EXTENDS PxEthDriverProofs, FiniteSetTheorems

USE BoundsAssumption, RingsAssumption, RetriesAssumption, FaultsAssumption

-----------------------------------------------------------------------------
(***************************************************************************)
(* A sender gets its message back after the frame was transmitted.  The    *)
(* frame being sent is the only one in the ring or was transmitted: what a *)
(* timeout repeats, or gives up, is a frame whose interrupt was lost.      *)
(***************************************************************************)
WiredInv ==
    /\ answered \subseteq wired
    /\ txStatus = "SENDING" =>
          \/ txMsg \in wired
          \/ txRing # <<>> /\ Head(txRing) = txMsg

LEMMA WiredInvInductive ==
    ASSUME TypeInv, AssertInv, WiredInv, [Next]_vars, mishaps' = {}
    PROVE  WiredInv'
<1>. USE DEF WiredInv, taskVars, txVars, rxVars, envVars
<1>1. pc = "write" => txRing = <<>> /\ txMsg # NoMsg
  BY DEF AssertInv, NoCompletion, InRing
<1>2. CASE TransmitEvent
  <2>1. txStatus = "SENDING" /\ txRing = <<>>
    BY <1>2 DEF TransmitEvent, AssertInv, OneCompletion, InRing, InHand
  <2>2. /\ answered' = answered \cup {txMsg} /\ wired' = wired
        /\ txStatus' = "IDLE"
    BY <1>2 DEF TransmitEvent, TxFinish, StatusAfterFinish
  <2>3. QED
    BY <2>1, <2>2
<1>3. CASE GiveUp
  <2>1. txStatus = "SENDING"
    BY <1>3 DEF GiveUp, WhyGivenUp, AssertInv, RetriesExceeded, Starting
  <2>2. /\ answered' = answered \cup {txMsg} /\ wired' = wired
        /\ txStatus' = "IDLE"
    BY <1>3, <2>1 DEF GiveUp, TxFinish, StatusAfterFinish
  <2>3. QED
    BY <1>1, <1>3, <2>1, <2>2 DEF GiveUp
<1>4. CASE HandToDma
  <2>1. txRing = <<>> /\ Len(txRing) < TxRing
    BY <1>1, <1>4 DEF HandToDma
  <2>2. txRing' = Append(txRing, txMsg)
    BY <1>4, <2>1 DEF HandToDma
  <2>3. txMsg \in Frames
    BY <1>4 DEF HandToDma, TypeInv, TypeOK
  <2>4. txRing' # <<>> /\ Head(txRing') = txMsg
    BY <2>1, <2>2, <2>3
  <2>5. QED
    BY <1>4, <2>4 DEF HandToDma
<1>5. CASE DmaTransmit
  BY <1>5 DEF DmaTransmit
<1>6. CASE SendNow
  BY <1>6 DEF SendNow
<1>7. CASE UNCHANGED <<answered, wired, txStatus, txMsg, txRing>>
  BY <1>7
<1>8. CASE LinkUp
  BY <1>8 DEF LinkUp
<1>9. CASE \/ Setup \/ Receive \/ NothingToRead \/ ReadFrame
           \/ NoTransmitEvent \/ TransmitAssertFails \/ Timeout
           \/ WriteAssertFails \/ WriteWithoutData \/ ClearTransmitFlag \/ CountTry
           \/ PollRead \/ PollSignal
           \/ NoMessage \/ ReturnBuffer \/ SendAssertFails \/ SendLater
           \/ Interrupt \/ DmaReceive \/ Expire \/ Stack \/ UNCHANGED vars
  <2>1. UNCHANGED <<answered, wired, txStatus, txMsg, txRing>>
    BY <1>9 DEF Setup, Receive, NothingToRead, ReadFrame, NoTransmitEvent, TransmitAssertFails,
                Timeout, WriteAssertFails, WriteWithoutData, ClearTransmitFlag, CountTry,
                PollRead, PollSignal, NoMessage, ReturnBuffer, SendAssertFails, SendLater,
                Interrupt, DmaReceive, Expire, Stack, SubmitFrame, SubmitBuffer, vars
  <2>2. QED
    BY <1>7, <2>1
<1>10. QED
  BY <1>2, <1>3, <1>4, <1>5, <1>6, <1>8, <1>9
     DEF Next, Driver, Hardware, WriteFrame, HandleMessage

(***************************************************************************)
(* As long as the link has stayed up, the data of each frame could be      *)
(* accessed and the DMA was done within the timeout, a sender gets its     *)
(* message back only after the frame was transmitted, even when EthWrite   *)
(* has cleared the flag of a transmission and the driver repeats the frame *)
(* or gives it up.                                                         *)
(***************************************************************************)
THEOREM AnswersFollowTransmission == Spec => []AnsweredAfterTransmitted
<1>. DEFINE Inv == mishaps = {} => AssertInv /\ WiredInv
<1>1. Init => Inv
  <2>1. Init => AssertInv
    BY AssertInvInitially
  <2>2. QED
    BY <2>1 DEF Init, WiredInv
<1>2. TypeInv /\ Inv /\ [Next]_vars => Inv'
  <2>. SUFFICES ASSUME TypeInv, Inv, [Next]_vars, mishaps' = {}
                PROVE  AssertInv' /\ WiredInv'
    OBVIOUS
  <2>1. mishaps = {}
    BY MishapsStay
  <2>2. QED
    BY <2>1, AssertInvInductive, WiredInvInductive
<1>3. Inv => AnsweredAfterTransmitted
  BY DEF WiredInv, AnsweredAfterTransmitted
<1>. HIDE DEF Inv
<1>4. QED
  BY <1>1, <1>2, <1>3, TypeCorrectStrong, PTL DEF Spec

-----------------------------------------------------------------------------
(***************************************************************************)
(* How often a message is in a mailbox, after a send and after a receive.  *)
(***************************************************************************)
Positions(s, v) == {i \in DOMAIN s : s[i] = v}

LEMMA CountIsCardinality ==
    ASSUME NEW s, NEW v
    PROVE  Count(s, v) = Cardinality(Positions(s, v))
BY DEF Count, Positions

LEMMA PositionsFinite ==
    ASSUME NEW S, NEW s \in Seq(S), NEW v
    PROVE  IsFiniteSet(Positions(s, v)) /\ Count(s, v) \in Nat
<1>1. IsFiniteSet(1..Len(s)) /\ Positions(s, v) \in SUBSET (1..Len(s))
  BY FS_Interval DEF Positions
<1>2. IsFiniteSet(Positions(s, v))
  BY <1>1, FS_Subset
<1>3. QED
  BY <1>2, FS_CardinalityType, CountIsCardinality

LEMMA CountAppend ==
    ASSUME NEW S, NEW s \in Seq(S), NEW e \in S, NEW v
    PROVE  Count(Append(s, e), v) = Count(s, v) + One(e = v)
<1>1. /\ DOMAIN s = 1..Len(s) /\ DOMAIN Append(s, e) = 1..(Len(s) + 1) /\ Len(s) \in Nat
      /\ \A i \in 1..Len(s) : Append(s, e)[i] = s[i]
      /\ Append(s, e)[Len(s) + 1] = e
  OBVIOUS
<1>2. /\ IsFiniteSet(Positions(s, v)) /\ Count(s, v) \in Nat
      /\ Count(s, v) = Cardinality(Positions(s, v))
      /\ Count(Append(s, e), v) = Cardinality(Positions(Append(s, e), v))
  BY PositionsFinite, CountIsCardinality
<1>3. CASE e = v
  <2>1. Positions(Append(s, e), v) = Positions(s, v) \cup {Len(s) + 1}
    BY <1>1, <1>3 DEF Positions
  <2>2. Len(s) + 1 \notin Positions(s, v)
    BY <1>1 DEF Positions
  <2>3. Cardinality(Positions(s, v) \cup {Len(s) + 1}) = Cardinality(Positions(s, v)) + 1
    BY <1>2, <2>2, FS_AddElement
  <2>4. QED
    BY <1>2, <1>3, <2>1, <2>3 DEF One
<1>4. CASE e # v
  <2>1. Positions(Append(s, e), v) = Positions(s, v)
    BY <1>1, <1>4 DEF Positions
  <2>2. QED
    BY <1>2, <1>4, <2>1 DEF One
<1>5. QED
  BY <1>3, <1>4

LEMMA CountTail ==
    ASSUME NEW S, NEW s \in Seq(S), s # <<>>, NEW v
    PROVE  /\ Count(s, v) = Count(Tail(s), v) + One(Head(s) = v)
           /\ Count(Tail(s), v) \in Nat
<1>1. /\ DOMAIN s = 1..Len(s) /\ DOMAIN Tail(s) = 1..(Len(s) - 1) /\ Len(s) \in Nat \ {0}
      /\ \A i \in 1..(Len(s) - 1) : Tail(s)[i] = s[i + 1]
      /\ Head(s) = s[1]
  OBVIOUS
<1>. DEFINE later == Positions(s, v) \ {1}
            shift == [i \in Positions(Tail(s), v) |-> i + 1]
<1>2. shift \in [Positions(Tail(s), v) -> later]
  BY <1>1 DEF Positions
<1>3. \A i, j \in Positions(Tail(s), v) : shift[i] = shift[j] => i = j
  BY <1>1 DEF Positions
<1>4. ASSUME NEW j \in later PROVE \E i \in Positions(Tail(s), v) : shift[i] = j
  <2>1. j - 1 \in Positions(Tail(s), v)
    <3>1. j \in 2..Len(s) /\ s[j] = v
      BY <1>1 DEF Positions
    <3>2. j - 1 \in 1..(Len(s) - 1) /\ Tail(s)[j - 1] = s[(j - 1) + 1] /\ (j - 1) + 1 = j
      BY <1>1, <3>1
    <3>3. QED
      BY <1>1, <3>1, <3>2 DEF Positions
  <2>2. shift[j - 1] = j
    BY <1>1, <2>1 DEF Positions
  <2>3. QED
    BY <2>1, <2>2
<1>5. ExistsBijection(Positions(Tail(s), v), later)
  <2>1. shift \in Bijection(Positions(Tail(s), v), later)
    BY <1>2, <1>3, <1>4 DEF Bijection, Injection, Surjection, IsInjective
  <2>2. QED
    BY <2>1 DEF ExistsBijection
<1>6. /\ IsFiniteSet(Positions(Tail(s), v)) /\ Count(Tail(s), v) \in Nat
      /\ IsFiniteSet(Positions(s, v)) /\ Count(s, v) \in Nat
  <2>1. Tail(s) \in Seq(S)
    BY HeadTailType
  <2>2. QED
    BY <2>1, PositionsFinite
<1>7. Cardinality(later) = Count(Tail(s), v)
  BY <1>5, <1>6, FS_Bijection, CountIsCardinality
<1>8. Cardinality(later) = IF 1 \in Positions(s, v) THEN Count(s, v) - 1 ELSE Count(s, v)
  BY <1>6, FS_RemoveElement, CountIsCardinality
<1>9. 1 \in Positions(s, v) <=> Head(s) = v
  BY <1>1 DEF Positions
<1>10. QED
  BY <1>6, <1>7, <1>8, <1>9 DEF One

LEMMA CountEmpty == ASSUME NEW v PROVE Count(<<>>, v) = 0
<1>1. {i \in DOMAIN <<>> : <<>>[i] = v} = {}
  OBVIOUS
<1>2. QED
  BY <1>1, FS_EmptySet DEF Count

-----------------------------------------------------------------------------
(***************************************************************************)
(* The message being handled is gone before the driver waits again, and    *)
(* before it sends the frame of that message.                              *)
(***************************************************************************)
HandInv ==
    \/ pc \in {"setup", "link", "receive"}
    \/ pc \in {"write", "clear", "start"} /\ retTo = "receive"
    => ioMsg = NoMsg

LEMMA HandInvInductive ==
    ASSUME TypeOK, HandInv, [Next]_vars
    PROVE  HandInv'
<1>. USE DEF HandInv, taskVars
<1>1. CASE Setup
  BY <1>1 DEF Setup
<1>2. CASE LinkUp
  BY <1>2 DEF LinkUp
<1>3. CASE Receive \/ NothingToRead \/ ReadFrame \/ PollRead \/ PollSignal
  BY <1>3 DEF Receive, NothingToRead, ReadFrame, DropFrame, DeliverFrame, PollRead, PollSignal
<1>4. CASE NoTransmitEvent \/ TransmitEvent \/ TransmitAssertFails \/ Timeout
  BY <1>4 DEF NoTransmitEvent, TransmitEvent, TakeNext, TransmitAssertFails, Abort, Timeout
<1>5. CASE WriteFrame
  BY <1>5 DEF WriteFrame, GiveUp, WriteAssertFails, Abort, WriteWithoutData, HandToDma,
              ClearTransmitFlag, CountTry, TypeOK
<1>6. CASE HandleMessage
  BY <1>6 DEF HandleMessage, NoMessage, ReturnBuffer, SendNow, SendAssertFails, Abort,
              SendLater, Continue
<1>7. CASE Hardware \/ Stack \/ UNCHANGED vars
  <2>1. UNCHANGED taskVars
    BY <1>7 DEF Hardware, Stack, Interrupt, DmaTransmit, DmaReceive, Expire, SubmitFrame,
                SubmitBuffer, vars
  <2>2. QED
    BY <2>1
<1>8. QED
  BY <1>1, <1>2, <1>3, <1>4, <1>5, <1>6, <1>7 DEF Next, Driver

\* A message received is in the hands of the driver instead of its mailbox.
LEMMA ReceiveMoves ==
    ASSUME TypeOK, HandInv, Receive, NEW msg \in Frames \cup {RxBuf}
    PROVE  Count(taskMbx', msg) + One(ioMsg' = msg) = Count(taskMbx, msg) + One(ioMsg = msg)
<1>1. ioMsg = NoMsg /\ msg # NoMsg
  BY MessageKinds DEF Receive, HandInv
<1>2. CASE taskMbx = <<>>
  BY <1>2 DEF Receive, HandInv
<1>3. CASE taskMbx # <<>>
  <2>1. taskMbx' = Tail(taskMbx) /\ ioMsg' = Head(taskMbx)
    BY <1>3 DEF Receive
  <2>2. taskMbx \in Seq(Frames \cup {RxBuf})
    BY DEF TypeOK
  <2>3. /\ Count(taskMbx, msg) = Count(Tail(taskMbx), msg) + One(Head(taskMbx) = msg)
        /\ Count(Tail(taskMbx), msg) \in Nat
    BY <1>3, <2>2, CountTail
  <2>4. QED
    BY <1>1, <2>1, <2>3 DEF One
<1>4. QED
  BY <1>2, <1>3

LEMMA NewFrame ==
    ASSUME TypeOK, SubmitFrame
    PROVE  sent + 1 \in Frames /\ sent + 1 \in Frames \cup {RxBuf}
BY DEF SubmitFrame, TypeOK, Frames

(***************************************************************************)
(* A step moves a buffer from one place to the next, or none.              *)
(***************************************************************************)
LEMMA BuffersConservedInductive ==
    ASSUME TypeOK, HandInv, BuffersConserved, [Next]_vars
    PROVE  BuffersConserved'
<1>. DEFINE inHand == One(ioMsg = RxBuf)
            inMbx == Count(taskMbx, RxBuf)
<1>1. /\ BuffersConserved <=> rxBufMbx + inMbx + inHand + atStack = RxBuffers
      /\ BuffersConserved' <=> rxBufMbx' + inMbx' + inHand' + atStack' = RxBuffers
  BY DEF BuffersConserved, Lent
<1>2. /\ taskMbx \in Seq(Frames \cup {RxBuf}) /\ rxBufMbx \in Nat /\ atStack \in Nat
      /\ RxBuf \in Frames \cup {RxBuf}
  BY DEF TypeOK
<1>3. inMbx \in Nat /\ inHand \in {0, 1} /\ inHand' \in {0, 1}
  BY <1>2, PositionsFinite DEF One
<1>4. CASE Receive
  <2>1. rxBufMbx' = rxBufMbx /\ atStack' = atStack
    BY <1>4 DEF Receive, rxVars
  <2>2. inMbx' + inHand' = inMbx + inHand
    BY <1>2, <1>4, ReceiveMoves
  <2>3. inMbx' \in Nat
    <3>1. taskMbx' \in Seq(Frames \cup {RxBuf})
      BY <1>2, <1>4, HeadTailType DEF Receive
    <3>2. QED
      BY <3>1, PositionsFinite
  <2>4. QED
    BY <1>1, <1>2, <1>3, <2>1, <2>2, <2>3
<1>5. CASE ReturnBuffer
  <2>1. /\ rxBufMbx' = rxBufMbx + 1 /\ atStack' = atStack /\ taskMbx' = taskMbx
        /\ ioMsg = RxBuf /\ ioMsg' = NoMsg
    BY <1>5 DEF ReturnBuffer, Continue
  <2>2. inHand = 1 /\ inHand' = 0 /\ inMbx' = inMbx
    BY <2>1, MessageKinds DEF One
  <2>. HIDE DEF inMbx, inHand
  <2>3. QED
    BY <1>1, <1>2, <1>3, <2>1, <2>2
<1>6. CASE ReadFrame
  <2>1. /\ taskMbx' = taskMbx /\ ioMsg' = ioMsg
        /\ \/ rxBufMbx' = rxBufMbx /\ atStack' = atStack
           \/ rxBufMbx' = rxBufMbx - 1 /\ atStack' = atStack + 1
    BY <1>6 DEF ReadFrame, DropFrame, DeliverFrame
  <2>2. QED
    BY <1>1, <1>2, <1>3, <2>1
<1>7. CASE SubmitBuffer
  <2>1. /\ rxBufMbx' = rxBufMbx /\ atStack' = atStack - 1 /\ ioMsg' = ioMsg
        /\ taskMbx' = Append(taskMbx, RxBuf)
    BY <1>7 DEF SubmitBuffer, taskVars
  <2>2. Count(Append(taskMbx, RxBuf), RxBuf) = Count(taskMbx, RxBuf) + One(RxBuf = RxBuf)
    BY <1>2, CountAppend
  <2>3. inMbx' = inMbx + 1 /\ inHand' = inHand
    BY <2>1, <2>2 DEF One
  <2>. HIDE DEF inMbx, inHand
  <2>4. QED
    BY <1>1, <1>2, <1>3, <2>1, <2>3
<1>8. CASE SubmitFrame
  <2>1. /\ rxBufMbx' = rxBufMbx /\ atStack' = atStack /\ ioMsg' = ioMsg
        /\ taskMbx' = Append(taskMbx, sent + 1)
    BY <1>8 DEF SubmitFrame, taskVars, rxVars
  <2>2. Count(Append(taskMbx, sent + 1), RxBuf) = Count(taskMbx, RxBuf) + One(sent + 1 = RxBuf)
    BY <1>2, <1>8, NewFrame, CountAppend
  <2>3. sent + 1 # RxBuf
    BY <1>8, NewFrame, MessageKinds
  <2>4. inMbx' = inMbx /\ inHand' = inHand
    BY <1>3, <2>1, <2>2, <2>3 DEF One
  <2>. HIDE DEF inMbx, inHand
  <2>5. QED
    BY <1>1, <2>1, <2>4
<1>9. CASE SendNow \/ SendLater
  <2>1. /\ rxBufMbx' = rxBufMbx /\ atStack' = atStack /\ taskMbx' = taskMbx
        /\ ioMsg \in Frames /\ ioMsg' = NoMsg
    BY <1>9 DEF SendNow, SendLater, Continue, rxVars
  <2>2. inHand' = inHand
    BY <2>1, MessageKinds DEF One
  <2>3. QED
    BY <1>1, <2>1, <2>2
<1>10. CASE UNCHANGED <<rxBufMbx, atStack, taskMbx, ioMsg>>
  BY <1>1, <1>10
<1>11. CASE \/ Setup \/ LinkUp \/ NothingToRead
            \/ NoTransmitEvent \/ TransmitEvent \/ TransmitAssertFails \/ Timeout
            \/ PollRead \/ PollSignal \/ SendAssertFails \/ UNCHANGED vars
  <2>1. UNCHANGED <<rxBufMbx, atStack, taskMbx, ioMsg>>
    BY <1>11 DEF Setup, LinkUp, NothingToRead, NoTransmitEvent, TransmitEvent,
                 TransmitAssertFails, Timeout, PollRead, PollSignal, SendAssertFails,
                 vars, rxVars, taskVars
  <2>2. QED
    BY <1>10, <2>1
<1>12. CASE WriteFrame \/ NoMessage \/ Hardware
  <2>1. UNCHANGED <<rxBufMbx, atStack, taskMbx, ioMsg>>
    BY <1>12 DEF WriteFrame, GiveUp, WriteAssertFails, WriteWithoutData, HandToDma,
                 ClearTransmitFlag, CountTry, NoMessage, Continue, Hardware, Interrupt,
                 DmaTransmit, DmaReceive, Expire, rxVars, taskVars
  <2>2. QED
    BY <1>10, <2>1
<1>13. QED
  BY <1>4, <1>5, <1>6, <1>7, <1>8, <1>9, <1>11, <1>12 DEF Next, Driver, HandleMessage, Stack

(***************************************************************************)
(* No receive buffer is lost or made up, whatever goes wrong: none while a *)
(* frame is dropped for want of a buffer or of access to its data, none    *)
(* when an assert stops the driver.                                        *)
(***************************************************************************)
THEOREM BuffersNeverLost == Spec => []BuffersConserved
<1>1. Init => HandInv /\ BuffersConserved
  <2>1. ASSUME Init PROVE BuffersConserved
    <3>1. Count(taskMbx, RxBuf) = 0 /\ One(ioMsg = RxBuf) = 0
      BY <2>1, CountEmpty, MessageKinds DEF Init, One
    <3>2. QED
      BY <2>1, <3>1 DEF Init, BuffersConserved, Lent
  <2>2. QED
    BY <2>1 DEF Init, HandInv
<1>2. TypeInv /\ HandInv /\ BuffersConserved /\ [Next]_vars => HandInv' /\ BuffersConserved'
  BY HandInvInductive, BuffersConservedInductive DEF TypeInv
<1>3. QED
  BY <1>1, <1>2, TypeCorrectStrong, PTL DEF Spec

-----------------------------------------------------------------------------
(***************************************************************************)
(* A step moves a frame from one place to the next, or none.               *)
(***************************************************************************)
LEMMA PlacesType ==
    ASSUME TypeOK, NEW f
    PROVE  /\ One(f \in answered) \in {0, 1} /\ One(txMsg = f) \in {0, 1}
           /\ One(ioMsg = f) \in {0, 1}
           /\ Count(txMbx, f) \in Nat /\ Count(taskMbx, f) \in Nat
<1>1. txMbx \in Seq(Frames) /\ taskMbx \in Seq(Frames \cup {RxBuf})
  BY DEF TypeOK
<1>2. QED
  BY <1>1, PositionsFinite DEF One

\* The frame being sent is answered, in a step that forgets it.
LEMMA FinishMoves ==
    ASSUME TypeOK, FramesConserved, TxFinish, txMsg # NoMsg, NEW f \in Frames
    PROVE  /\ One(f \in answered') = One(f \in answered) + One(txMsg = f)
           /\ txMsg \in Frames /\ txMsg \notin answered
<1>1. txMsg \in Frames /\ answered' = answered \cup {txMsg}
  BY DEF TypeOK, TxFinish
<1>2. txMsg \notin answered
  <2>1. Places(txMsg) = One(txMsg <= sent)
    BY <1>1 DEF FramesConserved
  <2>2. One(txMsg <= sent) \in {0, 1} /\ One(txMsg = txMsg) = 1
    BY DEF One
  <2>3. One(txMsg \in answered) = 0
    BY <2>1, <2>2, PlacesType DEF Places
  <2>4. QED
    BY <2>3 DEF One
<1>3. QED
  BY <1>1, <1>2 DEF One

LEMMA FramesConservedInductive ==
    ASSUME TypeInv, HandInv, FramesConserved, [Next]_vars
    PROVE  FramesConserved'
<1>. TypeOK
  BY DEF TypeInv
<1>. SUFFICES ASSUME NEW f \in Frames PROVE Places(f)' = One(f <= sent)'
  BY DEF FramesConserved
<1>1. /\ Places(f) = One(f <= sent)
      /\ Places(f) = One(f \in answered) + One(txMsg = f) + Count(txMbx, f)
                         + One(ioMsg = f) + Count(taskMbx, f)
      /\ Places(f)' = One(f \in answered') + One(txMsg' = f) + Count(txMbx', f)
                         + One(ioMsg' = f) + Count(taskMbx', f)
      /\ One(f <= sent)' = One(f <= sent')
  BY DEF FramesConserved, Places
<1>2. /\ One(f \in answered) \in {0, 1} /\ One(txMsg = f) \in {0, 1}
      /\ One(ioMsg = f) \in {0, 1}
      /\ Count(txMbx, f) \in Nat /\ Count(taskMbx, f) \in Nat
  BY PlacesType
<1>3. /\ taskMbx \in Seq(Frames \cup {RxBuf}) /\ txMbx \in Seq(Frames)
      /\ f \in Frames \cup {RxBuf} /\ f # NoMsg /\ f # RxBuf
  BY MessageKinds DEF TypeOK
<1>4. One(NoMsg = f) = 0
  BY <1>3 DEF One
<1>5. CASE Receive
  <2>1. Count(taskMbx', f) + One(ioMsg' = f) = Count(taskMbx, f) + One(ioMsg = f)
    BY <1>3, <1>5, ReceiveMoves
  <2>2. UNCHANGED <<answered, txMsg, txMbx, sent>>
    BY <1>5 DEF Receive, txVars, envVars
  <2>3. Count(taskMbx', f) \in Nat
    <3>1. taskMbx' \in Seq(Frames \cup {RxBuf})
      BY <1>3, <1>5, HeadTailType DEF Receive
    <3>2. QED
      BY <3>1, PositionsFinite
  <2>4. One(ioMsg' = f) \in {0, 1}
    BY DEF One
  <2>5. QED
    BY <1>1, <1>2, <2>1, <2>2, <2>3, <2>4
<1>6. CASE TransmitEvent
  <2>1. One(f \in answered') = One(f \in answered) + One(txMsg = f)
    BY <1>6, FinishMoves DEF TransmitEvent, TypeInv
  <2>2. UNCHANGED <<ioMsg, taskMbx, sent>>
    BY <1>6 DEF TransmitEvent, envVars
  <2>3. One(txMsg' = f) + Count(txMbx', f) = Count(txMbx, f)
    <3>1. CASE txMbx = <<>>
      BY <1>2, <1>4, <1>6, <3>1 DEF TransmitEvent, TakeNext
    <3>2. CASE txMbx # <<>>
      <4>1. txMsg' = Head(txMbx) /\ txMbx' = Tail(txMbx)
        BY <1>6, <3>2 DEF TransmitEvent, TakeNext
      <4>2. /\ Count(txMbx, f) = Count(Tail(txMbx), f) + One(Head(txMbx) = f)
            /\ Count(Tail(txMbx), f) \in Nat
        BY <1>3, <3>2, CountTail
      <4>3. One(Head(txMbx) = f) \in {0, 1}
        BY DEF One
      <4>4. QED
        BY <4>1, <4>2, <4>3
    <3>3. QED
      BY <3>1, <3>2
  <2>4. Count(txMbx', f) \in Nat /\ One(txMsg' = f) \in {0, 1}
    <3>1. txMbx' \in Seq(Frames)
      BY <1>3, <1>6, HeadTailType DEF TransmitEvent, TakeNext
    <3>2. QED
      BY <3>1, PositionsFinite DEF One
  <2>5. QED
    BY <1>1, <1>2, <2>1, <2>2, <2>3, <2>4
<1>7. CASE GiveUp
  <2>1. One(f \in answered') = One(f \in answered) + One(txMsg = f)
    BY <1>7, FinishMoves DEF GiveUp
  <2>2. UNCHANGED <<ioMsg, taskMbx, txMbx, sent>> /\ txMsg' = NoMsg
    BY <1>7 DEF GiveUp, envVars
  <2>3. QED
    BY <1>1, <1>2, <1>4, <2>1, <2>2
<1>8. CASE SendNow
  <2>1. UNCHANGED <<answered, taskMbx, txMbx, sent>>
    BY <1>8 DEF SendNow, envVars
  <2>2. txMsg' = ioMsg /\ ioMsg' = NoMsg /\ txMsg = NoMsg
    BY <1>8 DEF SendNow
  <2>3. QED
    BY <1>1, <1>2, <1>4, <2>1, <2>2
<1>9. CASE SendLater
  <2>1. UNCHANGED <<answered, txMsg, taskMbx, sent>>
    BY <1>9 DEF SendLater, envVars
  <2>2. txMbx' = Append(txMbx, ioMsg) /\ ioMsg \in Frames /\ ioMsg' = NoMsg
    BY <1>9 DEF SendLater, QueueFrame, Continue
  <2>3. Count(txMbx', f) = Count(txMbx, f) + One(ioMsg = f)
    BY <1>3, <2>2, CountAppend
  <2>4. QED
    BY <1>1, <1>2, <1>4, <2>1, <2>2, <2>3
<1>10. CASE SubmitFrame
  <2>1. UNCHANGED <<answered, txMsg, txMbx, ioMsg>>
    BY <1>10 DEF SubmitFrame, txVars, taskVars
  <2>2. sent' = sent + 1 /\ taskMbx' = Append(taskMbx, sent + 1)
    BY <1>10 DEF SubmitFrame
  <2>3. Count(taskMbx', f) = Count(taskMbx, f) + One(sent + 1 = f)
    BY <1>3, <1>10, <2>2, NewFrame, CountAppend
  <2>4. One(f <= sent + 1) = One(f <= sent) + One(sent + 1 = f)
    BY DEF One, TypeOK, Frames
  <2>5. One(sent + 1 = f) \in {0, 1} /\ One(f <= sent) \in {0, 1}
    BY DEF One
  <2>6. QED
    BY <1>1, <1>2, <2>1, <2>2, <2>3, <2>4, <2>5
<1>11. CASE SubmitBuffer
  <2>1. UNCHANGED <<answered, txMsg, txMbx, ioMsg, sent>>
    BY <1>11 DEF SubmitBuffer, txVars, taskVars, envVars
  <2>2. taskMbx' = Append(taskMbx, RxBuf) /\ RxBuf \in Frames \cup {RxBuf}
    BY <1>11 DEF SubmitBuffer
  <2>3. Count(taskMbx', f) = Count(taskMbx, f) + One(RxBuf = f)
    BY <1>3, <2>2, CountAppend
  <2>4. One(RxBuf = f) = 0
    BY <1>3 DEF One
  <2>5. QED
    BY <1>1, <1>2, <2>1, <2>3, <2>4
<1>12. CASE NoMessage \/ ReturnBuffer
  <2>1. UNCHANGED <<answered, txMsg, taskMbx, txMbx, sent>>
    BY <1>12 DEF NoMessage, ReturnBuffer, txVars, envVars
  <2>2. ioMsg \in {NoMsg, RxBuf} /\ ioMsg' = NoMsg
    BY <1>12 DEF NoMessage, ReturnBuffer, Continue
  <2>3. One(ioMsg = f) = 0 /\ One(ioMsg' = f) = 0
    BY <1>3, <2>2 DEF One
  <2>4. QED
    BY <1>1, <2>1, <2>3
<1>13. CASE UNCHANGED <<answered, txMsg, txMbx, ioMsg, taskMbx, sent>>
  BY <1>1, <1>13
<1>14. CASE \/ Setup \/ LinkUp \/ NothingToRead \/ ReadFrame
            \/ NoTransmitEvent \/ TransmitAssertFails \/ Timeout
            \/ PollRead \/ PollSignal \/ SendAssertFails \/ UNCHANGED vars
  <2>1. UNCHANGED <<answered, txMsg, txMbx, ioMsg, taskMbx, sent>>
    BY <1>14 DEF Setup, LinkUp, NothingToRead, ReadFrame, NoTransmitEvent,
                 TransmitAssertFails, Timeout, PollRead, PollSignal, SendAssertFails,
                 vars, txVars, taskVars, envVars
  <2>2. QED
    BY <1>13, <2>1
<1>15. CASE \/ WriteAssertFails \/ WriteWithoutData \/ HandToDma
            \/ ClearTransmitFlag \/ CountTry \/ Hardware
  <2>1. UNCHANGED <<answered, txMsg, txMbx, ioMsg, taskMbx, sent>>
    BY <1>15 DEF WriteAssertFails, WriteWithoutData, HandToDma, ClearTransmitFlag, CountTry,
                 Hardware, Interrupt, DmaTransmit, DmaReceive, Expire, txVars, taskVars,
                 envVars
  <2>2. QED
    BY <1>13, <2>1
<1>16. QED
  BY <1>5, <1>6, <1>7, <1>8, <1>9, <1>10, <1>11, <1>12, <1>14, <1>15
     DEF Next, Driver, WriteFrame, HandleMessage, Stack

(***************************************************************************)
(* A frame sent is in one place until its message is released, and is      *)
(* released once, whatever is retried, given up or interrupted by an       *)
(* assert.                                                                 *)
(***************************************************************************)
THEOREM FramesNeverLost == Spec => []FramesConserved
<1>1. Init => HandInv /\ FramesConserved
  <2>1. ASSUME Init, NEW f \in Frames PROVE Places(f) = One(f <= sent)
    <3>1. Count(taskMbx, f) = 0 /\ Count(txMbx, f) = 0
      BY <2>1, CountEmpty DEF Init
    <3>2. /\ One(f \in answered) = 0 /\ One(txMsg = f) = 0 /\ One(ioMsg = f) = 0
          /\ One(f <= sent) = 0
      BY <2>1, MessageKinds DEF Init, One, Frames
    <3>3. QED
      BY <3>1, <3>2 DEF Places
  <2>2. QED
    BY <2>1 DEF Init, HandInv, FramesConserved
<1>2. TypeInv /\ HandInv /\ FramesConserved /\ [Next]_vars => HandInv' /\ FramesConserved'
  BY HandInvInductive, FramesConservedInductive DEF TypeInv
<1>3. QED
  BY <1>1, <1>2, TypeCorrectStrong, PTL DEF Spec
=============================================================================
