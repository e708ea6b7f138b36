--------------------------- MODULE PxEthDriverProofs ---------------------------
(***************************************************************************)
(* Theorems about PxEthDriver.tla, for every number of frames, buffers,    *)
(* descriptors and retries.                                                *)
(***************************************************************************)
EXTENDS PxEthDriverProperties, TLAPS

USE BoundsAssumption, RingsAssumption, RetriesAssumption, FaultsAssumption

-----------------------------------------------------------------------------
(***************************************************************************)
(* Type correctness, whatever fails.                                       *)
(***************************************************************************)
LEMMA HeadTailType ==
    ASSUME NEW S, NEW s \in Seq(S), s # <<>>
    PROVE  Head(s) \in S /\ Tail(s) \in Seq(S) /\ Len(Tail(s)) = Len(s) - 1
OBVIOUS

LEMMA AppendType ==
    ASSUME NEW S, NEW s \in Seq(S), NEW e \in S
    PROVE  Append(s, e) \in Seq(S) /\ Len(Append(s, e)) = Len(s) + 1
OBVIOUS

\* A ring of n descriptors is not overrun.
LEMMA AppendBound ==
    ASSUME NEW S, NEW s \in Seq(S), NEW e \in S, NEW n \in Nat, Len(s) < n
    PROVE  Append(s, e) \in Seq(S) /\ Len(Append(s, e)) <= n
OBVIOUS

LEMMA FinishType ==
    ASSUME TypeOK, TxFinish, txMsg # NoMsg
    PROVE  /\ timer' \in BOOLEAN /\ pending' \subseteq Events
           /\ answered' \subseteq Frames
           /\ txStatus' \in {"STOPPED", "IDLE", "SENDING"}
           /\ txRetries' = 0
<1>1. timer' \in BOOLEAN /\ pending' \subseteq Events
  BY DEF TypeOK, TxFinish, ResetTimeoutEvent
<1>2. answered' \subseteq Frames
  BY DEF TypeOK, TxFinish
<1>3. txStatus' \in {"STOPPED", "IDLE", "SENDING"} /\ txRetries' = 0
  BY DEF TypeOK, TxFinish, StatusAfterFinish
<1>4. QED
  BY <1>1, <1>2, <1>3

LEMMA MessageKinds == NoMsg \notin Frames /\ RxBuf \notin Frames /\ RxBuf # NoMsg
BY DEF NoMsg, RxBuf, Frames

LEMMA EventKinds ==
    /\ {"RECEIVE", "TRANSMIT", "UNAVAILABLE"} = Flags
    /\ Flags \subseteq Events /\ "WRITE_TMO" \in Events
BY DEF Flags, Events

LEMMA MishapKinds ==
    {"slow", "link", "data"} \subseteq Mishaps /\ WhyGivenUp \subseteq Mishaps
BY DEF Mishaps, WhyGivenUp

\* A frame is tried only while tries are left.
TypeInv ==
    /\ TypeOK
    /\ pc \in {"clear", "start"} => txRetries < MaxRetries /\ txMsg # NoMsg
    /\ txStatus = "SENDING" => txMsg # NoMsg

LEMMA TypeCorrectStrong == Spec => []TypeInv
<1>. DEFINE Inv == TypeInv
<1>. USE DEF TypeInv
<1>1. Init => Inv
  <2>. SUFFICES ASSUME Init PROVE Inv
    OBVIOUS
  <2>1. /\ txMbx \in Seq(Frames) /\ taskMbx \in Seq(Frames \cup {RxBuf})
        /\ txRing \in Seq(Frames) /\ Len(txRing) <= TxRing
        /\ rxRing \in Seq(1..MaxArrived) /\ Len(rxRing) <= RxRing
    BY DEF Init
  <2>2. /\ pc = "setup" /\ retTo = "receive" /\ txStatus = "STOPPED"
        /\ ev \subseteq Events /\ pending \subseteq Events
        /\ status \subseteq Flags /\ flags \subseteq Flags
    BY DEF Init
  <2>3. /\ ioMsg \in Frames \cup {RxBuf, NoMsg} /\ txMsg \in Frames \cup {NoMsg}
        /\ timer \in BOOLEAN
    BY DEF Init
  <2>4. txRetries \in 0..MaxRetries /\ rxBufMbx \in Nat /\ atStack \in Nat
    BY DEF Init
  <2>5. /\ sent \in 0..MaxSent /\ arrived \in 0..MaxArrived
        /\ answered \subseteq Frames /\ wired \subseteq Frames
        /\ delivered \subseteq 1..MaxArrived /\ mishaps \subseteq Mishaps
    BY DEF Init
  <2>6. QED
    BY <2>1, <2>2, <2>3, <2>4, <2>5 DEF TypeOK
<1>2. Inv /\ [Next]_vars => Inv'
  <2>. SUFFICES ASSUME Inv, [Next]_vars PROVE Inv'
    OBVIOUS
  <2>. USE MessageKinds, EventKinds DEF taskVars, txVars, rxVars, envVars
  <2>1. CASE Setup \/ LinkUp
    BY <2>1 DEF TypeOK, Setup, LinkUp
  <2>2. CASE Receive
    <3>1. taskMbx # <<>> => Head(taskMbx) \in Frames \cup {RxBuf} /\ Tail(taskMbx) \in Seq(Frames \cup {RxBuf})
      BY HeadTailType DEF TypeOK
    <3>2. QED
      BY <2>2, <3>1 DEF TypeOK, Receive
  <2>3. CASE NothingToRead \/ NoTransmitEvent \/ TransmitAssertFails \/ Timeout
    BY <2>3 DEF TypeOK, NothingToRead, NoTransmitEvent, TransmitAssertFails, Timeout, Abort
  <2>4. CASE ReadFrame
    <3>1. /\ Head(rxRing) \in 1..MaxArrived /\ Tail(rxRing) \in Seq(1..MaxArrived)
          /\ Len(Tail(rxRing)) <= RxRing
      BY <2>4, HeadTailType DEF TypeOK, ReadFrame
    <3>2. DropFrame \/ (rxBufMbx # 0 /\ DeliverFrame)
      BY <2>4 DEF ReadFrame
    <3>3. /\ rxBufMbx' \in Nat /\ atStack' \in Nat
          /\ delivered' \subseteq 1..MaxArrived /\ pc' \in {"read", "transmit"}
      <4>1. CASE DropFrame
        BY <4>1 DEF TypeOK, DropFrame
      <4>2. CASE rxBufMbx # 0 /\ DeliverFrame
        <5>1. rxBufMbx - 1 \in Nat /\ atStack + 1 \in Nat
          BY <4>2 DEF TypeOK
        <5>2. delivered \cup {Head(rxRing)} \subseteq 1..MaxArrived
          BY <3>1 DEF TypeOK
        <5>3. QED
          BY <2>4, <4>2, <5>1, <5>2 DEF ReadFrame, DeliverFrame
      <4>3. QED
        BY <3>2, <4>1, <4>2
    <3>4. QED
      BY <2>4, <3>1, <3>3 DEF TypeOK, ReadFrame
  <2>5. CASE TransmitEvent
    <3>1. txMbx # <<>> => Head(txMbx) \in Frames /\ Tail(txMbx) \in Seq(Frames)
      BY HeadTailType DEF TypeOK
    <3>2. txStatus' = "IDLE"
      BY <2>5 DEF TransmitEvent, TxFinish, StatusAfterFinish
    <3>3. /\ txMsg' \in Frames \cup {NoMsg} /\ txMbx' \in Seq(Frames)
          /\ pc' \in {"write", "timeout"} /\ ev' \subseteq Events
      BY <2>5, <3>1 DEF TypeOK, TransmitEvent, TakeNext, UnsetTimeout
    <3>4. /\ timer' \in BOOLEAN /\ pending' \subseteq Events
          /\ answered' \subseteq Frames /\ txRetries' = 0
      BY <2>5, FinishType DEF TransmitEvent
    <3>5. QED
      BY <2>5, <3>2, <3>3, <3>4 DEF TypeOK, TransmitEvent
  <2>6. CASE GiveUp
    <3>1. txStatus' # "SENDING"
      BY <2>6 DEF GiveUp, TxFinish, StatusAfterFinish
    <3>2. QED
      BY <2>6, <3>1, FinishType, MishapKinds DEF TypeOK, GiveUp
  <2>7. CASE WriteAssertFails \/ WriteWithoutData \/ ClearTransmitFlag
    BY <2>7, MishapKinds DEF TypeOK, WriteAssertFails, WriteWithoutData, ClearTransmitFlag, Abort
  <2>8. CASE HandToDma
    <3>1. Len(txRing) < TxRing =>
            Append(txRing, txMsg) \in Seq(Frames) /\ Len(Append(txRing, txMsg)) <= TxRing
      BY <2>8, AppendBound DEF TypeOK, HandToDma
    <3>2. /\ txRing' \in Seq(Frames) /\ Len(txRing') <= TxRing
          /\ pc' \in {"clear", "start"}
      BY <2>8, <3>1 DEF TypeOK, HandToDma
    <3>3. txRetries < MaxRetries
      BY <2>8 DEF TypeOK, HandToDma, RetriesExceeded
    <3>4. QED
      BY <2>8, <3>2, <3>3 DEF TypeOK, HandToDma
  <2>9. CASE CountTry
    BY <2>9 DEF TypeOK, CountTry, StartTimeout
  <2>10. CASE PollRead \/ PollSignal
    BY <2>10 DEF TypeOK, PollRead, PollSignal, ClearRead
  <2>11. CASE NoMessage \/ ReturnBuffer \/ SendNow \/ SendAssertFails
    <3>1. CASE NoMessage \/ SendAssertFails
      BY <3>1 DEF TypeOK, NoMessage, SendAssertFails, Continue, Abort
    <3>2. CASE ReturnBuffer
      BY <3>2 DEF TypeOK, ReturnBuffer, Continue
    <3>3. CASE SendNow
      BY <3>3 DEF TypeOK, SendNow
    <3>4. QED
      BY <2>11, <3>1, <3>2, <3>3
  <2>12. CASE SendLater
    <3>1. Append(txMbx, ioMsg) \in Seq(Frames)
      BY <2>12, AppendType DEF TypeOK, SendLater
    <3>2. QED
      BY <2>12, <3>1 DEF TypeOK, SendLater, QueueFrame, Continue
  <2>13. CASE Interrupt \/ Expire
    BY <2>13, MishapKinds DEF TypeOK, Interrupt, Expire
  <2>14. CASE DmaTransmit
    <3>1. Head(txRing) \in Frames /\ Tail(txRing) \in Seq(Frames) /\ Len(Tail(txRing)) <= TxRing
      BY <2>14, HeadTailType DEF TypeOK, DmaTransmit
    <3>2. QED
      BY <2>14, <3>1 DEF TypeOK, DmaTransmit
  <2>15. CASE DmaReceive
    <3>1. arrived + 1 \in 1..MaxArrived /\ arrived + 1 \in 0..MaxArrived
      BY <2>15 DEF TypeOK, DmaReceive
    <3>2. Len(rxRing) < RxRing =>
            /\ Append(rxRing, arrived + 1) \in Seq(1..MaxArrived)
            /\ Len(Append(rxRing, arrived + 1)) <= RxRing
      BY <3>1, AppendBound DEF TypeOK
    <3>3. rxRing' \in Seq(1..MaxArrived) /\ Len(rxRing') <= RxRing
      BY <2>15, <3>2 DEF TypeOK, DmaReceive
    <3>4. flags' \subseteq Flags
      BY <2>15 DEF TypeOK, DmaReceive, Flags
    <3>5. /\ arrived' \in 0..MaxArrived
          /\ UNCHANGED <<pc, retTo, ev, ioMsg, status, txStatus, txMsg, txMbx, txRetries,
                         timer, answered, rxBufMbx, atStack, delivered, sent, wired,
                         mishaps, taskMbx, pending, txRing>>
      BY <2>15, <3>1 DEF DmaReceive
    <3>6. QED
      BY <3>3, <3>4, <3>5 DEF TypeOK
  <2>16. CASE SubmitFrame
    <3>1. sent + 1 \in Frames /\ sent + 1 \in 0..MaxSent
      BY <2>16 DEF TypeOK, SubmitFrame, Frames
    <3>2. Append(taskMbx, sent + 1) \in Seq(Frames \cup {RxBuf})
      BY <3>1, AppendType DEF TypeOK
    <3>3. QED
      BY <2>16, <3>1, <3>2 DEF TypeOK, SubmitFrame
  <2>17. CASE SubmitBuffer
    <3>1. Append(taskMbx, RxBuf) \in Seq(Frames \cup {RxBuf})
      BY AppendType DEF TypeOK
    <3>2. QED
      BY <2>17, <3>1 DEF TypeOK, SubmitBuffer
  <2>18. CASE UNCHANGED vars
    BY <2>18 DEF TypeOK, vars
  <2>19. QED
    BY <2>1, <2>2, <2>3, <2>4, <2>5, <2>6, <2>7, <2>8, <2>9, <2>10, <2>11, <2>12,
       <2>13, <2>14, <2>15, <2>16, <2>17, <2>18
       DEF Next, Driver, Hardware, Stack, WriteFrame, HandleMessage
<1>3. QED
  BY <1>1, <1>2, PTL DEF Spec

(***************************************************************************)
(* Every variable of the driver keeps its type: no pool or counter is used *)
(* below zero, no ring is overrun, and no frame is tried more often than   *)
(* MAXRETRIES allows.                                                      *)
(***************************************************************************)
THEOREM TypeCorrect == Spec => []TypeOK
<1>1. TypeInv => TypeOK
  BY DEF TypeInv
<1>2. QED
  BY <1>1, TypeCorrectStrong, PTL

-----------------------------------------------------------------------------
(***************************************************************************)
(* No assert fails while the DMA is prompt, the link stays up and the data *)
(* of a message can be accessed.  The completion of a transmission is one  *)
(* token: the frame in the ring, then the flag, then the event, then the   *)
(* event in the driver's hands.  There is at most one, only while sending; *)
(* none is left where a frame is written, so that a retry never meets the  *)
(* completion it waits for.                                                *)
(***************************************************************************)
InRing    == txRing # <<>>
InFlags   == "TRANSMIT" \in flags
InPending == "TRANSMIT" \in pending
InHand    == pc \in {"read", "transmit"} /\ "TRANSMIT" \in ev

OneCompletion ==
    /\ Len(txRing) <= 1
    /\ InRing => ~InFlags /\ ~InPending /\ ~InHand
    /\ InFlags => ~InPending /\ ~InHand
    /\ InPending => ~InHand

NoCompletion == ~InRing /\ ~InFlags /\ ~InPending /\ ~InHand

\* The timeout has expired and the driver is about to handle it.
Expired == pc \in {"read", "transmit", "timeout"} /\ "WRITE_TMO" \in ev
NotTimed == ~timer /\ "WRITE_TMO" \notin pending

Starting == pc \in {"setup", "halt", "link"}
Writing == pc \in {"write", "clear", "start"}

AssertInv ==
    /\ pc # "abort"
    /\ Starting => txStatus = "STOPPED"
    /\ ~Starting => txStatus # "STOPPED"
    /\ OneCompletion
    /\ "TRANSMIT" \in status => pc = "polled" /\ (InFlags \/ InPending)
    /\ txStatus # "SENDING" =>
          NoCompletion /\ NotTimed /\ ~Expired /\ txRetries = 0 /\ (txMsg = NoMsg \/ pc = "write")
    /\ txStatus = "SENDING" => txMsg # NoMsg
    /\ pc = "write" => txMsg # NoMsg /\ NoCompletion
    /\ Writing => NotTimed
    /\ pc \in {"clear", "start"} => txStatus = "SENDING"
    /\ Writing /\ retTo = "timeout" => "WRITE_TMO" \notin ev
    /\ Expired => NotTimed /\ ~InRing /\ ~InFlags /\ ~InPending
    /\ "WRITE_TMO" \in pending => ~timer /\ ~InRing /\ ~InFlags

LEMMA RingOfOne ==
    ASSUME NEW S, NEW s \in Seq(S), Len(s) <= 1, s # <<>>
    PROVE  Len(Tail(s)) = 0 /\ Tail(s) = <<>>
<1>1. Len(s) \in Nat /\ Len(s) # 0
  OBVIOUS
<1>2. Tail(s) \in Seq(S) /\ Len(Tail(s)) = Len(s) - 1
  BY HeadTailType
<1>3. Len(Tail(s)) = 0
  BY <1>1, <1>2
<1>4. QED
  BY <1>2, <1>3

LEMMA OnlyMishapsRecorded ==
    ASSUME [Next]_vars, ~GiveUp, ~WriteAssertFails, ~WriteWithoutData, ~Expire
    PROVE  UNCHANGED mishaps
<1>. USE DEF envVars
<1>1. CASE HandToDma \/ ClearTransmitFlag \/ CountTry
  BY <1>1 DEF HandToDma, ClearTransmitFlag, CountTry
<1>2. CASE \/ Setup \/ LinkUp \/ Receive \/ NothingToRead \/ ReadFrame
           \/ NoTransmitEvent \/ TransmitEvent \/ TransmitAssertFails \/ Timeout
           \/ PollRead \/ PollSignal \/ HandleMessage
  BY <1>2 DEF Setup, LinkUp, Receive, NothingToRead, ReadFrame, NoTransmitEvent,
              TransmitEvent, TransmitAssertFails, Timeout, PollRead, PollSignal,
              HandleMessage, NoMessage, ReturnBuffer, SendNow, SendAssertFails, SendLater
<1>3. CASE Interrupt \/ DmaTransmit \/ DmaReceive \/ Stack \/ UNCHANGED vars
  BY <1>3 DEF Interrupt, DmaTransmit, DmaReceive, Stack, SubmitFrame, SubmitBuffer, vars
<1>4. QED
  BY <1>1, <1>2, <1>3 DEF Next, Driver, Hardware, WriteFrame

\* What has happened stays recorded, so an invariant that holds as long as nothing
\* has need only be kept by the steps that leave the record empty.
LEMMA MishapsStay ==
    ASSUME [Next]_vars
    PROVE  mishaps \subseteq mishaps'
BY OnlyMishapsRecorded DEF GiveUp, WriteAssertFails, WriteWithoutData, Expire

LEMMA AssertInvInitially == Init => AssertInv
BY DEF Init, AssertInv, OneCompletion, NoCompletion, InRing, InFlags, InPending, InHand,
       Expired, NotTimed, Starting, Writing

LEMMA AssertInvInductive ==
    ASSUME TypeInv, AssertInv, [Next]_vars, mishaps' = {}
    PROVE  AssertInv'
<1>. USE DEF taskVars, txVars, rxVars, envVars
<1>. USE DEF AssertInv, OneCompletion, NoCompletion, InRing, InFlags, InPending, InHand,
             Expired, NotTimed, Starting, Writing
<1>1. /\ GiveUp => RetriesExceeded
      /\ WriteAssertFails => txMsg = NoMsg \/ RetriesExceeded
      /\ Expire => Prompt
  BY DEF GiveUp, WriteAssertFails, WhyGivenUp, Expire
<1>2. status \subseteq Flags /\ flags \subseteq Flags /\ "WRITE_TMO" \notin Flags
  BY DEF TypeInv, TypeOK, Flags
<1>. retTo \in {"receive", "timeout", "poll"}
  BY DEF TypeInv, TypeOK
<1>3. CASE Setup \/ LinkUp
  BY <1>3 DEF Setup, LinkUp
<1>4. CASE Receive
  BY <1>4 DEF Receive
<1>5. CASE NothingToRead \/ NoTransmitEvent
  BY <1>5 DEF NothingToRead, NoTransmitEvent
<1>6. CASE ReadFrame
  <2>1. pc = "read" /\ pc' \in {"read", "transmit"}
    BY <1>6 DEF ReadFrame, DropFrame, DeliverFrame
  <2>2. QED
    BY <1>6, <2>1 DEF ReadFrame
<1>7. ~TransmitAssertFails
  BY DEF TransmitAssertFails
<1>8. CASE TransmitEvent
  <2>1. pc' \in {"write", "timeout"} /\ (pc' = "write" => txMsg' # NoMsg)
    <3>1. txMbx # <<>> => Head(txMbx) \in Frames
      BY HeadTailType DEF TypeInv, TypeOK
    <3>2. QED
      BY <1>8, <3>1, MessageKinds DEF TransmitEvent, TakeNext
  <2>2. pc' = "timeout" => txMsg' = NoMsg
    BY <1>8 DEF TransmitEvent, TakeNext
  <2>3. /\ txStatus' = "IDLE" /\ txRetries' = 0 /\ ~timer'
        /\ "WRITE_TMO" \notin pending' /\ "WRITE_TMO" \notin ev'
        /\ "TRANSMIT" \notin pending'
        /\ UNCHANGED <<txRing, flags, status>>
    BY <1>8 DEF TransmitEvent, TxFinish, UnsetTimeout, ResetTimeoutEvent, StatusAfterFinish
  <2>4. NoCompletion'
    BY <1>8, <2>1, <2>3 DEF TransmitEvent
  <2>5. pc = "transmit"
    BY <1>8 DEF TransmitEvent
  <2>6. QED
    BY <2>1, <2>2, <2>3, <2>4, <2>5
<1>9. CASE Timeout
  BY <1>9 DEF Timeout
<1>10. CASE GiveUp
  <2>1. txStatus = "SENDING"
    BY <1>1, <1>10 DEF GiveUp, RetriesExceeded
  <2>2. QED
    BY <1>10, <2>1 DEF GiveUp, TxFinish, ResetTimeoutEvent, StatusAfterFinish
<1>11. ~WriteAssertFails
  BY <1>1 DEF WriteAssertFails, FinishAsserted, RetriesExceeded
<1>12. ~WriteWithoutData
  BY DEF WriteWithoutData
<1>13. CASE HandToDma
  <2>1. txRing = <<>>
    BY <1>13 DEF HandToDma
  <2>2. Len(txRing') <= 1
    <3>1. Append(<<>>, txMsg) \in Seq(Frames) /\ Len(Append(<<>>, txMsg)) = 1
      <4>1. txMsg \in Frames /\ <<>> \in Seq(Frames)
        BY <1>13 DEF HandToDma, TypeInv, TypeOK
      <4>2. QED
        BY <4>1, AppendType
    <3>2. txRing' = txRing \/ txRing' = Append(txRing, txMsg)
      BY <1>13 DEF HandToDma
    <3>3. Len(txRing) <= 1
      OBVIOUS
    <3>4. CASE txRing' = txRing
      BY <3>3, <3>4
    <3>5. CASE txRing' = Append(<<>>, txMsg)
      BY <3>1, <3>5
    <3>6. QED
      BY <2>1, <3>2, <3>4, <3>5
  <2>3. QED
    BY <1>13, <2>1, <2>2 DEF HandToDma
<1>14. CASE ClearTransmitFlag
  BY <1>14 DEF ClearTransmitFlag
<1>15. CASE CountTry
  BY <1>15 DEF CountTry, StartTimeout
<1>16. CASE PollRead
  BY <1>16 DEF PollRead
<1>17. CASE PollSignal
  BY <1>2, <1>17 DEF PollSignal, ClearRead
<1>18. CASE NoMessage \/ ReturnBuffer
  BY <1>18 DEF NoMessage, ReturnBuffer, Continue
<1>19. CASE SendNow
  BY <1>19, MessageKinds DEF SendNow
<1>20. ~SendAssertFails
  BY DEF SendAssertFails
<1>21. CASE SendLater
  BY <1>21 DEF SendLater, Continue
<1>22. CASE Interrupt
  BY <1>2, <1>22 DEF Interrupt, Running
<1>23. CASE DmaTransmit
  <2>1. Tail(txRing) = <<>> /\ Len(txRing') <= 1
    BY <1>23, RingOfOne DEF DmaTransmit, TypeInv, TypeOK
  <2>2. QED
    BY <1>23, <2>1 DEF DmaTransmit, Running
<1>24. CASE DmaReceive
  <2>1. /\ "TRANSMIT" \in flags' <=> "TRANSMIT" \in flags
        /\ UNCHANGED <<taskVars, txVars, pending, txRing>>
    BY <1>24 DEF DmaReceive
  <2>2. QED
    BY <2>1
<1>25. CASE Expire
  BY <1>1, <1>25 DEF Expire, Running, Prompt
<1>26. CASE SubmitFrame \/ SubmitBuffer
  BY <1>26 DEF SubmitFrame, SubmitBuffer
<1>27. CASE UNCHANGED vars
  BY <1>27 DEF vars
<1>28. QED
  BY <1>3, <1>4, <1>5, <1>6, <1>7, <1>8, <1>9, <1>10, <1>11, <1>12, <1>13, <1>14,
     <1>15, <1>16, <1>17, <1>18, <1>19, <1>20, <1>21, <1>22, <1>23, <1>24, <1>25,
     <1>26, <1>27
     DEF Next, Driver, Hardware, Stack, WriteFrame, HandleMessage

(***************************************************************************)
(* No assert fails as long as the link has stayed up, the data of each     *)
(* frame could be accessed and the DMA was done within the timeout, though *)
(* EthWrite may clear the flag of a transmission that has completed.       *)
(***************************************************************************)
THEOREM NoAssertEverFails == Spec => []NoAssertFails
<1>. DEFINE Inv == mishaps = {} => AssertInv
<1>1. Init => Inv
  BY AssertInvInitially
<1>2. TypeInv /\ Inv /\ [Next]_vars => Inv'
  <2>. SUFFICES ASSUME TypeInv, Inv, [Next]_vars, mishaps' = {} PROVE AssertInv'
    OBVIOUS
  <2>1. mishaps = {}
    BY MishapsStay
  <2>2. QED
    BY <2>1, AssertInvInductive
<1>3. Inv => NoAssertFails
  BY DEF AssertInv, NoAssertFails
<1>. HIDE DEF Inv
<1>4. QED
  BY <1>1, <1>2, <1>3, TypeCorrectStrong, PTL DEF Spec

-----------------------------------------------------------------------------
(***************************************************************************)
(* A sending driver is timed wherever it is, unless it is about to start   *)
(* the timeout again.                                                      *)
(***************************************************************************)
TimedInv ==
    txStatus = "SENDING" =>
        timer \/ "WRITE_TMO" \in pending \/ Expired \/ Writing \/ pc = "abort"

LEMMA TimedInvInductive ==
    ASSUME TypeInv, TimedInv, [Next]_vars, "data" \notin mishaps'
    PROVE  TimedInv'
<1>. USE DEF taskVars, txVars, rxVars, envVars, TimedInv, Expired, Writing
<1>1. CASE Setup \/ LinkUp \/ Receive
  BY <1>1 DEF Setup, LinkUp, Receive
<1>2. CASE NothingToRead \/ NoTransmitEvent \/ TransmitAssertFails
  BY <1>2 DEF NothingToRead, NoTransmitEvent, TransmitAssertFails, Abort
<1>3. CASE ReadFrame
  <2>1. pc = "read" /\ pc' \in {"read", "transmit"}
    BY <1>3 DEF ReadFrame, DropFrame, DeliverFrame
  <2>2. QED
    BY <1>3, <2>1 DEF ReadFrame
<1>4. CASE TransmitEvent \/ GiveUp
  <2>1. txStatus' # "SENDING"
    BY <1>4 DEF TransmitEvent, GiveUp, TxFinish, StatusAfterFinish
  <2>2. QED
    BY <2>1
<1>5. CASE Timeout
  BY <1>5 DEF Timeout
<1>6. CASE WriteAssertFails
  BY <1>6 DEF WriteAssertFails, Abort
<1>7. ~WriteWithoutData
  BY DEF WriteWithoutData
<1>8. CASE HandToDma \/ ClearTransmitFlag \/ CountTry
  BY <1>8 DEF HandToDma, ClearTransmitFlag, CountTry, StartTimeout
<1>9. CASE PollRead \/ PollSignal
  BY <1>9 DEF PollRead, PollSignal
<1>10. CASE HandleMessage
  BY <1>10 DEF HandleMessage, NoMessage, ReturnBuffer, SendNow, SendAssertFails, SendLater,
               Continue, Abort
<1>11. CASE Interrupt \/ Expire
  BY <1>11 DEF Interrupt, Expire
<1>12. CASE DmaTransmit \/ DmaReceive
  BY <1>12 DEF DmaTransmit, DmaReceive
<1>13. CASE Stack
  BY <1>13 DEF Stack, SubmitFrame, SubmitBuffer
<1>14. CASE UNCHANGED vars
  BY <1>14 DEF vars
<1>15. QED
  BY <1>1, <1>2, <1>3, <1>4, <1>5, <1>6, <1>7, <1>8, <1>9, <1>10, <1>11, <1>12,
     <1>13, <1>14
     DEF Next, Driver, Hardware, WriteFrame

(***************************************************************************)
(* While the driver waits for the end of a transmission its timeout runs   *)
(* or has been announced, whatever the wire and the link do: the wait ends *)
(* even if the interrupt never comes.  Only a message whose data cannot be *)
(* accessed would be waited for without a timeout.                         *)
(***************************************************************************)
THEOREM SendingAlwaysTimed == Spec => []SendingIsTimed
<1>. DEFINE Inv == "data" \notin mishaps => TimedInv
<1>1. Init => Inv
  BY DEF Init, TimedInv
<1>2. TypeInv /\ Inv /\ [Next]_vars => Inv'
  <2>. SUFFICES ASSUME TypeInv, Inv, [Next]_vars, "data" \notin mishaps' PROVE TimedInv'
    OBVIOUS
  <2>1. "data" \notin mishaps
    BY MishapsStay
  <2>2. QED
    BY <2>1, TimedInvInductive
<1>3. Inv => SendingIsTimed
  BY DEF TimedInv, SendingIsTimed, Expired, Writing
<1>. HIDE DEF Inv
<1>4. QED
  BY <1>1, <1>2, <1>3, TypeCorrectStrong, PTL DEF Spec
=============================================================================
