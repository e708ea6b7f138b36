----------------------- MODULE PxEthDriverServiceProofs -----------------------
(***************************************************************************)
(* A driver whose hardware is prompt keeps the safety half of the promise  *)
(* of FrameService.tla, for every number of frames, buffers, descriptors   *)
(* and retries.                                                            *)
(***************************************************************************)
EXTENDS PxEthDriverFrameProofs

USE BoundsAssumption, RingsAssumption, RetriesAssumption, FaultsAssumption

-----------------------------------------------------------------------------
(***************************************************************************)
(* While the driver sends, the completion of the transmission is somewhere:*)
(* a timeout is never handled, so no frame is repeated or given up.        *)
(***************************************************************************)
CompletionInv ==
    /\ txStatus = "SENDING" => ~NoCompletion
    /\ pc = "clear" => InRing

\* A driver whose faults are those of the start-up meets no mishap.
LEMMA NoMishap ==
    ASSUME Faults \subseteq {"init"}, [Next]_vars
    PROVE  mishaps' = mishaps
<1>1. "slow" \notin Faults /\ "link" \notin Faults /\ "data" \notin Faults
  OBVIOUS
<1>2. QED
  BY <1>1, OnlyMishapsRecorded
     DEF GiveUp, WriteAssertFails, WriteWithoutData, Expire, LinkDown, WhyGivenUp

LEMMA NeverWrittenTwice ==
    ASSUME Faults \subseteq {"init"}, TypeInv, AssertInv, CompletionInv
    PROVE  /\ pc = "write" => txStatus = "IDLE" /\ ~RetriesExceeded /\ ~LinkDown
           /\ ~GiveUp
<1>1. pc = "write" => txStatus # "SENDING" /\ txRetries = 0 /\ txStatus # "STOPPED"
  BY DEF AssertInv, CompletionInv, Starting
<1>2. txStatus \in {"STOPPED", "IDLE", "SENDING"} /\ "link" \notin Faults
  BY DEF TypeInv, TypeOK
<1>3. QED
  BY <1>1, <1>2 DEF GiveUp, RetriesExceeded, LinkDown

LEMMA CompletionInvInductive ==
    ASSUME Faults \subseteq {"init"}, TypeInv, AssertInv, CompletionInv, [Next]_vars
    PROVE  CompletionInv'
<1>. USE DEF CompletionInv, NoCompletion, InRing, InFlags, InPending, InHand,
             taskVars, txVars, rxVars, envVars
<1>1. ~GiveUp /\ (pc = "write" => txStatus = "IDLE") /\ "race" \notin Faults
      /\ "data" \notin Faults
  BY NeverWrittenTwice
<1>2. CASE Setup \/ LinkUp
  BY <1>2 DEF Setup, LinkUp
<1>3. CASE Receive
  BY <1>3 DEF Receive
<1>4. CASE NothingToRead \/ ReadFrame
  BY <1>4 DEF NothingToRead, ReadFrame, DropFrame, DeliverFrame
<1>5. CASE NoTransmitEvent \/ TransmitAssertFails \/ Timeout
  BY <1>5 DEF NoTransmitEvent, TransmitAssertFails, Timeout, AssertInv
<1>6. CASE TransmitEvent
  BY <1>6 DEF TransmitEvent, TxFinish, StatusAfterFinish, TakeNext
<1>7. CASE WriteAssertFails \/ WriteWithoutData
  BY <1>1, <1>7 DEF WriteAssertFails, WriteWithoutData, AssertInv, Abort
<1>8. CASE HandToDma
  <2>1. txRing = <<>> /\ Len(txRing) < TxRing /\ txMsg \in Frames
    BY <1>8 DEF HandToDma, AssertInv, TypeInv, TypeOK
  <2>2. txRing' = Append(txRing, txMsg) /\ Len(txRing') = Len(txRing) + 1
    BY <1>8, <2>1, AppendType DEF HandToDma, TypeInv, TypeOK
  <2>3. txRing' # <<>>
    BY <2>1, <2>2
  <2>4. QED
    BY <2>3
<1>9. CASE ClearTransmitFlag
  BY <1>9 DEF ClearTransmitFlag
<1>10. CASE CountTry \/ PollRead
  BY <1>10 DEF CountTry, PollRead, TypeInv, TypeOK
<1>11. CASE PollSignal
  BY <1>11 DEF PollSignal, ClearRead
<1>12. CASE HandleMessage
  BY <1>12 DEF HandleMessage, NoMessage, ReturnBuffer, SendNow, SendAssertFails, SendLater,
               Continue, Abort
<1>13. CASE Hardware
  BY <1>13 DEF Hardware, Interrupt, DmaTransmit, DmaReceive, Expire
<1>14. CASE Stack \/ UNCHANGED vars
  BY <1>14 DEF Stack, SubmitFrame, SubmitBuffer, vars
<1>15. QED
  BY <1>1, <1>2, <1>3, <1>4, <1>5, <1>6, <1>7, <1>8, <1>9, <1>10, <1>11, <1>12, <1>13, <1>14
     DEF Next, Driver, WriteFrame

-----------------------------------------------------------------------------
(***************************************************************************)
(* The frames in the driver stand in the order they were sent in: first    *)
(* the one being sent, then the queue, then the one in hand, then those in *)
(* the mailbox.  No frame is queued unless one is being sent.              *)
(***************************************************************************)
Sorted(s) == \A i, j \in DOMAIN s : i < j /\ s[j] \in Frames => s[i] < s[j]
Precede(A, B) == \A a \in A, b \in B : b \in Frames => a < b

OrderInv ==
    /\ Sorted(txMbx) /\ Sorted(taskMbx)
    /\ Precede({txMsg}, Elements(txMbx)) /\ Precede({txMsg}, {ioMsg})
    /\ Precede({txMsg}, Elements(taskMbx)) /\ Precede(Elements(txMbx), {ioMsg})
    /\ Precede(Elements(txMbx), Elements(taskMbx)) /\ Precede({ioMsg}, Elements(taskMbx))
    /\ \A f \in {txMsg, ioMsg} \cup Elements(txMbx) \cup Elements(taskMbx) : f <= sent
    /\ txMsg = NoMsg => txMbx = <<>>

LEMMA ElementsAppend ==
    ASSUME NEW S, NEW s \in Seq(S), NEW e \in S
    PROVE  Elements(Append(s, e)) = Elements(s) \cup {e}
<1>1. /\ DOMAIN s = 1..Len(s) /\ DOMAIN Append(s, e) = 1..(Len(s) + 1) /\ Len(s) \in Nat
      /\ \A i \in 1..Len(s) : Append(s, e)[i] = s[i]
      /\ Append(s, e)[Len(s) + 1] = e
  OBVIOUS
<1>2. QED
  BY <1>1 DEF Elements

LEMMA ElementsTail ==
    ASSUME NEW S, NEW s \in Seq(S), s # <<>>
    PROVE  /\ Elements(s) \subseteq S
           /\ Head(s) \in Elements(s) /\ Elements(Tail(s)) \subseteq Elements(s)
<1>1. /\ DOMAIN s = 1..Len(s) /\ DOMAIN Tail(s) = 1..(Len(s) - 1) /\ Len(s) \in Nat \ {0}
      /\ \A i \in 1..(Len(s) - 1) : Tail(s)[i] = s[i + 1]
      /\ Head(s) = s[1]
  OBVIOUS
<1>2. \A i \in DOMAIN Tail(s) : Tail(s)[i] = s[i + 1] /\ i + 1 \in DOMAIN s
  BY <1>1
<1>3. 1 \in DOMAIN s
  BY <1>1
<1>4. QED
  BY <1>1, <1>2, <1>3 DEF Elements

LEMMA SortedTail ==
    ASSUME NEW S, NEW s \in Seq(S), s # <<>>, Sorted(s)
    PROVE  Sorted(Tail(s)) /\ Precede({Head(s)}, Elements(Tail(s)))
<1>1. /\ DOMAIN s = 1..Len(s) /\ DOMAIN Tail(s) = 1..(Len(s) - 1) /\ Len(s) \in Nat \ {0}
      /\ \A i \in 1..(Len(s) - 1) : Tail(s)[i] = s[i + 1]
      /\ Head(s) = s[1]
  OBVIOUS
<1>2. \A i \in DOMAIN Tail(s) : Tail(s)[i] = s[i + 1] /\ i + 1 \in DOMAIN s /\ 1 < i + 1
  BY <1>1
<1>3. Precede({Head(s)}, Elements(Tail(s)))
  BY <1>1, <1>2 DEF Sorted, Precede, Elements
<1>4. ASSUME NEW i \in DOMAIN Tail(s), NEW j \in DOMAIN Tail(s), i < j, Tail(s)[j] \in Frames
      PROVE  Tail(s)[i] < Tail(s)[j]
  <2>1. i + 1 < j + 1
    BY <1>1, <1>4
  <2>2. s[i + 1] < s[j + 1]
    BY <1>2, <1>4, <2>1 DEF Sorted
  <2>3. QED
    BY <1>2, <2>2
<1>5. QED
  BY <1>3, <1>4 DEF Sorted

LEMMA SortedAppend ==
    ASSUME NEW S, NEW s \in Seq(S), NEW e \in S, Sorted(s), Precede(Elements(s), {e})
    PROVE  Sorted(Append(s, e))
<1>1. /\ DOMAIN s = 1..Len(s) /\ DOMAIN Append(s, e) = 1..(Len(s) + 1) /\ Len(s) \in Nat
      /\ \A i \in 1..Len(s) : Append(s, e)[i] = s[i]
      /\ Append(s, e)[Len(s) + 1] = e
  OBVIOUS
<1>2. SUFFICES ASSUME NEW i \in 1..(Len(s) + 1), NEW j \in 1..(Len(s) + 1), i < j,
                      Append(s, e)[j] \in Frames
               PROVE  Append(s, e)[i] < Append(s, e)[j]
  BY <1>1 DEF Sorted
<1>3. i \in 1..Len(s)
  BY <1>1, <1>2
<1>4. CASE j \in 1..Len(s)
  BY <1>1, <1>2, <1>3, <1>4 DEF Sorted
<1>5. CASE j = Len(s) + 1
  <2>1. s[i] \in Elements(s)
    BY <1>1, <1>3 DEF Elements
  <2>2. s[i] < e
    BY <1>1, <1>2, <1>5, <2>1 DEF Precede
  <2>3. QED
    BY <1>1, <1>3, <1>5, <2>2
<1>6. QED
  BY <1>1, <1>4, <1>5

LEMMA CountedIsElement ==
    ASSUME NEW s, NEW v, Count(s, v) # 0
    PROVE  v \in Elements(s)
<1>1. {i \in DOMAIN s : s[i] = v} # {}
  BY FS_EmptySet DEF Count
<1>2. QED
  BY <1>1 DEF Elements

LEMMA MessagesType ==
    ASSUME TypeOK
    PROVE  /\ txMbx \in Seq(Frames) /\ taskMbx \in Seq(Frames \cup {RxBuf})
           /\ Elements(txMbx) \subseteq Frames
           /\ Elements(taskMbx) \subseteq Frames \cup {RxBuf}
           /\ txMsg \in Frames \cup {NoMsg} /\ ioMsg \in Frames \cup {RxBuf, NoMsg}
           /\ \A f \in Frames : f \in Int /\ NoMsg < f /\ RxBuf < f
           /\ sent \in Nat /\ NoMsg <= sent /\ RxBuf <= sent
<1>1. txMbx \in Seq(Frames) /\ taskMbx \in Seq(Frames \cup {RxBuf})
  BY DEF TypeOK
<1>2. /\ Elements(txMbx) \subseteq Frames
      /\ Elements(taskMbx) \subseteq Frames \cup {RxBuf}
  BY <1>1 DEF Elements
<1>3. QED
  BY <1>1, <1>2 DEF TypeOK, Frames, NoMsg, RxBuf

LEMMA OrderInvInductive ==
    ASSUME Faults \subseteq {"init"}, TypeInv, HandInv, AssertInv, CompletionInv, OrderInv,
           [Next]_vars
    PROVE  OrderInv'
<1>. TypeOK
  BY DEF TypeInv
<1>. DEFINE queued == Elements(txMbx)
            mailed == Elements(taskMbx)
<1>1. /\ txMbx \in Seq(Frames) /\ taskMbx \in Seq(Frames \cup {RxBuf})
      /\ queued \subseteq Frames /\ mailed \subseteq Frames \cup {RxBuf}
      /\ txMsg \in Frames \cup {NoMsg} /\ ioMsg \in Frames \cup {RxBuf, NoMsg}
      /\ \A f \in Frames : f \in Int /\ NoMsg < f /\ RxBuf < f
      /\ sent \in Nat /\ NoMsg <= sent /\ RxBuf <= sent
      /\ NoMsg \notin Frames /\ RxBuf \notin Frames
  BY MessagesType, MessageKinds
<1>2. ~GiveUp
  BY NeverWrittenTwice
<1>3. CASE Receive
  <2>1. UNCHANGED <<txMsg, txMbx, sent>> /\ ioMsg = NoMsg
    BY <1>3 DEF Receive, HandInv, txVars, envVars
  <2>2. CASE taskMbx = <<>>
    <3>1. UNCHANGED <<taskMbx, ioMsg>>
      BY <1>3, <2>1, <2>2 DEF Receive
    <3>2. QED
      BY <2>1, <3>1 DEF OrderInv, Precede, Sorted, Elements
  <2>3. CASE taskMbx # <<>>
    <3>1. taskMbx' = Tail(taskMbx) /\ ioMsg' = Head(taskMbx)
      BY <1>3, <2>3 DEF Receive
    <3>2. Head(taskMbx) \in mailed /\ Elements(Tail(taskMbx)) \subseteq mailed
      BY <1>1, <2>3, ElementsTail
    <3>3. Sorted(Tail(taskMbx)) /\ Precede({Head(taskMbx)}, Elements(Tail(taskMbx)))
      BY <1>1, <2>3, SortedTail DEF OrderInv
    <3>4. QED
      BY <2>1, <3>1, <3>2, <3>3 DEF OrderInv, Precede
  <2>4. QED
    BY <2>2, <2>3
<1>4. CASE TransmitEvent
  <2>1. UNCHANGED <<ioMsg, taskMbx, sent>>
    BY <1>4 DEF TransmitEvent, envVars
  <2>2. CASE txMbx = <<>>
    <3>1. txMbx' = txMbx /\ txMsg' = NoMsg
      BY <1>4, <2>2 DEF TransmitEvent, TakeNext
    <3>2. QED
      BY <1>1, <2>1, <2>2, <3>1 DEF OrderInv, Precede
  <2>3. CASE txMbx # <<>>
    <3>1. txMbx' = Tail(txMbx) /\ txMsg' = Head(txMbx)
      BY <1>4, <2>3 DEF TransmitEvent, TakeNext
    <3>2. Head(txMbx) \in queued /\ Elements(Tail(txMbx)) \subseteq queued
      BY <1>1, <2>3, ElementsTail
    <3>3. Sorted(Tail(txMbx)) /\ Precede({Head(txMbx)}, Elements(Tail(txMbx)))
      BY <1>1, <2>3, SortedTail DEF OrderInv
    <3>4. txMsg' # NoMsg
      BY <1>1, <3>1, <3>2
    <3>5. QED
      BY <2>1, <3>1, <3>2, <3>3, <3>4 DEF OrderInv, Precede
  <2>4. QED
    BY <2>2, <2>3
<1>5. CASE SendNow
  <2>1. UNCHANGED <<txMbx, taskMbx, sent>> /\ txMbx = <<>>
    BY <1>5 DEF SendNow, OrderInv, envVars
  <2>2. txMsg' = ioMsg /\ ioMsg' = NoMsg /\ txMsg = NoMsg
    BY <1>5 DEF SendNow
  <2>3. Elements(txMbx) = {}
    BY <2>1 DEF Elements
  <2>4. QED
    BY <1>1, <2>1, <2>2, <2>3 DEF OrderInv, Precede
<1>6. CASE SendLater
  <2>1. UNCHANGED <<txMsg, taskMbx, sent>> /\ txMsg # NoMsg
    BY <1>6 DEF SendLater, TypeInv, envVars
  <2>2. txMbx' = Append(txMbx, ioMsg) /\ ioMsg \in Frames /\ ioMsg' = NoMsg
    BY <1>6 DEF SendLater, QueueFrame, Continue
  <2>3. Elements(txMbx') = queued \cup {ioMsg}
    <3>1. txMbx \in Seq(Frames)
      BY <1>1
    <3>2. Elements(Append(txMbx, ioMsg)) = queued \cup {ioMsg}
      BY <2>2, <3>1, ElementsAppend
    <3>3. QED
      BY <2>2, <3>2
  <2>4. Sorted(txMbx')
    BY <1>1, <2>2, SortedAppend DEF OrderInv
  <2>5. QED
    BY <1>1, <2>1, <2>2, <2>3, <2>4 DEF OrderInv, Precede
<1>7. CASE SubmitFrame \/ SubmitBuffer
  <2>1. UNCHANGED <<txMsg, txMbx, ioMsg>>
    BY <1>7 DEF SubmitFrame, SubmitBuffer, txVars, taskVars
  <2>2. PICK msg \in Frames \cup {RxBuf} : /\ taskMbx' = Append(taskMbx, msg)
                                           /\ \/ msg = RxBuf /\ sent' = sent
                                              \/ msg = sent + 1 /\ sent' = sent + 1
    BY <1>7, NewFrame DEF SubmitFrame, SubmitBuffer, envVars
  <2>3. Elements(taskMbx') = mailed \cup {msg}
    <3>1. taskMbx \in Seq(Frames \cup {RxBuf})
      BY <1>1
    <3>2. Elements(Append(taskMbx, msg)) = mailed \cup {msg}
      BY <3>1, ElementsAppend
    <3>3. QED
      BY <2>2, <3>2
  <2>4. \A f \in {txMsg, ioMsg} \cup queued \cup mailed : f <= sent /\ f \in Int
    BY <1>1 DEF OrderInv, NoMsg, RxBuf
  <2>5. Precede({txMsg, ioMsg} \cup queued \cup mailed, {msg})
    BY <1>1, <2>2, <2>4 DEF Precede
  <2>6. Sorted(taskMbx')
    <3>1. Precede(mailed, {msg})
      BY <2>5 DEF Precede
    <3>2. QED
      BY <1>1, <2>2, <3>1, SortedAppend DEF OrderInv
  <2>7. \A f \in {txMsg', ioMsg'} \cup Elements(txMbx') \cup Elements(taskMbx') : f <= sent'
    BY <1>1, <2>1, <2>2, <2>3, <2>4
  <2>8. QED
    BY <2>1, <2>3, <2>5, <2>6, <2>7 DEF OrderInv, Precede
<1>8. CASE NoMessage \/ ReturnBuffer
  <2>1. UNCHANGED <<txMsg, txMbx, taskMbx, sent>>
    BY <1>8 DEF NoMessage, ReturnBuffer, txVars, envVars
  <2>2. ioMsg' = NoMsg
    BY <1>8 DEF NoMessage, ReturnBuffer, Continue
  <2>3. QED
    BY <1>1, <2>1, <2>2 DEF OrderInv, Precede
<1>9. CASE UNCHANGED <<txMsg, txMbx, ioMsg, taskMbx, sent>>
  BY <1>9 DEF OrderInv
<1>10. CASE \/ Setup \/ LinkUp \/ NothingToRead \/ ReadFrame
            \/ NoTransmitEvent \/ TransmitAssertFails \/ Timeout
            \/ PollRead \/ PollSignal \/ SendAssertFails \/ UNCHANGED vars
  <2>1. UNCHANGED <<txMsg, txMbx, ioMsg, taskMbx, sent>>
    BY <1>10 DEF Setup, LinkUp, NothingToRead, ReadFrame, NoTransmitEvent,
                 TransmitAssertFails, Timeout, PollRead, PollSignal, SendAssertFails,
                 vars, txVars, taskVars, envVars
  <2>2. QED
    BY <1>9, <2>1
<1>11. CASE \/ WriteAssertFails \/ WriteWithoutData \/ HandToDma
            \/ ClearTransmitFlag \/ CountTry \/ Hardware
  <2>1. UNCHANGED <<txMsg, txMbx, ioMsg, taskMbx, sent>>
    BY <1>11 DEF WriteAssertFails, WriteWithoutData, HandToDma, ClearTransmitFlag, CountTry,
                 Hardware, Interrupt, DmaTransmit, DmaReceive, Expire, txVars, taskVars,
                 envVars
  <2>2. QED
    BY <1>9, <2>1
<1>12. QED
  BY <1>2, <1>3, <1>4, <1>5, <1>6, <1>7, <1>8, <1>10, <1>11
     DEF Next, Driver, WriteFrame, HandleMessage, Stack

-----------------------------------------------------------------------------
(***************************************************************************)
(* The steps of the driver as steps of the service: a frame is accepted    *)
(* when it is sent, comes back when it is answered, and the free buffers   *)
(* are those that are not at the stack.                                    *)
(***************************************************************************)
LEMMA LentType ==
    ASSUME TypeOK, BuffersConserved
    PROVE  Lent \in Nat /\ atStack \in Nat /\ Lent = RxBuffers - atStack
<1>1. taskMbx \in Seq(Frames \cup {RxBuf}) /\ rxBufMbx \in Nat /\ atStack \in Nat
  BY DEF TypeOK
<1>2. Lent \in Nat
  BY <1>1, PositionsFinite DEF Lent, One
<1>3. QED
  BY <1>1, <1>2 DEF BuffersConserved

LEMMA OldestIsSent ==
    ASSUME TypeInv, FramesConserved, OrderInv, TxFinish, txMsg # NoMsg
    PROVE  /\ txMsg \in Unanswered /\ \A g \in Unanswered : txMsg <= g
           /\ sent' = sent => Unanswered' = Unanswered \ {txMsg}
<1>. TypeOK
  BY DEF TypeInv
<1>1. txMsg \in Frames /\ txMsg \notin answered /\ answered' = answered \cup {txMsg}
  BY FinishMoves, MessageKinds DEF TypeOK, TxFinish
<1>2. txMsg <= sent /\ sent \in 0..MaxSent
  BY DEF OrderInv, TypeOK
<1>3. ASSUME NEW g \in Unanswered PROVE txMsg <= g
  <2>1. g \in Frames /\ g <= sent /\ g \notin answered
    BY <1>2, <1>3 DEF Unanswered, Frames
  <2>2. Places(g) = 1 /\ One(g \in answered) = 0
    BY <2>1 DEF FramesConserved, One
  <2>3. \/ txMsg = g \/ ioMsg = g \/ Count(txMbx, g) # 0 \/ Count(taskMbx, g) # 0
    BY <2>2, PlacesType DEF Places, One
  <2>4. txMsg = g \/ g \in {ioMsg} \cup Elements(txMbx) \cup Elements(taskMbx)
    BY <2>3, CountedIsElement
  <2>5. txMsg = g \/ txMsg < g
    BY <2>1, <2>4 DEF OrderInv, Precede
  <2>6. QED
    BY <1>1, <2>1, <2>5 DEF Frames
<1>4. QED
  BY <1>1, <1>2, <1>3 DEF Unanswered, Frames

LEMMA ServiceStep ==
    ASSUME Faults \subseteq {"init"}, TypeInv, AssertInv, CompletionInv, OrderInv,
           BuffersConserved, BuffersConserved', FramesConserved, TypeOK', [Next]_vars
    PROVE  [Service!Next]_(Service!vars)
<1>. TypeOK
  BY DEF TypeInv
<1>1. /\ Lent \in Nat /\ atStack \in Nat /\ Lent = RxBuffers - atStack
      /\ Lent' \in Nat /\ atStack' \in Nat /\ Lent' = RxBuffers - atStack'
  <2>1. Lent \in Nat /\ atStack \in Nat /\ Lent = RxBuffers - atStack
    BY LentType
  <2>2. (TypeOK /\ BuffersConserved => Lent \in Nat /\ atStack \in Nat /\ Lent = RxBuffers - atStack)'
    BY LentType, PTL
  <2>3. QED
    BY <2>1, <2>2
<1>2. ~GiveUp
  BY NeverWrittenTwice
<1>3. CASE SubmitFrame
  <2>1. sent < MaxSent /\ sent' = sent + 1 /\ UNCHANGED <<answered, atStack>>
    BY <1>3 DEF SubmitFrame, txVars, rxVars
  <2>2. sent + 1 \notin answered
    <3>1. sent + 1 \in Frames /\ Places(sent + 1) = One(sent + 1 <= sent)
      BY <1>3, NewFrame DEF FramesConserved
    <3>2. One(sent + 1 <= sent) = 0
      BY DEF One, TypeOK
    <3>3. One(sent + 1 \in answered) = 0
      BY <3>1, <3>2, PlacesType DEF Places
    <3>4. QED
      BY <3>3 DEF One
  <2>3. Unanswered' = Unanswered \cup {sent + 1}
    BY <2>1, <2>2 DEF Unanswered, TypeOK
  <2>4. Lent' = Lent
    BY <1>1, <2>1
  <2>5. Service!Accept
    BY <2>1, <2>3, <2>4 DEF Service!Accept
  <2>6. QED
    BY <2>5 DEF Service!Next
<1>4. CASE TransmitEvent
  <2>1. TxFinish /\ txMsg # NoMsg /\ UNCHANGED <<sent, atStack>>
    BY <1>4 DEF TransmitEvent, TypeInv, envVars, rxVars
  <2>2. /\ txMsg \in Unanswered /\ \A g \in Unanswered : txMsg <= g
        /\ Unanswered' = Unanswered \ {txMsg}
    BY <2>1, OldestIsSent
  <2>3. Lent' = Lent
    BY <1>1, <2>1
  <2>4. Service!GiveBack
    BY <2>1, <2>2, <2>3 DEF Service!GiveBack
  <2>5. QED
    BY <2>4 DEF Service!Next
<1>5. CASE SubmitBuffer
  <2>1. atStack > 0 /\ atStack' = atStack - 1 /\ UNCHANGED <<sent, answered>>
    BY <1>5 DEF SubmitBuffer, txVars, envVars
  <2>2. Lent < RxBuffers /\ Lent' = Lent + 1 /\ Unanswered' = Unanswered
    BY <1>1, <2>1 DEF Unanswered
  <2>3. Service!Lend
    BY <2>1, <2>2 DEF Service!Lend
  <2>4. QED
    BY <2>3 DEF Service!Next
<1>6. CASE ReadFrame
  <2>1. UNCHANGED <<sent, answered>> /\ atStack' \in {atStack, atStack + 1}
    BY <1>6 DEF ReadFrame, DropFrame, DeliverFrame, txVars, envVars
  <2>2. Unanswered' = Unanswered
    BY <2>1 DEF Unanswered
  <2>3. CASE atStack' = atStack
    <3>1. Lent' = Lent
      BY <1>1, <2>3
    <3>2. QED
      BY <2>1, <2>2, <3>1 DEF Service!vars
  <2>4. CASE atStack' = atStack + 1
    <3>1. Lent > 0 /\ Lent' = Lent - 1
      BY <1>1, <2>4
    <3>2. Service!Deliver
      BY <2>1, <2>2, <3>1 DEF Service!Deliver
    <3>3. QED
      BY <3>2 DEF Service!Next
  <2>5. QED
    BY <2>1, <2>3, <2>4
<1>7. CASE UNCHANGED <<sent, answered, atStack>>
  <2>1. Lent' = Lent /\ Unanswered' = Unanswered
    BY <1>1, <1>7 DEF Unanswered
  <2>2. QED
    BY <1>7, <2>1 DEF Service!vars
<1>8. CASE \/ Setup \/ LinkUp \/ Receive \/ NothingToRead
           \/ NoTransmitEvent \/ TransmitAssertFails \/ Timeout
           \/ PollRead \/ PollSignal \/ UNCHANGED vars
  <2>1. UNCHANGED <<sent, answered, atStack>>
    BY <1>8 DEF Setup, LinkUp, Receive, NothingToRead, NoTransmitEvent,
                TransmitAssertFails, Timeout, PollRead, PollSignal, vars, txVars, rxVars,
                envVars
  <2>2. QED
    BY <1>7, <2>1
<1>9. CASE \/ WriteAssertFails \/ WriteWithoutData \/ HandToDma
           \/ ClearTransmitFlag \/ CountTry \/ HandleMessage \/ Hardware
  <2>1. UNCHANGED <<sent, answered, atStack>>
    BY <1>9 DEF WriteAssertFails, WriteWithoutData, HandToDma, ClearTransmitFlag, CountTry,
                HandleMessage, NoMessage, ReturnBuffer, SendNow, SendAssertFails, SendLater,
                Hardware, Interrupt, DmaTransmit, DmaReceive, Expire, txVars, rxVars, envVars
  <2>2. QED
    BY <1>7, <2>1
<1>10. QED
  BY <1>2, <1>3, <1>4, <1>5, <1>6, <1>8, <1>9 DEF Next, Driver, WriteFrame, Stack

(***************************************************************************)
(* As long as the hardware is prompt, the link stays up and the data of    *)
(* each message can be accessed, the driver keeps its promise to the stack:*)
(* each frame comes back once and in the order sent, and a received frame  *)
(* comes in a buffer that was lent.  That all come back is not claimed.    *)
(***************************************************************************)
THEOREM KeepsFrameService ==
    ASSUME Faults \subseteq {"init"}
    PROVE  Spec => Service!SafeSpec
<1>1. Init => mishaps = {} /\ AssertInv /\ CompletionInv /\ HandInv /\ OrderInv
  <2>1. Init => CompletionInv /\ HandInv
    BY DEF Init, CompletionInv, HandInv
  <2>2. Init => OrderInv
    <3>. SUFFICES ASSUME Init PROVE OrderInv
      OBVIOUS
    <3>1. Elements(txMbx) = {} /\ Elements(taskMbx) = {} /\ Sorted(txMbx) /\ Sorted(taskMbx)
      BY DEF Init, Elements, Sorted
    <3>2. txMsg = NoMsg /\ ioMsg = NoMsg /\ sent = 0 /\ txMbx = <<>>
      BY DEF Init
    <3>3. QED
      BY <3>1, <3>2, MessageKinds DEF OrderInv, Precede, NoMsg
  <2>3. QED
    BY <2>1, <2>2, AssertInvInitially DEF Init
<1>2. TypeInv /\ mishaps = {} /\ AssertInv /\ CompletionInv /\ HandInv /\ OrderInv /\ [Next]_vars
      => (mishaps = {})' /\ AssertInv' /\ CompletionInv' /\ HandInv' /\ OrderInv'
  BY NoMishap, AssertInvInductive, CompletionInvInductive, HandInvInductive, OrderInvInductive DEF TypeInv
<1>3. Init => Service!Init
  <2>. SUFFICES ASSUME Init PROVE Service!Init
    OBVIOUS
  <2>1. Count(taskMbx, RxBuf) = 0 /\ One(ioMsg = RxBuf) = 0
    BY CountEmpty, MessageKinds DEF Init, One
  <2>2. sent = 0 /\ answered = {} /\ rxBufMbx = 0
    BY DEF Init
  <2>3. QED
    BY <2>1, <2>2 DEF Service!Init, Lent, Unanswered
<1>4. /\ TypeInv /\ AssertInv /\ CompletionInv /\ OrderInv /\ BuffersConserved
      /\ BuffersConserved' /\ FramesConserved /\ TypeOK' /\ [Next]_vars
      => [Service!Next]_(Service!vars)
  BY ServiceStep
<1>5. QED
  BY <1>1, <1>2, <1>3, <1>4, TypeCorrectStrong, TypeCorrect, BuffersNeverLost, FramesNeverLost, PTL
     DEF Spec, Service!SafeSpec
=============================================================================
