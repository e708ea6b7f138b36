---------------------------- MODULE NetStackProofs ----------------------------
(***************************************************************************)
(* Theorems about NetStack.tla, for every number of buffers, pool sizes,   *)
(* socket queues, frames and failures.                                     *)
(***************************************************************************)
EXTENDS NetStackProperties, TLAPS

USE PoolsAssumption, RoomAssumption, BoundsAssumption
    DEF PoolsAssumption, RoomAssumption, BoundsAssumption

-----------------------------------------------------------------------------
(***************************************************************************)
(* Type correctness, together with the conservation of the receive buffers,*)
(* which is what bounds held.                                              *)
(***************************************************************************)
LEMMA HeadTailType ==
    ASSUME NEW S, NEW s \in Seq(S), s # <<>>
    PROVE  Head(s) \in S /\ Tail(s) \in Seq(S) /\ Len(Tail(s)) = Len(s) - 1
OBVIOUS

LEMMA AppendType ==
    ASSUME NEW S, NEW s \in Seq(S), NEW e \in S
    PROVE  Append(s, e) \in Seq(S) /\ Len(Append(s, e)) = Len(s) + 1
OBVIOUS

LEMMA Kinds ==
    /\ Datagrams \subseteq Messages /\ Arp \in Messages /\ Empty \in Messages
    /\ Arp \notin Datagrams /\ Empty \notin Datagrams /\ Arp # Empty
    /\ Messages \subseteq Int /\ \A m \in Messages : m \in Datagrams \/ m = Arp \/ m = Empty
BY DEF Datagrams, Messages, Arp, Empty

Labels == {"init", "give", "poll", "transmit", "await", "socket", "forward",
           "wait", "panic"}

\* What is in hand where it is used.
InHand ==
    /\ pc \in {"transmit", "await"} => hand \in Datagrams \cup {Arp}
    /\ pc = "forward" => hand \in Datagrams
    /\ mirror \in {"echo", "release"} => echo \in Datagrams

\* TypeOK without the receive buffers.
Shape ==
    /\ pc \in Labels /\ back \in {"poll", "give"}
    /\ hand \in Messages /\ echo \in Datagrams \cup {Empty}
    /\ sockRx \in Seq(Datagrams) /\ sockTx \in Seq(Datagrams)
    /\ toMirror \in Seq(Datagrams) /\ toStack \in Seq(Datagrams)
    /\ mirror \in {"receive", "echo", "release", "ended"}
    /\ accepted \in Nat /\ waiting \subseteq Nat
    /\ arrived \in 0..MaxArrived /\ failures \in 0..MaxFailures
    /\ missed \in BOOLEAN /\ leaked \in Nat /\ dropped \subseteq Datagrams
    /\ echoed \in Seq(Datagrams)

Receiving ==
    /\ rxMbx \in Seq(Messages) /\ event \in BOOLEAN
    /\ held \in Nat /\ free \in Nat
    /\ StackBuffersConserved

TypeInv == Shape /\ InHand /\ Receiving

LEMMA FailType ==
    ASSUME failures \in 0..MaxFailures, Fail
    PROVE  failures' \in 0..MaxFailures
BY DEF Fail

LEMMA StackReceiveKeepsReceiving ==
    ASSUME TypeInv,
           ReleaseBuffer \/ ReleaseBufferFails \/ DeviceReady \/ Consume
    PROVE  Receiving'
<1>. USE Kinds DEF TypeInv, Receiving, StackBuffersConserved
<1>1. CASE ReleaseBuffer
  BY <1>1 DEF ReleaseBuffer, Driver!Lend
<1>2. CASE ReleaseBufferFails
  <2>1. rxMbx' = Append(rxMbx, Empty) /\ event' = TRUE /\ held' = held - 1 /\ free' = free
        /\ held > 0
    BY <1>2 DEF ReleaseBufferFails, BufferComesBack, ToOwnMailbox, driverVars
  <2>2. rxMbx' \in Seq(Messages) /\ Len(rxMbx') = Len(rxMbx) + 1
    BY <2>1, AppendType
  <2>3. QED
    BY <2>1, <2>2
<1>3. CASE DeviceReady
  BY <1>3 DEF DeviceReady, rxVars, driverVars
<1>4. CASE Consume
  <2>1. held' = held + 1 /\ rxMbx' = Tail(rxMbx) /\ event' = event /\ free' = free
        /\ rxMbx # <<>>
    BY <1>4 DEF Consume, driverVars
  <2>2. rxMbx' \in Seq(Messages) /\ Len(rxMbx') = Len(rxMbx) - 1
    BY <2>1, HeadTailType
  <2>3. QED
    BY <2>1, <2>2
<1>5. QED
  BY <1>1, <1>2, <1>3, <1>4

LEMMA DeliverKeepsReceiving ==
    ASSUME TypeInv, Deliver
    PROVE  Receiving'
<1>. USE Kinds DEF TypeInv, Receiving, StackBuffersConserved
<1>1. PICK m \in {Arp, arrived + 1} : Signalled(m)
  BY DEF Deliver
<1>2. m \in Messages
  BY <1>1 DEF Deliver, Shape, Messages, Datagrams
<1>3. rxMbx' = Append(rxMbx, m) /\ event' = TRUE /\ held' = held
      /\ free' = free - 1 /\ free > 0
  BY <1>1 DEF Deliver, Signalled, ToOwnMailbox, Driver!Deliver
<1>4. rxMbx' \in Seq(Messages) /\ Len(rxMbx') = Len(rxMbx) + 1
  BY <1>2, <1>3, AppendType
<1>5. QED
  BY <1>3, <1>4

LEMMA StackReceiveKeepsShape ==
    ASSUME TypeInv,
           ReleaseBuffer \/ ReleaseBufferFails \/ DeviceReady \/ Consume
    PROVE  (Shape /\ InHand)'
<1>. USE Kinds DEF TypeInv, Shape, InHand, Labels, sockVars, mirrorVars, histVars, driverVars
<1>1. CASE ReleaseBuffer
  BY <1>1 DEF ReleaseBuffer, Driver!Lend
<1>2. CASE ReleaseBufferFails
  BY <1>2, FailType DEF ReleaseBufferFails
<1>3. CASE DeviceReady
  BY <1>3 DEF DeviceReady
<1>4. CASE Consume
  <2>1. sockRx' \in Seq(Datagrams) /\ dropped' \subseteq Datagrams
    <3>1. CASE UNCHANGED <<sockRx, dropped>>
      BY <3>1
    <3>2. CASE Head(rxMbx) \in Datagrams
               /\ \/ sockRx' = Append(sockRx, Head(rxMbx)) /\ UNCHANGED dropped
                  \/ dropped' = dropped \cup {Head(rxMbx)} /\ UNCHANGED sockRx
      <4>1. Append(sockRx, Head(rxMbx)) \in Seq(Datagrams)
        BY <3>2, AppendType
      <4>2. dropped \cup {Head(rxMbx)} \subseteq Datagrams
        BY <3>2
      <4>3. QED
        BY <3>2, <4>1, <4>2
    <3>3. QED
      BY <1>4, <3>1, <3>2 DEF Consume, IsDatagram
  <2>2. /\ pc' \in {"transmit", "give"} /\ back' \in {"poll", "give"} /\ hand' \in Messages
        /\ pc' = "transmit" => hand' = Arp
    BY <1>4 DEF Consume
  <2>3. UNCHANGED <<sockTx, mirrorVars, driverVars, arrived, failures, missed, leaked, echoed>>
    BY <1>4 DEF Consume
  <2>4. QED
    BY <2>1, <2>2, <2>3
<1>5. QED
  BY <1>1, <1>2, <1>3, <1>4

LEMMA SendingKeepsShape ==
    ASSUME TypeInv,
           Egress \/ PollDone \/ Transmit \/ AwaitRelease \/ DevicePanics
    PROVE  (Shape /\ InHand)'
<1>. USE Kinds DEF TypeInv, Shape, InHand, Labels, sockVars, mirrorVars, histVars, driverVars
<1>0. NothingReceived => failures' \in 0..MaxFailures /\ missed' \in BOOLEAN
  BY FailType DEF NothingReceived
<1>1. CASE Egress
  <2>1. /\ Head(sockTx) \in Datagrams /\ Tail(sockTx) \in Seq(Datagrams)
        /\ hand' = Head(sockTx) /\ sockTx' = Tail(sockTx)
    BY <1>1, HeadTailType DEF Egress, Dequeued
  <2>2. QED
    BY <1>0, <1>1, <2>1 DEF Egress
<1>2. CASE PollDone
  BY <1>0, <1>2 DEF PollDone
<1>3. CASE Transmit
  <2>1. waiting' \subseteq Nat /\ accepted' \in Nat
    BY <1>3 DEF Transmit, Driver!Accept
  <2>2. QED
    BY <1>3, <2>1 DEF Transmit
<1>4. CASE AwaitRelease
  <2>1. echoed' \in Seq(Datagrams)
    BY <1>4, AppendType DEF AwaitRelease
  <2>2. QED
    BY <1>4, <2>1 DEF AwaitRelease
<1>5. CASE DevicePanics
  BY <1>5, FailType DEF DevicePanics
<1>6. QED
  BY <1>1, <1>2, <1>3, <1>4, <1>5

LEMMA LoopKeepsShape ==
    ASSUME TypeInv,
           \/ Recv \/ SendTo \/ SendToFails \/ ReceiveMessage \/ ReceiveEvent
           \/ ReceiveFails \/ ReceivePanics
    PROVE  (Shape /\ InHand)'
<1>. USE Kinds DEF TypeInv, Shape, InHand, Labels, sockVars, mirrorVars, histVars, driverVars
<1>1. CASE Recv
  <2>1. sockRx # <<>> => Head(sockRx) \in Datagrams /\ Tail(sockRx) \in Seq(Datagrams)
    BY HeadTailType
  <2>2. QED
    BY <1>1, <2>1 DEF Recv
<1>2. CASE SendTo
  <2>1. toMirror' \in Seq(Datagrams)
    BY <1>2, AppendType DEF SendTo
  <2>2. QED
    BY <1>2, <2>1 DEF SendTo
<1>3. CASE SendToFails
  <2>1. failures' \in 0..MaxFailures /\ leaked' \in Nat
    BY <1>3, FailType DEF SendToFails
  <2>2. QED
    BY <1>3, <2>1 DEF SendToFails
<1>4. CASE ReceiveMessage
  <2>1. /\ toStack # <<>>
        /\ Head(toStack) \in Datagrams /\ Tail(toStack) \in Seq(Datagrams)
    BY <1>4, HeadTailType DEF ReceiveMessage, MessageFirst
  <2>2. sockTx' \in Seq(Datagrams) /\ dropped' \subseteq Datagrams
    <3>1. Append(sockTx, Head(toStack)) \in Seq(Datagrams)
      BY <2>1, AppendType
    <3>2. dropped \cup {Head(toStack)} \subseteq Datagrams
      BY <2>1
    <3>3. QED
      BY <1>4, <3>1, <3>2 DEF ReceiveMessage
  <2>3. QED
    BY <1>4, <2>1, <2>2 DEF ReceiveMessage
<1>5. CASE ReceiveEvent
  BY <1>5 DEF ReceiveEvent
<1>6. CASE ReceiveFails \/ ReceivePanics
  BY <1>6, FailType DEF ReceiveFails, ReceivePanics
<1>7. QED
  BY <1>1, <1>2, <1>3, <1>4, <1>5, <1>6

LEMMA OthersKeepShape ==
    ASSUME TypeInv, Mirror \/ Deliver \/ GiveBack \/ Tick
    PROVE  (Shape /\ InHand)'
<1>. USE Kinds DEF TypeInv, Shape, InHand, Labels, rxVars, sockVars, mirrorVars, histVars, driverVars
<1>1. CASE MirrorReceive
  <2>1. Head(toMirror) \in Datagrams /\ Tail(toMirror) \in Seq(Datagrams)
    BY <1>1, HeadTailType DEF MirrorReceive
  <2>2. QED
    BY <1>1, <2>1 DEF MirrorReceive
<1>2. CASE MirrorSend
  <2>1. toStack' \in Seq(Datagrams)
    BY <1>2, AppendType DEF MirrorSend
  <2>2. QED
    BY <1>2, <2>1 DEF MirrorSend
<1>3. CASE MirrorRelease
  BY <1>3 DEF MirrorRelease
<1>4. CASE MirrorFails
  BY <1>4, FailType DEF MirrorFails
<1>5. CASE Deliver
  BY <1>5 DEF Deliver, Driver!Deliver
<1>6. CASE GiveBack
  <2>1. waiting' \subseteq Nat
    BY <1>6 DEF GiveBack, Driver!GiveBack
  <2>2. QED
    BY <1>6, <2>1 DEF GiveBack, Driver!GiveBack
<1>7. CASE Tick
  BY <1>7 DEF Tick
<1>8. QED
  BY <1>1, <1>2, <1>3, <1>4, <1>5, <1>6, <1>7 DEF Mirror

LEMMA OthersKeepReceiving ==
    ASSUME TypeInv,
           \/ Egress \/ PollDone \/ Transmit \/ AwaitRelease \/ DevicePanics
           \/ Recv \/ SendTo \/ SendToFails \/ ReceiveMessage \/ ReceiveEvent
           \/ ReceiveFails \/ ReceivePanics \/ Mirror \/ GiveBack \/ Tick
    PROVE  Receiving'
<1>1. rxMbx' = rxMbx /\ held' = held /\ free' = free
  BY DEF Egress, PollDone, Transmit, AwaitRelease, DevicePanics, Recv, SendTo,
         SendToFails, ReceiveMessage, ReceiveEvent, ReceiveFails, ReceivePanics, Mirror,
         MirrorReceive, MirrorSend, MirrorRelease, MirrorFails, GiveBack, Tick,
         Driver!Accept, Driver!GiveBack, rxVars, driverVars
<1>2. event' \in BOOLEAN
  BY DEF TypeInv, Receiving,
         Egress, PollDone, Transmit, AwaitRelease, DevicePanics, Recv, SendTo,
         SendToFails, ReceiveMessage, ReceiveEvent, ReceiveFails, ReceivePanics, Mirror,
         MirrorReceive, MirrorSend, MirrorRelease, MirrorFails, GiveBack, Tick, rxVars
<1>3. QED
  BY <1>1, <1>2 DEF TypeInv, Receiving, StackBuffersConserved

LEMMA TypeStep == TypeInv /\ [Next]_vars => TypeInv'
<1>. SUFFICES ASSUME TypeInv, [Next]_vars PROVE TypeInv'
  OBVIOUS
<1>1. CASE ReleaseBuffer \/ ReleaseBufferFails \/ DeviceReady \/ Consume
  BY <1>1, StackReceiveKeepsReceiving, StackReceiveKeepsShape DEF TypeInv
<1>2. CASE Egress \/ PollDone \/ Transmit \/ AwaitRelease \/ DevicePanics
  BY <1>2, SendingKeepsShape, OthersKeepReceiving DEF TypeInv
<1>3. CASE \/ Recv \/ SendTo \/ SendToFails \/ ReceiveMessage \/ ReceiveEvent
           \/ ReceiveFails \/ ReceivePanics
  BY <1>3, LoopKeepsShape, OthersKeepReceiving DEF TypeInv
<1>4. CASE Mirror \/ GiveBack \/ Tick
  BY <1>4, OthersKeepShape, OthersKeepReceiving DEF TypeInv
<1>5. CASE Deliver
  BY <1>5, OthersKeepShape, DeliverKeepsReceiving DEF TypeInv
<1>6. CASE UNCHANGED vars
  BY <1>6 DEF TypeInv, Shape, InHand, Receiving, StackBuffersConserved, vars, rxVars,
              sockVars, mirrorVars, driverVars, histVars
<1>7. QED
  BY <1>1, <1>2, <1>3, <1>4, <1>5, <1>6 DEF Next, Stack

LEMMA TypeInit == Init => TypeInv
<1>. SUFFICES ASSUME Init PROVE TypeInv
  OBVIOUS
<1>1. Shape
  <2>1. /\ sockRx \in Seq(Datagrams) /\ sockTx \in Seq(Datagrams)
        /\ toMirror \in Seq(Datagrams) /\ toStack \in Seq(Datagrams)
        /\ echoed \in Seq(Datagrams) /\ waiting \subseteq Nat
    BY DEF Init, Driver!Init
  <2>2. /\ accepted \in Nat /\ arrived \in 0..MaxArrived /\ failures \in 0..MaxFailures
        /\ leaked \in Nat /\ dropped \subseteq Datagrams
    BY DEF Init, Driver!Init
  <2>3. missed \in BOOLEAN
    BY DEF Init
  <2>4. QED
    BY <2>1, <2>2, <2>3, Kinds DEF Init, Shape, Labels
<1>2. InHand
  BY DEF Init, InHand
<1>3. Receiving
  <2>1. rxMbx \in Seq(Messages) /\ Len(rxMbx) = 0
    BY DEF Init
  <2>2. event \in BOOLEAN
    BY DEF Init
  <2>3. held = Buffers /\ free = 0
    BY DEF Init, Driver!Init
  <2>4. QED
    BY <2>1, <2>2, <2>3 DEF Receiving, StackBuffersConserved
<1>4. QED
  BY <1>1, <1>2, <1>3 DEF TypeInv

LEMMA TypeCorrectStrong == Spec => []TypeInv
BY TypeInit, TypeStep, PTL DEF Spec

\* The state of the stack, the mirror and the driver is always well-formed.
THEOREM TypeCorrect == Spec => []TypeOK
<1>1. TypeInv => TypeOK
  BY DEF TypeInv, Shape, Labels, Receiving, StackBuffersConserved, TypeOK
<1>2. QED
  BY <1>1, TypeCorrectStrong, PTL

\* No receive buffer is ever lost or duplicated, whichever kernel call fails.
THEOREM BuffersNeverLost == Spec => []StackBuffersConserved
<1>1. TypeInv => StackBuffersConserved
  BY DEF TypeInv, Receiving
<1>2. QED
  BY <1>1, TypeCorrectStrong, PTL

-----------------------------------------------------------------------------
(***************************************************************************)
(* A loop that has found the mailbox empty ends in a wait that the next    *)
(* frame ends: from the poll on, a frame in the mailbox has set the event. *)
(***************************************************************************)
AnnouncedInv ==
    (pc \in {"socket", "forward", "wait"} /\ rxMbx # <<>> /\ ~missed) => event

LEMMA AnnouncedStep == TypeInv /\ AnnouncedInv /\ [Next]_vars => AnnouncedInv'
<1>. SUFFICES ASSUME TypeInv, AnnouncedInv, [Next]_vars PROVE AnnouncedInv'
  OBVIOUS
<1>. USE DEF AnnouncedInv, rxVars, histVars
<1>1. CASE ReleaseBuffer \/ ReleaseBufferFails \/ DeviceReady \/ Consume
  BY <1>1 DEF ReleaseBuffer, ReleaseBufferFails, DeviceReady, Consume,
              BufferComesBack, ToOwnMailbox
<1>2. CASE Egress \/ PollDone \/ DevicePanics
  BY <1>2 DEF Egress, PollDone, NothingReceived, DevicePanics
<1>3. CASE Transmit \/ AwaitRelease
  <2>1. back \in {"poll", "give"}
    BY DEF TypeInv, Shape
  <2>2. QED
    BY <1>3, <2>1 DEF Transmit, AwaitRelease
<1>4. CASE \/ Recv \/ SendTo \/ SendToFails \/ ReceiveMessage \/ ReceiveEvent
           \/ ReceiveFails \/ ReceivePanics
  BY <1>4 DEF Recv, SendTo, SendToFails, ReceiveMessage, ReceiveEvent, ReceiveFails,
              ReceivePanics
<1>5. CASE Mirror \/ GiveBack \/ Tick
  BY <1>5 DEF Mirror, MirrorReceive, MirrorSend, MirrorRelease, MirrorFails, GiveBack, Tick
<1>6. CASE Deliver
  <2>1. event'
    BY <1>6 DEF Deliver, Signalled, ToOwnMailbox
  <2>2. QED
    BY <2>1
<1>7. CASE UNCHANGED vars
  BY <1>7 DEF vars
<1>8. QED
  BY <1>1, <1>2, <1>3, <1>4, <1>5, <1>6, <1>7 DEF Next, Stack

\* No frame that arrives while the task is about to wait is left unannounced.
THEOREM NoSilentFrame == Spec => []FramesAreAnnounced
<1>1. Init => AnnouncedInv
  BY DEF Init, AnnouncedInv
<1>2. AnnouncedInv => FramesAreAnnounced
  BY DEF AnnouncedInv, FramesAreAnnounced
<1>3. QED
  BY <1>1, <1>2, TypeCorrectStrong, AnnouncedStep, PTL DEF Spec

-----------------------------------------------------------------------------
(***************************************************************************)
(* Messages that are not yet echoed, echoes, and leaked messages fit in the*)
(* stack's pool, but for one more after a message was sent: then an echo is*)
(* there, and the receive that follows takes it.                           *)
(***************************************************************************)
Circulating ==
    Len(toMirror) + (IF mirror = "echo" THEN 1 ELSE 0) + Len(toStack) + leaked

PoolsInv ==
    (~missed /\ mirror # "ended") =>
        /\ Circulating <= StackPool + (IF pc \in {"wait", "panic"} THEN 1 ELSE 0)
        /\ Len(toStack) = 0 => Circulating <= StackPool

LEMMA LenFacts ==
    ASSUME TypeInv
    PROVE  /\ Len(toMirror) \in Nat /\ Len(toStack) \in Nat /\ leaked \in Nat
           /\ Len(toStack) = 0 <=> toStack = <<>>
           /\ toMirror # <<>> => Len(Tail(toMirror)) = Len(toMirror) - 1
           /\ toStack # <<>> => Len(Tail(toStack)) = Len(toStack) - 1
           /\ hand \in Datagrams => Len(Append(toMirror, hand)) = Len(toMirror) + 1
           /\ echo \in Datagrams => Len(Append(toStack, echo)) = Len(toStack) + 1
<1>1. toMirror \in Seq(Datagrams) /\ toStack \in Seq(Datagrams) /\ leaked \in Nat
  BY DEF TypeInv, Shape
<1>2. Len(toMirror) \in Nat /\ Len(toStack) \in Nat /\ (Len(toStack) = 0 <=> toStack = <<>>)
  BY <1>1
<1>3. /\ toMirror # <<>> => Len(Tail(toMirror)) = Len(toMirror) - 1
      /\ toStack # <<>> => Len(Tail(toStack)) = Len(toStack) - 1
  BY <1>1, HeadTailType
<1>4. /\ hand \in Datagrams => Len(Append(toMirror, hand)) = Len(toMirror) + 1
      /\ echo \in Datagrams => Len(Append(toStack, echo)) = Len(toStack) + 1
  BY <1>1, AppendType
<1>5. QED
  BY <1>1, <1>2, <1>3, <1>4

LEMMA PoolsStep == TypeInv /\ PoolsInv /\ [Next]_vars => PoolsInv'
<1>. SUFFICES ASSUME TypeInv, PoolsInv, [Next]_vars PROVE PoolsInv'
  OBVIOUS
<1>. USE DEF PoolsInv, Circulating
<1>0. missed \in BOOLEAN /\ back \in {"poll", "give"}
  BY DEF TypeInv, Shape
<1>1. CASE \/ ReleaseBuffer \/ ReleaseBufferFails \/ DeviceReady \/ Consume
           \/ Egress \/ PollDone \/ Transmit \/ AwaitRelease \/ DevicePanics
  <2>1. UNCHANGED <<mirror, toMirror, toStack, leaked>>
    BY <1>1 DEF ReleaseBuffer, ReleaseBufferFails, DeviceReady, Consume, Egress, PollDone,
                Transmit, AwaitRelease, DevicePanics, mirrorVars, histVars
  <2>2. missed' = missed \/ missed'
    BY <1>1, <1>0 DEF ReleaseBuffer, ReleaseBufferFails, DeviceReady, Consume, Egress, PollDone,
                NothingReceived, Transmit, AwaitRelease, DevicePanics, histVars
  <2>3. pc \notin {"wait", "panic"}
    BY <1>1 DEF ReleaseBuffer, ReleaseBufferFails, DeviceReady, Consume, Egress, PollDone,
                Transmit, AwaitRelease, DevicePanics
  <2>4. QED
    BY <2>1, <2>2, <2>3, LenFacts
<1>2. CASE Recv
  <2>1. UNCHANGED <<mirror, toMirror, toStack, leaked, missed>> /\ pc = "socket"
    BY <1>2 DEF Recv, mirrorVars, histVars
  <2>2. QED
    BY <2>1, LenFacts
<1>3. CASE SendTo
  <2>1. /\ Len(toMirror') = Len(toMirror) + 1
        /\ UNCHANGED <<mirror, toStack, leaked, missed>> /\ pc = "forward" /\ pc' = "wait"
    BY <1>3, LenFacts DEF SendTo, histVars, TypeInv, InHand
  <2>2. Len(toMirror) + leaked + (IF mirror = "echo" THEN 1 ELSE 0) < StackPool
    BY <1>3, <2>1, LenFacts DEF SendTo, StackHasRoom, StackUses
  <2>3. QED
    BY <2>1, <2>2, LenFacts
<1>4. CASE SendToFails
  <2>1. UNCHANGED <<mirror, toMirror, toStack, missed>> /\ pc = "forward" /\ pc' = "wait"
    BY <1>4 DEF SendToFails, mirrorVars
  <2>2. \/ mirror = "ended" \/ leaked' = leaked
        \/ /\ Len(toMirror) + leaked + (IF mirror = "echo" THEN 1 ELSE 0) < StackPool
           /\ leaked' = leaked + 1
    BY <1>4, <2>1, LenFacts DEF SendToFails, StackHasRoom, StackUses
  <2>3. QED
    BY <2>1, <2>2, LenFacts
<1>5. CASE ReceiveMessage
  <2>1. /\ Len(toStack') = Len(toStack) - 1
        /\ UNCHANGED <<mirror, toMirror, leaked, missed>> /\ pc = "wait" /\ pc' = "poll"
    BY <1>5, LenFacts DEF ReceiveMessage, MessageFirst
  <2>2. QED
    BY <2>1, LenFacts
<1>6. CASE ReceiveEvent
  <2>1. /\ Len(toStack) = 0
        /\ UNCHANGED <<mirror, toMirror, toStack, leaked, missed>>
    BY <1>6, LenFacts DEF ReceiveEvent, MessageFirst, mirrorVars, histVars
  <2>2. QED
    BY <2>1, LenFacts
<1>7. CASE ReceiveFails
  BY <1>7 DEF ReceiveFails
<1>8. CASE ReceivePanics
  <2>1. /\ UNCHANGED <<mirror, toMirror, toStack, leaked, missed>>
        /\ pc = "wait" /\ pc' = "panic"
    BY <1>8 DEF ReceivePanics, mirrorVars, histVars
  <2>2. QED
    BY <2>1, LenFacts
<1>9. CASE MirrorReceive
  <2>1. /\ Len(toMirror') = Len(toMirror) - 1 /\ mirror = "receive" /\ mirror' = "echo"
        /\ UNCHANGED <<toStack, leaked, missed, pc>>
    BY <1>9, LenFacts DEF MirrorReceive, histVars
  <2>2. QED
    BY <2>1, LenFacts
<1>10. CASE MirrorSend
  <2>1. /\ Len(toStack') = Len(toStack) + 1 /\ mirror = "echo" /\ mirror' = "release"
        /\ UNCHANGED <<toMirror, leaked, missed, pc>>
    BY <1>10, LenFacts DEF MirrorSend, histVars, TypeInv, InHand
  <2>2. QED
    BY <2>1, LenFacts
<1>11. CASE MirrorRelease
  <2>1. /\ mirror = "release" /\ mirror' = "receive"
        /\ UNCHANGED <<toMirror, toStack, leaked, missed, pc>>
    BY <1>11 DEF MirrorRelease, histVars
  <2>2. QED
    BY <2>1, LenFacts
<1>12. CASE MirrorFails
  BY <1>12 DEF MirrorFails
<1>13. CASE Deliver \/ GiveBack \/ Tick \/ UNCHANGED vars
  <2>1. UNCHANGED <<mirror, toMirror, toStack, leaked, missed, pc>>
    BY <1>13 DEF Deliver, GiveBack, Tick, vars, mirrorVars, histVars
  <2>2. QED
    BY <2>1
<1>14. QED
  BY <1>1, <1>2, <1>3, <1>4, <1>5, <1>6, <1>7, <1>8, <1>9, <1>10, <1>11, <1>12, <1>13
  DEF Next, Stack, Mirror

\* The stack and the mirror never wait for a message of a pool that only the other
\* could refill, whatever the sizes of the pools and however many messages leaked.
THEOREM NoMutualWait == Spec => []NeverBothHeldUp
<1>1. Init => PoolsInv
  BY PoolsAssumption DEF Init, PoolsInv, Circulating
<1>2. TypeInv /\ PoolsInv => NeverBothHeldUp
  <2>. SUFFICES ASSUME TypeInv, PoolsInv, ~missed, StackHeldUp, MirrorHeldUp PROVE FALSE
    BY DEF NeverBothHeldUp
  <2>1. mirror = "echo" /\ pc \in {"transmit", "forward"}
    BY DEF StackHeldUp, MirrorHeldUp
  <2>2. Len(toMirror) + leaked + 1 >= StackPool
    BY <2>1, LenFacts DEF StackHeldUp, StackHasRoom, StackUses
  <2>3. Len(toStack) >= 1
    BY LenFacts DEF MirrorHeldUp, MirrorHasRoom
  <2>4. Circulating <= StackPool
    BY <2>1 DEF PoolsInv
  <2>5. QED
    BY <2>1, <2>2, <2>3, <2>4, LenFacts DEF Circulating
<1>3. QED
  BY <1>1, <1>2, TypeCorrectStrong, PoolsStep, PTL DEF Spec

-----------------------------------------------------------------------------
(***************************************************************************)
(* Datagrams keep their order all the way: where one can be, from the last *)
(* place (echoed) to the first (not yet arrived), those of a place came    *)
(* before those of any place further from the end, and each queue is       *)
(* sorted.  A step moves one datagram, the first of its place, to the end  *)
(* of the next place, or drops it.                                         *)
(***************************************************************************)
NotArrived == (arrived + 1)..MaxArrived

Stages ==
    <<Elements(echoed),
      IF pc \in {"transmit", "await"} THEN {hand} \cap Datagrams ELSE {},
      Elements(sockTx),
      Elements(toStack),
      IF mirror = "echo" THEN {echo} ELSE {},
      Elements(toMirror),
      IF pc = "forward" THEN {hand} ELSE {},
      Elements(sockRx),
      Elements(rxMbx) \cap Datagrams,
      NotArrived>>

Precede(A, B) == \A a \in A, b \in B : b \in Datagrams => a < b

InOrder(S) == \A k, l \in 1..10 : k < l => Precede(S[k], S[l])

Sorted(s) == \A i, j \in DOMAIN s : i < j /\ s[j] \in Datagrams => s[i] < s[j]

QueuesSorted ==
    /\ Sorted(echoed) /\ Sorted(sockTx) /\ Sorted(toStack)
    /\ Sorted(toMirror) /\ Sorted(sockRx) /\ Sorted(rxMbx)

OrderInv == QueuesSorted /\ InOrder(Stages)

\* What is where; the form in which the proofs use Stages.
StagesRead ==
    /\ Stages[1] = Elements(echoed)
    /\ pc \in {"transmit", "await"} => Stages[2] = {hand} \cap Datagrams
    /\ pc \notin {"transmit", "await"} => Stages[2] = {}
    /\ Stages[3] = Elements(sockTx)
    /\ Stages[4] = Elements(toStack)
    /\ mirror = "echo" => Stages[5] = {echo}
    /\ mirror # "echo" => Stages[5] = {}
    /\ Stages[6] = Elements(toMirror)
    /\ pc = "forward" => Stages[7] = {hand}
    /\ pc # "forward" => Stages[7] = {}
    /\ Stages[8] = Elements(sockRx)
    /\ Stages[9] = Elements(rxMbx) \cap Datagrams
    /\ Stages[10] = NotArrived

LEMMA StageFacts == StagesRead /\ StagesRead'
BY DEF StagesRead, Stages

LEMMA ElementsAppend ==
    ASSUME NEW S, NEW s \in Seq(S), NEW e \in S
    PROVE  Elements(Append(s, e)) = Elements(s) \cup {e}
<1>1. /\ DOMAIN s = 1..Len(s) /\ DOMAIN Append(s, e) = 1..(Len(s) + 1) /\ Len(s) \in Nat
      /\ \A i \in 1..Len(s) : Append(s, e)[i] = s[i]
      /\ Append(s, e)[Len(s) + 1] = e
  OBVIOUS
<1>2. QED
  BY <1>1 DEF Elements

LEMMA SortedAppend ==
    ASSUME NEW S, NEW s \in Seq(S), NEW e \in S, Sorted(s), Precede(Elements(s), {e})
    PROVE  Sorted(Append(s, e))
<1>1. /\ DOMAIN s = 1..Len(s) /\ DOMAIN Append(s, e) = 1..(Len(s) + 1) /\ Len(s) \in Nat
      /\ \A i \in 1..Len(s) : Append(s, e)[i] = s[i]
      /\ Append(s, e)[Len(s) + 1] = e
  OBVIOUS
<1>2. SUFFICES ASSUME NEW i \in 1..(Len(s) + 1), NEW j \in 1..(Len(s) + 1), i < j,
                      Append(s, e)[j] \in Datagrams
               PROVE  Append(s, e)[i] < Append(s, e)[j]
  BY <1>1 DEF Sorted
<1>3. i \in 1..Len(s)
  BY <1>1, <1>2
<1>4. CASE j \in 1..Len(s)
  BY <1>1, <1>2, <1>3, <1>4 DEF Sorted
<1>5. CASE j = Len(s) + 1
  <2>1. s[i] \in Elements(s)
    BY <1>1, <1>3 DEF Elements
  <2>2. s[i] < e
    BY <1>1, <1>2, <1>5, <2>1 DEF Precede
  <2>3. QED
    BY <1>1, <1>3, <1>5, <2>2
<1>6. QED
  BY <1>1, <1>4, <1>5

LEMMA SortedTail ==
    ASSUME NEW S, NEW s \in Seq(S), s # <<>>, Sorted(s)
    PROVE  /\ Sorted(Tail(s)) /\ Precede({Head(s)}, Elements(Tail(s)))
           /\ Head(s) \in Elements(s) /\ Elements(Tail(s)) \subseteq Elements(s)
<1>1. /\ DOMAIN s = 1..Len(s) /\ DOMAIN Tail(s) = 1..(Len(s) - 1) /\ Len(s) \in Nat \ {0}
      /\ \A i \in 1..(Len(s) - 1) : Tail(s)[i] = s[i + 1]
      /\ Head(s) = s[1]
  OBVIOUS
<1>2. \A i \in DOMAIN Tail(s) : Tail(s)[i] = s[i + 1] /\ i + 1 \in DOMAIN s /\ 1 < i + 1
  BY <1>1
<1>3. 1 \in DOMAIN s
  BY <1>1
<1>4. Precede({Head(s)}, Elements(Tail(s)))
  BY <1>1, <1>2, <1>3 DEF Sorted, Precede, Elements
<1>5. Head(s) \in Elements(s) /\ Elements(Tail(s)) \subseteq Elements(s)
  BY <1>1, <1>2, <1>3 DEF Elements
<1>6. ASSUME NEW i \in DOMAIN Tail(s), NEW j \in DOMAIN Tail(s), i < j,
             Tail(s)[j] \in Datagrams
      PROVE  Tail(s)[i] < Tail(s)[j]
  <2>1. i + 1 < j + 1
    BY <1>1, <1>6
  <2>2. s[i + 1] < s[j + 1]
    BY <1>2, <1>6, <2>1 DEF Sorted
  <2>3. QED
    BY <1>2, <2>2
<1>7. QED
  BY <1>4, <1>5, <1>6 DEF Sorted

\* The first of place k, all whose others came later, moves to place n.
LEMMA MoveKeepsOrder ==
    ASSUME NEW S, NEW T, InOrder(S), NEW k \in 2..10, NEW e \in S[k],
           NEW n \in 1..9, n = k - 1,
           \A l \in 1..10 : l # n => T[l] \subseteq S[l],
           T[n] \subseteq S[n] \cup {e},
           Precede({e}, T[k])
    PROVE  InOrder(T)
<1>. SUFFICES ASSUME NEW i \in 1..10, NEW j \in 1..10, i < j,
                     NEW a \in T[i], NEW b \in T[j], b \in Datagrams
              PROVE  a < b
  BY DEF InOrder, Precede
<1>1. CASE a \in S[i] /\ b \in S[j]
  BY <1>1 DEF InOrder, Precede
<1>2. CASE i = n /\ a = e
  <2>1. CASE j = k
    BY <1>2, <2>1 DEF Precede
  <2>2. CASE k < j
    <3>1. b \in S[j]
      BY <2>2
    <3>2. QED
      BY <1>2, <2>2, <3>1 DEF InOrder, Precede
  <2>3. QED
    BY <1>2, <2>1, <2>2
<1>3. CASE j = n /\ b = e /\ a \in S[i]
  <2>1. i < k
    BY <1>3
  <2>2. QED
    BY <1>3, <2>1 DEF InOrder, Precede
<1>4. a \in S[i] \/ (i = n /\ a = e)
  OBVIOUS
<1>5. b \in S[j] \/ (j = n /\ b = e)
  OBVIOUS
<1>6. QED
  BY <1>1, <1>2, <1>3, <1>4, <1>5

LEMMA DropKeepsOrder ==
    ASSUME NEW S, NEW T, InOrder(S), \A l \in 1..10 : T[l] \subseteq S[l]
    PROVE  InOrder(T)
BY DEF InOrder, Precede

LEMMA Places == \A l \in 1..10 : \/ l = 1 \/ l = 2 \/ l = 3 \/ l = 4 \/ l = 5
                                 \/ l = 6 \/ l = 7 \/ l = 8 \/ l = 9 \/ l = 10
OBVIOUS

LEMMA QueueTypes ==
    ASSUME TypeInv
    PROVE  /\ sockRx \in Seq(Datagrams) /\ sockTx \in Seq(Datagrams)
           /\ toMirror \in Seq(Datagrams) /\ toStack \in Seq(Datagrams)
           /\ echoed \in Seq(Datagrams) /\ rxMbx \in Seq(Messages)
           /\ hand \in Messages /\ back \in {"poll", "give"}
           /\ pc \in {"transmit", "await"} => hand \in Datagrams \cup {Arp}
           /\ pc = "forward" => hand \in Datagrams
           /\ mirror \in {"echo", "release"} => echo \in Datagrams
           /\ arrived \in 0..MaxArrived
BY DEF TypeInv, Shape, InHand, Receiving

\* A buffer, or an answer to a frame that is no datagram, in the mailbox.
LEMMA NoDatagramKeepsMailbox ==
    ASSUME TypeInv, OrderInv, NEW m \in {Arp, Empty}
    PROVE  /\ Sorted(Append(rxMbx, m))
           /\ Elements(Append(rxMbx, m)) \cap Datagrams = Elements(rxMbx) \cap Datagrams
<1>1. rxMbx \in Seq(Messages) /\ m \in Messages /\ m \notin Datagrams
  BY QueueTypes, Kinds
<1>2. Precede(Elements(rxMbx), {m})
  BY <1>1 DEF Precede
<1>3. QED
  BY <1>1, <1>2, ElementsAppend, SortedAppend DEF OrderInv, QueuesSorted

LEMMA ReceivingKeepsOrder ==
    ASSUME TypeInv, OrderInv,
           ReleaseBuffer \/ ReleaseBufferFails \/ DeviceReady \/ Consume \/ Deliver
    PROVE  OrderInv'
<1>. USE DEF sockVars, mirrorVars, histVars, rxVars
<1>1. /\ sockRx \in Seq(Datagrams) /\ rxMbx \in Seq(Messages) /\ arrived \in 0..MaxArrived
  BY QueueTypes
<1>2. QueuesSorted /\ InOrder(Stages)
  BY DEF OrderInv
<1>3. ASSUME UNCHANGED <<sockVars, mirrorVars, echoed, arrived>>,
             pc \notin {"transmit", "await", "forward"},
             pc' \notin {"transmit", "await", "forward"} \/ (pc' = "transmit" /\ hand' = Arp),
             Sorted(rxMbx'),
             Elements(rxMbx') \cap Datagrams \subseteq Elements(rxMbx) \cap Datagrams
      PROVE  OrderInv'
  <2>1. \A l \in 1..10 : Stages'[l] \subseteq Stages[l]
    BY <1>3, StageFacts, Places, Kinds DEF StagesRead, NotArrived
  <2>2. InOrder(Stages')
    BY <1>2, <2>1, DropKeepsOrder
  <2>3. QED
    BY <1>2, <1>3, <2>2 DEF OrderInv, QueuesSorted, Sorted, InOrder, Precede
<1>4. CASE ReleaseBuffer \/ DeviceReady
  BY <1>2, <1>3, <1>4 DEF ReleaseBuffer, DeviceReady, QueuesSorted
<1>5. CASE ReleaseBufferFails
  <2>1. rxMbx' = Append(rxMbx, Empty) /\ UNCHANGED <<sockVars, mirrorVars, echoed, arrived>>
        /\ pc \in {"init", "give"} /\ pc' \in {"poll", "panic"}
    BY <1>5 DEF ReleaseBufferFails, BufferComesBack, ToOwnMailbox
  <2>2. QED
    BY <1>3, <2>1, NoDatagramKeepsMailbox
<1>6. CASE Consume
  <2>1. /\ rxMbx # <<>> /\ rxMbx' = Tail(rxMbx) /\ pc = "poll"
        /\ UNCHANGED <<sockTx, mirrorVars, echoed, arrived>>
        /\ pc' = "give" \/ (pc' = "transmit" /\ hand' = Arp)
    BY <1>6 DEF Consume
  <2>2. /\ Sorted(rxMbx') /\ Precede({Head(rxMbx)}, Elements(rxMbx'))
        /\ Head(rxMbx) \in Elements(rxMbx) /\ Elements(rxMbx') \subseteq Elements(rxMbx)
    BY <1>1, <1>2, <2>1, SortedTail DEF QueuesSorted
  <2>3. CASE sockRx' = sockRx
    BY <1>3, <2>1, <2>2, <2>3
  <2>4. CASE /\ Head(rxMbx) \in Datagrams /\ sockRx' = Append(sockRx, Head(rxMbx))
             /\ pc' = "give"
    <3>1. Head(rxMbx) \in Stages[9]
      BY <2>2, <2>4, StageFacts DEF StagesRead
    <3>2. Precede(Elements(sockRx), {Head(rxMbx)})
      BY <1>2, <3>1, StageFacts DEF StagesRead, InOrder, Precede
    <3>3. Sorted(sockRx') /\ Elements(sockRx') = Elements(sockRx) \cup {Head(rxMbx)}
      BY <1>1, <1>2, <2>4, <3>2, SortedAppend, ElementsAppend DEF QueuesSorted
    <3>4. \A l \in 1..10 : l # 8 => Stages'[l] \subseteq Stages[l]
      BY <2>1, <2>2, <2>4, StageFacts, Places DEF StagesRead, NotArrived
    <3>5. /\ Stages'[8] \subseteq Stages[8] \cup {Head(rxMbx)}
          /\ Precede({Head(rxMbx)}, Stages'[9])
      BY <2>2, <3>3, StageFacts DEF StagesRead, Precede
    <3>6. InOrder(Stages')
      <4>1. 9 \in 2..10 /\ 8 \in 1..9 /\ 8 = 9 - 1
        OBVIOUS
      <4>2. QED
        BY <1>2, <3>1, <3>4, <3>5, <4>1, MoveKeepsOrder
    <3>7. QED
      BY <1>2, <2>1, <2>2, <3>3, <3>6 DEF OrderInv, QueuesSorted, Sorted, InOrder, Precede
  <2>5. QED
    BY <1>6, <2>1, <2>3, <2>4 DEF Consume, IsDatagram
<1>7. CASE Deliver
  <2>1. PICK m \in {Arp, arrived + 1} : rxMbx' = Append(rxMbx, m)
    BY <1>7 DEF Deliver, Signalled, ToOwnMailbox
  <2>2. /\ UNCHANGED <<pc, hand, sockVars, mirrorVars, echoed>>
        /\ arrived' = arrived + 1 /\ arrived < MaxArrived
    BY <1>7 DEF Deliver
  <2>3. NotArrived' \subseteq NotArrived
    BY <1>1, <2>2 DEF NotArrived
  <2>4. CASE m = Arp
    <3>1. /\ Sorted(rxMbx')
          /\ Elements(rxMbx') \cap Datagrams = Elements(rxMbx) \cap Datagrams
      BY <2>1, <2>4, NoDatagramKeepsMailbox
    <3>2. \A l \in 1..10 : Stages'[l] \subseteq Stages[l]
      BY <2>2, <2>3, <3>1, StageFacts, Places DEF StagesRead
    <3>3. InOrder(Stages')
      BY <1>2, <3>2, DropKeepsOrder
    <3>4. QED
      BY <1>2, <2>2, <3>1, <3>3 DEF OrderInv, QueuesSorted, Sorted, InOrder, Precede
  <2>5. CASE m = arrived + 1
    <3>1. m \in Datagrams /\ m \in NotArrived
      BY <1>1, <2>2, <2>5 DEF Datagrams, NotArrived
    <3>2. m \in Stages[10] /\ m \in Messages
      BY <3>1, StageFacts, Kinds DEF StagesRead
    <3>3. \A n \in Messages \ Datagrams : n < m
      BY <3>1 DEF Messages, Datagrams, Arp, Empty
    <3>4. Precede(Elements(rxMbx), {m})
      <4>1. Elements(rxMbx) \subseteq Messages
        BY <1>1 DEF Elements
      <4>2. Precede(Elements(rxMbx) \cap Datagrams, {m})
        BY <1>2, <3>2, StageFacts DEF StagesRead, InOrder, Precede
      <4>3. QED
        BY <3>3, <4>1, <4>2 DEF Precede
    <3>5. Sorted(rxMbx') /\ Elements(rxMbx') = Elements(rxMbx) \cup {m}
      BY <1>1, <1>2, <2>1, <3>2, <3>4, SortedAppend, ElementsAppend DEF QueuesSorted
    <3>6. \A l \in 1..10 : l # 9 => Stages'[l] \subseteq Stages[l]
      BY <2>2, <2>3, StageFacts, Places DEF StagesRead
    <3>7. Stages'[9] \subseteq Stages[9] \cup {m} /\ Precede({m}, Stages'[10])
      <4>1. \A n \in NotArrived' : m < n
        BY <1>1, <2>2, <2>5 DEF NotArrived
      <4>2. QED
        BY <3>5, <4>1, StageFacts DEF StagesRead, Precede
    <3>8. InOrder(Stages')
      BY <1>2, <3>2, <3>6, <3>7, MoveKeepsOrder
    <3>9. QED
      BY <1>2, <2>2, <3>5, <3>8 DEF OrderInv, QueuesSorted, Sorted, InOrder, Precede
  <2>6. QED
    BY <2>4, <2>5
<1>8. QED
  BY <1>4, <1>5, <1>6, <1>7

\* A step that moves no datagram, or drops the one in hand.
LEMMA QueuesKeepOrder ==
    ASSUME TypeInv, OrderInv,
           UNCHANGED <<echoed, sockVars, toStack, toMirror, rxMbx, arrived>>,
           mirror' = "echo" => mirror = "echo" /\ echo' = echo,
           pc' \in {"transmit", "await"} => pc \in {"transmit", "await"} /\ hand' = hand,
           pc' = "forward" => pc = "forward" /\ hand' = hand
    PROVE  OrderInv'
<1>1. \A l \in 1..10 : Stages'[l] \subseteq Stages[l]
  BY StageFacts, Places DEF StagesRead, NotArrived, sockVars
<1>2. InOrder(Stages')
  BY <1>1, DropKeepsOrder DEF OrderInv
<1>3. QED
  BY <1>2 DEF OrderInv, QueuesSorted, Sorted, InOrder, Precede, sockVars

LEMMA SendingKeepsOrder ==
    ASSUME TypeInv, OrderInv,
           Egress \/ PollDone \/ Transmit \/ AwaitRelease \/ DevicePanics
    PROVE  OrderInv'
<1>. USE DEF sockVars, mirrorVars, histVars, rxVars
<1>1. /\ sockTx \in Seq(Datagrams) /\ echoed \in Seq(Datagrams)
      /\ pc \in {"transmit", "await"} => hand \in Datagrams \cup {Arp}
      /\ back \in {"poll", "give"}
  BY QueueTypes
<1>2. QueuesSorted /\ InOrder(Stages)
  BY DEF OrderInv
<1>3. CASE Egress
  <2>1. /\ sockTx # <<>> /\ sockTx' = Tail(sockTx) /\ hand' = Head(sockTx)
        /\ pc = "poll" /\ pc' = "transmit"
        /\ UNCHANGED <<rxMbx, sockRx, mirrorVars, arrived, echoed>>
    BY <1>3 DEF Egress, Dequeued
  <2>2. /\ Sorted(sockTx') /\ Precede({Head(sockTx)}, Elements(sockTx'))
        /\ Head(sockTx) \in Elements(sockTx) /\ Elements(sockTx') \subseteq Elements(sockTx)
    BY <1>1, <1>2, <2>1, SortedTail DEF QueuesSorted
  <2>3. Head(sockTx) \in Stages[3]
    BY <2>2, StageFacts DEF StagesRead
  <2>4. \A l \in 1..10 : l # 2 => Stages'[l] \subseteq Stages[l]
    BY <2>1, <2>2, StageFacts, Places DEF StagesRead, NotArrived
  <2>5. /\ Stages'[2] \subseteq Stages[2] \cup {Head(sockTx)}
        /\ Precede({Head(sockTx)}, Stages'[3])
    BY <2>1, <2>2, StageFacts DEF StagesRead, Precede
  <2>6. InOrder(Stages')
    <3>1. 3 \in 2..10 /\ 2 \in 1..9 /\ 2 = 3 - 1
      OBVIOUS
    <3>2. QED
      BY <1>2, <2>3, <2>4, <2>5, <3>1, MoveKeepsOrder
  <2>7. QED
    BY <1>2, <2>1, <2>2, <2>6 DEF OrderInv, QueuesSorted, Sorted, InOrder, Precede
<1>4. CASE PollDone
  BY <1>4, QueuesKeepOrder DEF PollDone
<1>5. CASE Transmit
  BY <1>5, QueuesKeepOrder DEF Transmit
<1>6. CASE AwaitRelease
  <2>1. /\ pc = "await" /\ pc' \in {"poll", "give"}
        /\ UNCHANGED <<rxMbx, sockVars, mirrorVars, arrived>>
    BY <1>1, <1>6 DEF AwaitRelease
  <2>2. CASE hand = Arp
    BY <1>6, <2>1, <2>2, QueuesKeepOrder DEF AwaitRelease
  <2>3. CASE hand \in Datagrams
    <3>1. echoed' = Append(echoed, hand)
      BY <1>6, <2>3, Kinds DEF AwaitRelease
    <3>2. hand \in Stages[2]
      BY <2>1, <2>3, StageFacts DEF StagesRead
    <3>3. Precede(Elements(echoed), {hand})
      BY <1>2, <3>2, StageFacts DEF StagesRead, InOrder, Precede
    <3>4. Sorted(echoed') /\ Elements(echoed') = Elements(echoed) \cup {hand}
      BY <1>1, <1>2, <2>3, <3>1, <3>3, SortedAppend, ElementsAppend DEF QueuesSorted
    <3>5. \A l \in 1..10 : l # 1 => Stages'[l] \subseteq Stages[l]
      BY <2>1, StageFacts, Places DEF StagesRead, NotArrived
    <3>6. Stages'[1] \subseteq Stages[1] \cup {hand} /\ Precede({hand}, Stages'[2])
      BY <2>1, <3>4, StageFacts DEF StagesRead, Precede
    <3>7. InOrder(Stages')
      <4>1. 2 \in 2..10 /\ 1 \in 1..9 /\ 1 = 2 - 1
        OBVIOUS
      <4>2. QED
        BY <1>2, <3>2, <3>5, <3>6, <4>1, MoveKeepsOrder
    <3>8. QED
      BY <1>2, <2>1, <3>4, <3>7 DEF OrderInv, QueuesSorted, Sorted, InOrder, Precede
  <2>4. QED
    BY <1>1, <2>1, <2>2, <2>3
<1>7. CASE DevicePanics
  BY <1>7, QueuesKeepOrder DEF DevicePanics
<1>8. QED
  BY <1>3, <1>4, <1>5, <1>6, <1>7

LEMMA LoopKeepsOrder ==
    ASSUME TypeInv, OrderInv,
           \/ Recv \/ SendTo \/ SendToFails \/ ReceiveMessage \/ ReceiveEvent
           \/ ReceiveFails \/ ReceivePanics
    PROVE  OrderInv'
<1>. USE DEF sockVars, mirrorVars, histVars, rxVars
<1>1. /\ sockRx \in Seq(Datagrams) /\ sockTx \in Seq(Datagrams)
      /\ toMirror \in Seq(Datagrams) /\ toStack \in Seq(Datagrams)
      /\ pc = "forward" => hand \in Datagrams
  BY QueueTypes
<1>2. QueuesSorted /\ InOrder(Stages)
  BY DEF OrderInv
<1>3. CASE Recv
  <2>1. CASE sockRx = <<>>
    BY <1>3, <2>1, QueuesKeepOrder DEF Recv
  <2>2. CASE sockRx # <<>>
    <3>1. /\ sockRx' = Tail(sockRx) /\ hand' = Head(sockRx)
          /\ pc = "socket" /\ pc' = "forward"
          /\ UNCHANGED <<rxMbx, sockTx, mirrorVars, arrived, echoed>>
      BY <1>3, <2>2 DEF Recv
    <3>2. /\ Sorted(sockRx') /\ Precede({Head(sockRx)}, Elements(sockRx'))
          /\ Head(sockRx) \in Elements(sockRx) /\ Elements(sockRx') \subseteq Elements(sockRx)
      BY <1>1, <1>2, <2>2, <3>1, SortedTail DEF QueuesSorted
    <3>3. Head(sockRx) \in Stages[8]
      BY <3>2, StageFacts DEF StagesRead
    <3>4. \A l \in 1..10 : l # 7 => Stages'[l] \subseteq Stages[l]
      BY <3>1, <3>2, StageFacts, Places DEF StagesRead, NotArrived
    <3>5. /\ Stages'[7] \subseteq Stages[7] \cup {Head(sockRx)}
          /\ Precede({Head(sockRx)}, Stages'[8])
      BY <3>1, <3>2, StageFacts DEF StagesRead, Precede
    <3>6. InOrder(Stages')
      <4>1. 8 \in 2..10 /\ 7 \in 1..9 /\ 7 = 8 - 1
        OBVIOUS
      <4>2. QED
        BY <1>2, <3>3, <3>4, <3>5, <4>1, MoveKeepsOrder
    <3>7. QED
      BY <1>2, <3>1, <3>2, <3>6 DEF OrderInv, QueuesSorted, Sorted, InOrder, Precede
  <2>3. QED
    BY <2>1, <2>2
<1>4. CASE SendTo
  <2>1. /\ pc = "forward" /\ pc' = "wait" /\ hand \in Datagrams
        /\ toMirror' = Append(toMirror, hand)
        /\ UNCHANGED <<rxMbx, sockVars, toStack, mirror, echo, arrived, echoed>>
    BY <1>1, <1>4 DEF SendTo
  <2>2. hand \in Stages[7]
    BY <2>1, StageFacts DEF StagesRead
  <2>3. Precede(Elements(toMirror), {hand})
    BY <1>2, <2>2, StageFacts DEF StagesRead, InOrder, Precede
  <2>4. Sorted(toMirror') /\ Elements(toMirror') = Elements(toMirror) \cup {hand}
    BY <1>1, <1>2, <2>1, <2>3, SortedAppend, ElementsAppend DEF QueuesSorted
  <2>5. \A l \in 1..10 : l # 6 => Stages'[l] \subseteq Stages[l]
    BY <2>1, StageFacts, Places DEF StagesRead, NotArrived
  <2>6. Stages'[6] \subseteq Stages[6] \cup {hand} /\ Precede({hand}, Stages'[7])
    BY <2>1, <2>4, StageFacts DEF StagesRead, Precede
  <2>7. InOrder(Stages')
    <3>1. 7 \in 2..10 /\ 6 \in 1..9 /\ 6 = 7 - 1
      OBVIOUS
    <3>2. QED
      BY <1>2, <2>2, <2>5, <2>6, <3>1, MoveKeepsOrder
  <2>8. QED
    BY <1>2, <2>1, <2>4, <2>7 DEF OrderInv, QueuesSorted, Sorted, InOrder, Precede
<1>5. CASE SendToFails
  BY <1>5, QueuesKeepOrder DEF SendToFails
<1>6. CASE ReceiveMessage
  <2>1. /\ toStack # <<>> /\ toStack' = Tail(toStack) /\ pc = "wait" /\ pc' = "poll"
        /\ UNCHANGED <<rxMbx, sockRx, toMirror, mirror, echo, arrived, echoed>>
    BY <1>6 DEF ReceiveMessage, MessageFirst
  <2>2. /\ Sorted(toStack') /\ Precede({Head(toStack)}, Elements(toStack'))
        /\ Head(toStack) \in Elements(toStack) /\ Elements(toStack') \subseteq Elements(toStack)
    BY <1>1, <1>2, <2>1, SortedTail DEF QueuesSorted
  <2>3. Head(toStack) \in Stages[4] /\ Head(toStack) \in Datagrams
    BY <1>1, <2>1, <2>2, HeadTailType, StageFacts DEF StagesRead
  <2>4. CASE sockTx' = sockTx
    <3>1. \A l \in 1..10 : Stages'[l] \subseteq Stages[l]
      BY <2>1, <2>2, <2>4, StageFacts, Places DEF StagesRead, NotArrived
    <3>2. InOrder(Stages')
      BY <1>2, <3>1, DropKeepsOrder
    <3>3. QED
      BY <1>2, <2>1, <2>2, <2>4, <3>2 DEF OrderInv, QueuesSorted, Sorted, InOrder, Precede
  <2>5. CASE sockTx' = Append(sockTx, Head(toStack))
    <3>1. Precede(Elements(sockTx), {Head(toStack)})
      BY <1>2, <2>3, StageFacts DEF StagesRead, InOrder, Precede
    <3>2. Sorted(sockTx') /\ Elements(sockTx') = Elements(sockTx) \cup {Head(toStack)}
      <4>1. Sorted(sockTx)
        BY <1>2 DEF QueuesSorted
      <4>2. Sorted(Append(sockTx, Head(toStack)))
        BY <1>1, <2>3, <3>1, <4>1, SortedAppend
      <4>3. Elements(Append(sockTx, Head(toStack))) = Elements(sockTx) \cup {Head(toStack)}
        BY <1>1, <2>3, ElementsAppend
      <4>4. QED
        BY <2>5, <4>2, <4>3 DEF Sorted
    <3>3. \A l \in 1..10 : l # 3 => Stages'[l] \subseteq Stages[l]
      BY <2>1, <2>2, StageFacts, Places DEF StagesRead, NotArrived
    <3>4. /\ Stages'[3] \subseteq Stages[3] \cup {Head(toStack)}
          /\ Precede({Head(toStack)}, Stages'[4])
      BY <2>2, <3>2, StageFacts DEF StagesRead
    <3>5. InOrder(Stages')
      <4>1. 4 \in 2..10 /\ 3 \in 1..9 /\ 3 = 4 - 1
        OBVIOUS
      <4>2. QED
        BY <1>2, <2>3, <3>3, <3>4, <4>1, MoveKeepsOrder
    <3>6. QED
      BY <1>2, <2>1, <2>2, <3>2, <3>5 DEF OrderInv, QueuesSorted, Sorted, InOrder, Precede
  <2>6. QED
    BY <1>6, <2>4, <2>5 DEF ReceiveMessage
<1>7. CASE ReceiveEvent \/ ReceiveFails \/ ReceivePanics
  BY <1>7, QueuesKeepOrder DEF ReceiveEvent, ReceiveFails, ReceivePanics
<1>8. QED
  BY <1>3, <1>4, <1>5, <1>6, <1>7

LEMMA OthersKeepOrder ==
    ASSUME TypeInv, OrderInv, Mirror \/ GiveBack \/ Tick \/ UNCHANGED vars
    PROVE  OrderInv'
<1>. USE DEF sockVars, mirrorVars, histVars, rxVars
<1>1. /\ toMirror \in Seq(Datagrams) /\ toStack \in Seq(Datagrams)
      /\ mirror \in {"echo", "release"} => echo \in Datagrams
  BY QueueTypes
<1>2. QueuesSorted /\ InOrder(Stages)
  BY DEF OrderInv
<1>3. CASE MirrorReceive
  <2>1. /\ toMirror # <<>> /\ toMirror' = Tail(toMirror) /\ echo' = Head(toMirror)
        /\ mirror = "receive" /\ mirror' = "echo"
        /\ UNCHANGED <<pc, hand, rxMbx, sockVars, toStack, arrived, echoed>>
    BY <1>3 DEF MirrorReceive
  <2>2. /\ Sorted(toMirror') /\ Precede({Head(toMirror)}, Elements(toMirror'))
        /\ Head(toMirror) \in Elements(toMirror)
        /\ Elements(toMirror') \subseteq Elements(toMirror)
    BY <1>1, <1>2, <2>1, SortedTail DEF QueuesSorted
  <2>3. Head(toMirror) \in Stages[6]
    BY <2>2, StageFacts DEF StagesRead
  <2>4. \A l \in 1..10 : l # 5 => Stages'[l] \subseteq Stages[l]
    BY <2>1, <2>2, StageFacts, Places DEF StagesRead, NotArrived
  <2>5. /\ Stages'[5] \subseteq Stages[5] \cup {Head(toMirror)}
        /\ Precede({Head(toMirror)}, Stages'[6])
    BY <2>1, <2>2, StageFacts DEF StagesRead
  <2>6. InOrder(Stages')
    <3>1. 6 \in 2..10 /\ 5 \in 1..9 /\ 5 = 6 - 1
      OBVIOUS
    <3>2. QED
      BY <1>2, <2>3, <2>4, <2>5, <3>1, MoveKeepsOrder
  <2>7. QED
    BY <1>2, <2>1, <2>2, <2>6 DEF OrderInv, QueuesSorted, Sorted, InOrder, Precede
<1>4. CASE MirrorSend
  <2>1. /\ mirror = "echo" /\ mirror' = "release" /\ echo \in Datagrams
        /\ toStack' = Append(toStack, echo)
        /\ UNCHANGED <<pc, hand, rxMbx, sockVars, toMirror, arrived, echoed>>
    BY <1>1, <1>4 DEF MirrorSend
  <2>2. echo \in Stages[5]
    BY <2>1, StageFacts DEF StagesRead
  <2>3. Precede(Elements(toStack), {echo})
    BY <1>2, <2>2, StageFacts DEF StagesRead, InOrder, Precede
  <2>4. Sorted(toStack') /\ Elements(toStack') = Elements(toStack) \cup {echo}
    BY <1>1, <1>2, <2>1, <2>3, SortedAppend, ElementsAppend DEF QueuesSorted
  <2>5. \A l \in 1..10 : l # 4 => Stages'[l] \subseteq Stages[l]
    BY <2>1, StageFacts, Places DEF StagesRead, NotArrived
  <2>6. Stages'[4] \subseteq Stages[4] \cup {echo} /\ Precede({echo}, Stages'[5])
    BY <2>1, <2>4, StageFacts DEF StagesRead, Precede
  <2>7. InOrder(Stages')
    <3>1. 5 \in 2..10 /\ 4 \in 1..9 /\ 4 = 5 - 1
      OBVIOUS
    <3>2. QED
      BY <1>2, <2>2, <2>5, <2>6, <3>1, MoveKeepsOrder
  <2>8. QED
    BY <1>2, <2>1, <2>4, <2>7 DEF OrderInv, QueuesSorted, Sorted, InOrder, Precede
<1>5. CASE MirrorRelease \/ MirrorFails
  BY <1>5, QueuesKeepOrder DEF MirrorRelease, MirrorFails
<1>6. CASE GiveBack \/ Tick \/ UNCHANGED vars
  BY <1>6, QueuesKeepOrder DEF GiveBack, Tick, vars
<1>7. QED
  BY <1>3, <1>4, <1>5, <1>6 DEF Mirror

\* No datagram overtakes another on its way through the socket, the two tasks and
\* their mailboxes, and none is sent back twice, whatever is dropped and leaked.
THEOREM NoneOvertakes == Spec => []EchoedInOrder
<1>1. Init => OrderInv
  <2>. SUFFICES ASSUME Init PROVE OrderInv
    OBVIOUS
  <2>1. /\ echoed = <<>> /\ sockTx = <<>> /\ toStack = <<>> /\ toMirror = <<>>
        /\ sockRx = <<>> /\ rxMbx = <<>> /\ pc = "init" /\ mirror = "receive"
    BY DEF Init
  <2>2. Elements(<<>>) = {} /\ Sorted(<<>>)
    BY DEF Elements, Sorted
  <2>3. \A l \in 1..9 : Stages[l] = {}
    BY <2>1, <2>2, StageFacts, Places DEF StagesRead
  <2>4. InOrder(Stages)
    BY <2>3 DEF InOrder, Precede
  <2>5. QED
    BY <2>1, <2>2, <2>4 DEF OrderInv, QueuesSorted
<1>2. TypeInv /\ OrderInv /\ [Next]_vars => OrderInv'
  BY ReceivingKeepsOrder, SendingKeepsOrder, LoopKeepsOrder, OthersKeepOrder DEF Next, Stack
<1>3. TypeInv /\ OrderInv => EchoedInOrder
  <2>. SUFFICES ASSUME TypeInv, OrderInv PROVE EchoedInOrder
    OBVIOUS
  <2>1. Sorted(echoed) /\ echoed \in Seq(Datagrams)
    BY QueueTypes DEF OrderInv, QueuesSorted
  <2>2. DOMAIN echoed = 1..Len(echoed) /\ \A i \in 1..Len(echoed) : echoed[i] \in Datagrams
    BY <2>1
  <2>3. QED
    BY <2>1, <2>2 DEF Sorted, EchoedInOrder
<1>4. QED
  BY <1>1, <1>2, <1>3, TypeCorrectStrong, PTL DEF Spec
=============================================================================
