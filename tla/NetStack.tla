------------------------------- MODULE NetStack -------------------------------
(***************************************************************************)
(* The UDP example (src/examples/example-udp): the network stack task      *)
(* with its device (device.rs, net.rs, udp.rs), the mirror task            *)
(* (udp_mirror.rs), and between them and the wire a driver that behaves as *)
(* FrameService says.  smoltcp and the kernel are modelled from their use. *)
(*                                                                         *)
(* A message is the number of the datagram it carries, Arp (a frame the    *)
(* stack answers itself) or Empty (no frame).  Messages live in pools: one *)
(* of the stack's core for frames to send and for messages to the mirror,  *)
(* one of the mirror's core for the echoes.                                *)
(***************************************************************************)
EXTENDS Integers, Sequences

CONSTANTS
    Buffers,        \* receive buffers (PxDevice::init)
    SocketRoom,     \* datagrams in each queue of the socket
    StackPool,      \* messages the stack's pool has room for
    MirrorPool,     \* messages the mirror's pool has room for
    MaxArrived,     \* bound: frames ever arriving
    MaxFailures     \* bound: kernel calls that fail

ASSUME PoolsAssumption == StackPool \in Nat \ {0} /\ MirrorPool \in Nat \ {0}
ASSUME RoomAssumption == Buffers \in Nat /\ SocketRoom \in Nat
ASSUME BoundsAssumption == MaxArrived \in Nat /\ MaxFailures \in Nat

Datagrams == 1..MaxArrived
Arp == 0
Empty == -1

VARIABLES
    pc,             \* where the stack task is
    back,           \* where it returns to after a transmission
    hand,           \* the datagram or answer it handles
    held,           \* receive buffers in its hands
    rxMbx,          \* kernel: its mailbox, installed as release mailbox
    event,          \* kernel: is EthernetEvent pending?
    sockRx, sockTx, \* the queues of the UDP socket
    toMirror,       \* kernel: the mailbox of the mirror
    toStack,        \* kernel: the mailbox of the UDP server
    mirror, echo,   \* where the mirror is, and the datagram it handles
    accepted, waiting, free,\* the driver, see FrameService
    arrived,        \* frames arrived so far
    failures,       \* kernel calls that have failed
    missed,         \* history: has a receive failed with something to receive?
    leaked,         \* history: messages of the stack's pool never released
    dropped,        \* history: datagrams given up
    echoed          \* history: datagrams sent back to the network

driverVars == <<accepted, waiting, free>>
rxVars == <<held, rxMbx, event>>
mirrorVars == <<toMirror, toStack, mirror, echo>>
sockVars == <<sockRx, sockTx>>
histVars == <<missed, leaked, dropped, echoed>>
vars == <<pc, back, hand, rxVars, sockVars, mirrorVars, driverVars,
          arrived, failures, histVars>>

Driver == INSTANCE FrameService WITH MaxFrames <- MaxArrived

Init ==
    /\ pc = "init" /\ back = "poll" /\ hand = Empty
    /\ held = Buffers /\ rxMbx = <<>> /\ event = FALSE
    /\ sockRx = <<>> /\ sockTx = <<>>
    /\ toMirror = <<>> /\ toStack = <<>> /\ mirror = "receive" /\ echo = Empty
    /\ Driver!Init
    /\ arrived = 0 /\ failures = 0
    /\ missed = FALSE /\ leaked = 0 /\ dropped = {} /\ echoed = <<>>

Fail == failures < MaxFailures /\ failures' = failures + 1

\* Messages of each pool in use; a request waits while its pool is full.
StackUses ==
    Len(toMirror) + leaked + (IF mirror \in {"echo", "release"} THEN 1 ELSE 0)
                           + (IF pc = "await" THEN 1 ELSE 0)
StackHasRoom == StackUses < StackPool
MirrorHasRoom == Len(toStack) < MirrorPool

-----------------------------------------------------------------------------
(***************************************************************************)
(* release_message: a buffer goes to the driver.  If it cannot be sent it  *)
(* is released, that is, comes back to the stack's own mailbox.            *)
(***************************************************************************)
ToOwnMailbox(m) == rxMbx' = Append(rxMbx, m) /\ event' = TRUE

ReleaseBuffer ==
    /\ pc \in {"init", "give"} /\ held > 0
    /\ Driver!Lend
    /\ held' = held - 1
    /\ pc' = IF pc = "give" THEN "poll" ELSE "init"
    /\ UNCHANGED <<back, hand, rxMbx, event, sockVars, mirrorVars, arrived,
                   failures, histVars>>

\* Mutant: the buffer is forgotten.
ForgetBuffer == UNCHANGED <<rxMbx, event>>

BufferComesBack == ToOwnMailbox(Empty)

ReleaseBufferFails ==
    /\ pc \in {"init", "give"} /\ held > 0
    /\ Fail
    /\ held' = held - 1
    /\ BufferComesBack
    /\ pc' = IF pc = "give" THEN "poll" ELSE "panic"
    /\ UNCHANGED <<back, hand, sockVars, mirrorVars, driverVars, arrived, histVars>>

DeviceReady ==
    /\ pc = "init" /\ held = 0
    /\ pc' = "poll"
    /\ UNCHANGED <<back, hand, rxVars, sockVars, mirrorVars, driverVars, arrived,
                   failures, histVars>>

-----------------------------------------------------------------------------
\* Mutant: a buffer that came back is taken for a datagram.
NotArp(m) == m # Arp

IsDatagram(m) == m \in Datagrams

(***************************************************************************)
(* iface.poll: consumes the received frames (RxToken), answers some within *)
(* the callback, then sends what is queued in the socket.                  *)
(***************************************************************************)
Consume ==
    /\ pc = "poll" /\ rxMbx # <<>>
    /\ held' = held + 1
    /\ rxMbx' = Tail(rxMbx)
    /\ \/ /\ Head(rxMbx) = Arp
          /\ pc' = "transmit" /\ back' = "give" /\ hand' = Arp
          /\ UNCHANGED <<sockRx, dropped>>
       \/ /\ Head(rxMbx) = Empty
          /\ pc' = "give"
          /\ UNCHANGED <<back, hand, sockRx, dropped>>
       \/ /\ IsDatagram(Head(rxMbx))
          /\ pc' = "give"
          /\ IF Len(sockRx) < SocketRoom
             THEN sockRx' = Append(sockRx, Head(rxMbx)) /\ UNCHANGED dropped
             ELSE dropped' = dropped \cup {Head(rxMbx)} /\ UNCHANGED sockRx
          /\ UNCHANGED <<back, hand>>
    /\ UNCHANGED <<event, sockTx, mirrorVars, driverVars, arrived, failures,
                   missed, leaked, echoed>>

\* try_receive finds no message, or fails: to smoltcp it is the same.
NothingReceived ==
    \/ rxMbx = <<>> /\ UNCHANGED <<failures, missed>>
    \/ rxMbx # <<>> /\ Fail /\ missed' = TRUE

\* Mutant: what is sent stays queued.
StaysQueued == UNCHANGED sockTx

Dequeued == sockTx' = Tail(sockTx)

Egress ==
    /\ pc = "poll" /\ sockTx # <<>>
    /\ NothingReceived
    /\ hand' = Head(sockTx) /\ Dequeued
    /\ pc' = "transmit" /\ back' = "poll"
    /\ UNCHANGED <<rxVars, sockRx, mirrorVars, driverVars, arrived,
                   leaked, dropped, echoed>>

PollDone ==
    /\ pc = "poll" /\ sockTx = <<>>
    /\ NothingReceived
    /\ pc' = "socket"
    /\ UNCHANGED <<back, hand, rxVars, sockVars, mirrorVars, driverVars, arrived,
                   leaked, dropped, echoed>>

(***************************************************************************)
(* TxToken: request_tx, send, await_release.  Any error ends in expect.    *)
(***************************************************************************)
Transmit ==
    /\ pc = "transmit" /\ StackHasRoom
    /\ Driver!Accept
    /\ pc' = "await"
    /\ UNCHANGED <<back, hand, rxVars, sockVars, mirrorVars, arrived, failures, histVars>>

AwaitRelease ==
    /\ pc = "await" /\ waiting = {}
    /\ pc' = back
    /\ hand' = Empty
    /\ echoed' = IF hand = Arp THEN echoed ELSE Append(echoed, hand)
    /\ UNCHANGED <<back, rxVars, sockVars, mirrorVars, driverVars, arrived,
                   failures, missed, leaked, dropped>>

\* A kernel call fails in init or in a token.
DevicePanics ==
    /\ pc \in {"init", "transmit", "await"} \/ (pc = "poll" /\ rxMbx # <<>>)
    /\ Fail
    /\ pc' = "panic"
    /\ UNCHANGED <<back, hand, rxVars, sockVars, mirrorVars, driverVars, arrived, histVars>>

-----------------------------------------------------------------------------
(***************************************************************************)
(* The rest of the loop: at most one datagram goes to the mirror, then the *)
(* task waits for a message to send or an Ethernet event.                  *)
(***************************************************************************)
Recv ==
    /\ pc = "socket"
    /\ IF sockRx = <<>>
       THEN pc' = "wait" /\ UNCHANGED <<hand, sockRx>>
       ELSE pc' = "forward" /\ hand' = Head(sockRx) /\ sockRx' = Tail(sockRx)
    /\ UNCHANGED <<back, rxVars, sockTx, mirrorVars, driverVars, arrived, failures, histVars>>

SendTo ==
    /\ pc = "forward" /\ mirror # "ended"
    /\ StackHasRoom
    /\ toMirror' = Append(toMirror, hand)
    /\ pc' = "wait" /\ hand' = Empty
    /\ UNCHANGED <<back, rxVars, sockVars, toStack, mirror, echo, driverVars,
                   arrived, failures, histVars>>

\* The mirror is gone or its mailbox not found, the message cannot be sent, or
\* its data not accessed, in which case it is not released.
SendToFails ==
    /\ pc = "forward"
    /\ \/ mirror = "ended" /\ UNCHANGED <<failures, leaked>>
       \/ Fail /\ UNCHANGED leaked
       \/ Fail /\ StackHasRoom /\ leaked' = leaked + 1
    /\ dropped' = dropped \cup {hand}
    /\ pc' = "wait" /\ hand' = Empty
    /\ UNCHANGED <<back, rxVars, sockVars, mirrorVars, driverVars, arrived,
                   missed, echoed>>

\* Mutant: an Ethernet event that comes with a message is served first.
EventFirst == toStack # <<>> /\ ~event

MessageFirst == toStack # <<>>

ReceiveMessage ==
    /\ pc = "wait" /\ MessageFirst
    /\ toStack' = Tail(toStack)
    /\ IF Len(sockTx) < SocketRoom
       THEN sockTx' = Append(sockTx, Head(toStack)) /\ UNCHANGED dropped
       ELSE dropped' = dropped \cup {Head(toStack)} /\ UNCHANGED sockTx
    /\ event' = FALSE
    /\ pc' = "poll"
    /\ UNCHANGED <<back, hand, held, rxMbx, sockRx, toMirror, mirror, echo,
                   driverVars, arrived, failures, missed, leaked, echoed>>

ReceiveEvent ==
    /\ pc = "wait" /\ ~MessageFirst /\ event
    /\ event' = FALSE
    /\ pc' = "poll"
    /\ UNCHANGED <<back, hand, held, rxMbx, sockVars, mirrorVars, driverVars,
                   arrived, failures, histVars>>

\* The error of a receive is logged.
ReceiveFails ==
    /\ pc = "wait"
    /\ Fail
    /\ event' \in {event, FALSE}
    /\ missed' = TRUE
    /\ pc' = "poll"
    /\ UNCHANGED <<back, hand, held, rxMbx, sockVars, mirrorVars, driverVars,
                   arrived, leaked, dropped, echoed>>

ReceivePanics ==
    /\ pc = "wait" /\ MessageFirst
    /\ Fail
    /\ pc' = "panic"
    /\ UNCHANGED <<back, hand, rxVars, sockVars, mirrorVars, driverVars, arrived, histVars>>

-----------------------------------------------------------------------------
(***************************************************************************)
(* The mirror: receive, send the echo, release; any error ends it.         *)
(***************************************************************************)
MirrorReceive ==
    /\ mirror = "receive" /\ toMirror # <<>>
    /\ echo' = Head(toMirror) /\ toMirror' = Tail(toMirror)
    /\ mirror' = "echo"
    /\ UNCHANGED <<pc, back, hand, rxVars, sockVars, toStack, driverVars, arrived,
                   failures, histVars>>

MirrorSend ==
    /\ mirror = "echo" /\ MirrorHasRoom
    /\ toStack' = Append(toStack, echo)
    /\ mirror' = "release"
    /\ UNCHANGED <<pc, back, hand, rxVars, sockVars, toMirror, echo, driverVars,
                   arrived, failures, histVars>>

MirrorRelease ==
    /\ mirror = "release"
    /\ mirror' = "receive"
    /\ echo' = Empty
    /\ UNCHANGED <<pc, back, hand, rxVars, sockVars, toMirror, toStack, driverVars,
                   arrived, failures, histVars>>

\* The message in its hands, if any, is never released.
MirrorFails ==
    /\ mirror # "ended"
    /\ Fail
    /\ mirror' = "ended"
    /\ leaked' = IF mirror = "receive" THEN leaked ELSE leaked + 1
    /\ UNCHANGED <<pc, back, hand, rxVars, sockVars, toMirror, toStack, echo,
                   driverVars, arrived, missed, dropped, echoed>>

-----------------------------------------------------------------------------
\* Mutant: the handler leaves it to the ticker to wake the task.
NoSignal(m) == rxMbx' = Append(rxMbx, m) /\ UNCHANGED event

Signalled(m) == ToOwnMailbox(m)

\* The driver fills a buffer; mbx_handler signals the event.
Deliver ==
    /\ arrived < MaxArrived
    /\ arrived' = arrived + 1
    /\ Driver!Deliver
    /\ \E m \in {Arp, arrived + 1} : Signalled(m)
    /\ UNCHANGED <<pc, back, hand, held, sockVars, mirrorVars, failures, histVars>>

GiveBack ==
    /\ Driver!GiveBack
    /\ UNCHANGED <<pc, back, hand, rxVars, sockVars, mirrorVars, arrived, failures, histVars>>

\* Mutant: no ticker.
NoTicker == FALSE

TickerRuns == pc \notin {"init", "panic"}

Tick ==
    /\ TickerRuns
    /\ event' = TRUE
    /\ UNCHANGED <<pc, back, hand, held, rxMbx, sockVars, mirrorVars, driverVars,
                   arrived, failures, histVars>>

Stack ==
    \/ ReleaseBuffer \/ ReleaseBufferFails \/ DeviceReady
    \/ Consume \/ Egress \/ PollDone \/ Transmit \/ AwaitRelease \/ DevicePanics
    \/ Recv \/ SendTo \/ SendToFails \/ ReceiveMessage \/ ReceiveEvent
    \/ ReceiveFails \/ ReceivePanics

Mirror == MirrorReceive \/ MirrorSend \/ MirrorRelease \/ MirrorFails

Next == Stack \/ Mirror \/ Deliver \/ GiveBack \/ Tick

Spec == Init /\ [][Next]_vars

\* Both tasks are scheduled, the ticker ticks, and the driver gives every frame
\* back, as FrameService promises; no frame need arrive.
Fairness == WF_vars(Stack) /\ WF_vars(Mirror) /\ WF_vars(Tick) /\ WF_vars(GiveBack)

FairSpec == Spec /\ Fairness
=============================================================================
