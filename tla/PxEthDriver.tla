----------------------------- MODULE PxEthDriver -----------------------------
(***************************************************************************)
(* The Ethernet driver task (PxEthDriver.c) and its hardware layer         *)
(* (GETHAurix.c), both under                                               *)
(* src/app-tc37x/pxros/tasks/GETHDriver: the main loop, the interrupt      *)
(* handler, the transmit timeout with its retries and the pool of receive  *)
(* buffers; and, outside src/, the DMA rings and status register of the    *)
(* MAC, the kernel's mailboxes, and the tasks that send frames and return  *)
(* receive buffers.                                                        *)
(*                                                                         *)
(* A failed assert stops the driver.  PXETH_TX_STOPPING is tested by the   *)
(* code but assigned nowhere, so its branches have no action.              *)
(***************************************************************************)
EXTENDS Integers, Sequences

CONSTANTS
    MaxSent,        \* bound: frames ever sent through the driver
    MaxArrived,     \* bound: frames ever arriving from the network
    RxBuffers,      \* receive buffers of the network stack (PxDevice::init)
    TxRing, RxRing, \* descriptors of the two DMA rings (ETH_MAX_BUFFER)
    MaxRetries,     \* MAXRETRIES
    Faults          \* what may go wrong, see FaultKinds

(***************************************************************************)
(* "slow": a frame may take longer on the wire than the write timeout.     *)
(* "race": a transmission may complete before EthWrite clears the flag.    *)
(* "link": the link may be down.  "data": PxMsgGetData may fail.           *)
(* "init": a kernel object or the hardware may be missing at start-up.     *)
(***************************************************************************)
FaultKinds == {"slow", "race", "link", "data", "init"}

ASSUME BoundsAssumption == MaxSent \in Nat /\ MaxArrived \in Nat /\ RxBuffers \in Nat
ASSUME RingsAssumption == TxRing \in Nat \ {0} /\ RxRing \in Nat \ {0}
ASSUME RetriesAssumption == MaxRetries \in Nat \ {0}
ASSUME FaultsAssumption == Faults \subseteq FaultKinds

\* Those after which the driver promises a frame less.
Mishaps == {"slow", "link", "data"}

May(fault) == IF fault \in Faults THEN BOOLEAN ELSE {FALSE}

\* Messages: an outgoing packet is the number of its frame; all receive
\* buffers look alike.
Frames == 1..MaxSent
RxBuf == 0
NoMsg == -1

\* The status flags of the DMA channel, as the events EthPoll makes of them:
\* RI, TI, and RBU or TBU, which raise no interrupt.
Flags == {"RECEIVE", "TRANSMIT", "UNAVAILABLE"}
Events == Flags \cup {"WRITE_TMO"}

VARIABLES
    pc,         \* where the driver task is
    retTo,     \* where PxEthWrite returns to
    ev,         \* the driver's local: events being handled
    ioMsg,      \* the driver's local: message being handled
    status,     \* EthPoll's local: the flags it has read
    txStatus, txMsg, txMbx, txRetries,      \* PxEthData
    rxBufMbx,   \* PxEthData: number of free receive buffers
    timer,      \* PxEthData: is writeTimeout running?
    taskMbx,    \* kernel: the mailbox of the driver task
    pending,    \* kernel: the events of the driver task
    flags,      \* hardware: the status register
    txRing,     \* hardware: frames handed to the DMA
    rxRing,     \* hardware: frames received and not yet read
    sent,       \* frames sent to the driver so far
    arrived,    \* frames arrived from the network so far
    atStack,    \* receive buffers at the network stack
    answered,   \* history: frames released to their senders
    delivered,  \* history: arrived frames handed to the stack
    wired,      \* history: frames the DMA has transmitted
    mishaps     \* history: which of Mishaps a frame sent has met

taskVars == <<pc, retTo, ev, ioMsg, status>>
txVars   == <<txStatus, txMsg, txMbx, txRetries, timer, answered>>
rxVars   == <<rxBufMbx, rxRing, atStack, delivered>>
envVars  == <<sent, arrived, wired, mishaps>>
vars == <<taskVars, txVars, rxVars, envVars, taskMbx, pending, flags, txRing>>

Init ==
    /\ pc = "setup" /\ retTo = "receive"
    /\ ev = {} /\ ioMsg = NoMsg /\ status = {}
    /\ txStatus = "STOPPED" /\ txMsg = NoMsg /\ txMbx = <<>> /\ txRetries = 0
    /\ rxBufMbx = 0
    /\ timer = FALSE
    /\ taskMbx = <<>> /\ pending = {}
    /\ flags = {} /\ txRing = <<>> /\ rxRing = <<>>
    /\ sent = 0 /\ arrived = 0 /\ atStack = RxBuffers
    /\ answered = {} /\ delivered = {} /\ wired = {}
    /\ mishaps = {}

-----------------------------------------------------------------------------
(***************************************************************************)
(* Start-up: the mailbox is registered first; then a missing object makes  *)
(* the task wait for ever, and the main loop starts once the link is up.   *)
(***************************************************************************)
Setup ==
    /\ pc = "setup"
    /\ \E fails \in May("init") : pc' = IF fails THEN "halt" ELSE "link"
    /\ UNCHANGED <<retTo, ev, ioMsg, status, txVars, rxVars, envVars,
                   taskMbx, pending, flags, txRing>>

LinkUp ==
    /\ pc = "link"
    /\ pc' = "receive"
    /\ txStatus' = "IDLE"
    /\ UNCHANGED <<retTo, ev, ioMsg, status, txMsg, txMbx, txRetries, timer,
                   answered, rxVars, envVars, taskMbx, pending, flags, txRing>>

\* PxMsgReceive_EvWait
Receive ==
    /\ pc = "receive"
    /\ pending # {} \/ taskMbx # <<>>
    /\ ev' = pending /\ pending' = {}
    /\ IF taskMbx = <<>>
       THEN ioMsg' = NoMsg /\ UNCHANGED taskMbx
       ELSE ioMsg' = Head(taskMbx) /\ taskMbx' = Tail(taskMbx)
    /\ pc' = "read"
    /\ UNCHANGED <<retTo, status, txVars, rxVars, envVars, flags, txRing>>

(***************************************************************************)
(* The loop over PxEthRead: it ends when no frame is left, but also when a *)
(* frame had to be dropped because it found no buffer.                     *)
(***************************************************************************)
NothingToRead ==
    /\ pc = "read"
    /\ "RECEIVE" \notin ev \/ rxRing = <<>>
    /\ pc' = "transmit"
    /\ UNCHANGED <<retTo, ev, ioMsg, status, txVars, rxVars, envVars,
                   taskMbx, pending, flags, txRing>>

\* Mutant: the buffer is taken from the pool even when the frame is dropped.
DropLosesBuffer ==
    /\ rxBufMbx' = IF rxBufMbx > 0 THEN rxBufMbx - 1 ELSE 0
    /\ pc' = "transmit"
    /\ UNCHANGED <<atStack, delivered>>

\* The buffer, if there was one, goes back to its pool; that it might not (the result
\* of that PxMsgSend is not read) is left out.
DropFrame ==
    /\ pc' = "transmit"
    /\ UNCHANGED <<rxBufMbx, atStack, delivered>>

DeliverFrame ==
    /\ rxBufMbx' = rxBufMbx - 1
    /\ atStack' = atStack + 1
    /\ delivered' = delivered \cup {Head(rxRing)}
    /\ UNCHANGED pc

ReadFrame ==
    /\ pc = "read"
    /\ "RECEIVE" \in ev /\ rxRing # <<>>
    /\ rxRing' = Tail(rxRing)
    /\ \E noData \in May("data") :
          IF rxBufMbx = 0 \/ noData THEN DropFrame ELSE DeliverFrame
    /\ UNCHANGED <<retTo, ev, ioMsg, status, txVars, envVars,
                   taskMbx, pending, flags, txRing>>

-----------------------------------------------------------------------------
(***************************************************************************)
(* PxEthTxFinish: stops the timeout and takes back its event, releases the *)
(* message to its sender.                                                  *)
(***************************************************************************)
Abort == pc' = "abort"

FinishAsserted == txStatus \in {"SENDING", "STOPPED"}

ResetTimeoutEvent == pending \ {"WRITE_TMO"}

StatusAfterFinish == IF txStatus = "SENDING" THEN "IDLE" ELSE txStatus

TxFinish ==
    /\ timer' = FALSE
    /\ pending' = ResetTimeoutEvent
    /\ answered' = answered \cup {txMsg}
    /\ txStatus' = StatusAfterFinish
    /\ txRetries' = 0

(***************************************************************************)
(* ETH_EV_TRANSMIT: the frame is finished and the next one is taken from   *)
(* the queue; a timeout that expired as well is ignored.                   *)
(***************************************************************************)
NoTransmitEvent ==
    /\ pc = "transmit" /\ "TRANSMIT" \notin ev
    /\ pc' = "timeout"
    /\ UNCHANGED <<retTo, ev, ioMsg, status, txVars, rxVars, envVars,
                   taskMbx, pending, flags, txRing>>

\* Mutant: a timeout received together with the interrupt is handled as well.
KeepTimeout == ev

UnsetTimeout == ev \ {"WRITE_TMO"}

\* Mutant: the queue is looked at only by the next transmission.
LeaveQueued == txMsg' = NoMsg /\ pc' = "timeout" /\ UNCHANGED txMbx

TakeNext ==
    IF txMbx = <<>>
    THEN txMsg' = NoMsg /\ pc' = "timeout" /\ UNCHANGED txMbx
    ELSE txMsg' = Head(txMbx) /\ pc' = "write" /\ txMbx' = Tail(txMbx)

TransmitEvent ==
    /\ pc = "transmit" /\ "TRANSMIT" \in ev
    /\ txStatus = "SENDING"
    /\ ev' = UnsetTimeout
    /\ TxFinish
    /\ TakeNext
    /\ retTo' = "timeout"
    /\ UNCHANGED <<ioMsg, status, rxVars, envVars, taskMbx, flags, txRing>>

\* The assert of line 387.
TransmitAssertFails ==
    /\ pc = "transmit" /\ "TRANSMIT" \in ev
    /\ txStatus # "SENDING"
    /\ Abort
    /\ UNCHANGED <<retTo, ev, ioMsg, status, txVars, rxVars, envVars,
                   taskMbx, pending, flags, txRing>>

Timeout ==
    /\ pc = "timeout"
    /\ IF "WRITE_TMO" \in ev
       THEN pc' = "write" /\ retTo' = "poll"
       ELSE pc' = "poll" /\ UNCHANGED retTo
    /\ UNCHANGED <<ev, ioMsg, status, txVars, rxVars, envVars,
                   taskMbx, pending, flags, txRing>>

-----------------------------------------------------------------------------
(***************************************************************************)
(* PxEthWrite: gives the frame up after too many tries or without a link,  *)
(* else hands it to the DMA.  It asserts that a message is pending and,    *)
(* in PxEthTxFinish, that the driver was sending.                          *)
(***************************************************************************)
\* Mutant: one try more than MAXRETRIES.
OneRetryMore == txRetries > MaxRetries

RetriesExceeded == txRetries >= MaxRetries

LinkDown == ~RetriesExceeded /\ "link" \in Faults

WhyGivenUp == IF RetriesExceeded THEN {} ELSE {"link"}

GiveUp ==
    /\ pc = "write" /\ txMsg # NoMsg
    /\ RetriesExceeded \/ LinkDown
    /\ FinishAsserted
    /\ TxFinish
    /\ txMsg' = NoMsg
    /\ mishaps' = mishaps \cup WhyGivenUp
    /\ pc' = retTo
    /\ UNCHANGED <<retTo, ev, ioMsg, status, txMbx, rxVars, sent, arrived, wired,
                   taskMbx, flags, txRing>>

WriteAssertFails ==
    /\ pc = "write"
    /\ \/ txMsg = NoMsg /\ UNCHANGED mishaps
       \/ /\ ~FinishAsserted /\ (RetriesExceeded \/ LinkDown)
          /\ mishaps' = mishaps \cup WhyGivenUp
    /\ Abort
    /\ UNCHANGED <<retTo, ev, ioMsg, status, txVars, rxVars, sent, arrived, wired,
                   taskMbx, pending, flags, txRing>>

\* Without access to the data nothing is done, not even a timeout started.
WriteWithoutData ==
    /\ pc = "write" /\ txMsg # NoMsg /\ ~RetriesExceeded
    /\ "data" \in Faults
    /\ mishaps' = mishaps \cup {"data"}
    /\ pc' = retTo
    /\ UNCHANGED <<retTo, ev, ioMsg, status, txVars, rxVars, sent, arrived, wired,
                   taskMbx, pending, flags, txRing>>

\* EthWrite up to the tail pointer; ERR_INPROGRESS if the ring is full.
HandToDma ==
    /\ pc = "write" /\ txMsg # NoMsg /\ ~RetriesExceeded
    /\ txStatus' = "SENDING"
    /\ IF Len(txRing) < TxRing
       THEN txRing' = Append(txRing, txMsg) /\ pc' = "clear"
       ELSE pc' = "start" /\ UNCHANGED txRing
    /\ UNCHANGED <<retTo, ev, ioMsg, status, txMsg, txMbx, txRetries, timer,
                   answered, rxVars, envVars, taskMbx, pending, flags>>

ClearTransmitFlag ==
    /\ pc = "clear"
    /\ flags' = flags \ {"TRANSMIT"}
    /\ pc' = "start"
    /\ UNCHANGED <<retTo, ev, ioMsg, status, txVars, rxVars, envVars,
                   taskMbx, pending, txRing>>

\* Mutant: a frame is sent without a timeout.
NoTimeout == UNCHANGED timer

StartTimeout == timer' = TRUE

CountTry ==
    /\ pc = "start"
    /\ StartTimeout
    /\ txRetries' = txRetries + 1
    /\ pc' = retTo
    /\ UNCHANGED <<retTo, ev, ioMsg, status, txStatus, txMsg, txMbx, answered,
                   rxVars, envVars, taskMbx, pending, flags, txRing>>

-----------------------------------------------------------------------------
(***************************************************************************)
(* PxEthPoll on the task's side: the flags are read, then cleared; the     *)
(* interrupt handler may come in between.                                  *)
(***************************************************************************)
PollRead ==
    /\ pc = "poll"
    /\ IF ev = {}
       THEN pc' = "message" /\ UNCHANGED status
       ELSE pc' = "polled" /\ status' = flags
    /\ UNCHANGED <<retTo, ev, ioMsg, txVars, rxVars, envVars,
                   taskMbx, pending, flags, txRing>>

\* Mutant: all flags are cleared, those set since they were read included.
ClearAll == {}

\* Mutant: the flags are read but not cleared.
ClearNothing == flags

ClearRead == flags \ status

PollSignal ==
    /\ pc = "polled"
    /\ flags' = ClearRead
    /\ pending' = pending \cup status
    /\ status' = {}
    /\ pc' = "message"
    /\ UNCHANGED <<retTo, ev, ioMsg, txVars, rxVars, envVars, taskMbx, txRing>>

(***************************************************************************)
(* The command message: a frame to send or a receive buffer.               *)
(***************************************************************************)
Continue == pc' = "receive" /\ ioMsg' = NoMsg

NoMessage ==
    /\ pc = "message" /\ ioMsg = NoMsg
    /\ Continue
    /\ UNCHANGED <<retTo, ev, status, txVars, rxVars, envVars,
                   taskMbx, pending, flags, txRing>>

ReturnBuffer ==
    /\ pc = "message" /\ ioMsg = RxBuf
    /\ rxBufMbx' = rxBufMbx + 1
    /\ Continue
    /\ UNCHANGED <<retTo, ev, status, txVars, rxRing, atStack, delivered, envVars,
                   taskMbx, pending, flags, txRing>>

SendNow ==
    /\ pc = "message" /\ ioMsg \in Frames
    /\ txStatus = "IDLE" /\ txMsg = NoMsg
    /\ txMsg' = ioMsg /\ ioMsg' = NoMsg
    /\ pc' = "write" /\ retTo' = "receive"
    /\ UNCHANGED <<ev, status, txStatus, txMbx, txRetries, timer, answered, rxVars,
                   envVars, taskMbx, pending, flags, txRing>>

SendAssertFails ==
    /\ pc = "message" /\ ioMsg \in Frames
    /\ txStatus = "IDLE" /\ txMsg # NoMsg
    /\ Abort
    /\ UNCHANGED <<retTo, ev, ioMsg, status, txVars, rxVars, envVars,
                   taskMbx, pending, flags, txRing>>

\* Mutant: a frame that comes while another is being sent is forgotten.
ForgetFrame == txMbx

QueueFrame == Append(txMbx, ioMsg)

SendLater ==
    /\ pc = "message" /\ ioMsg \in Frames
    /\ txStatus = "SENDING"
    /\ txMbx' = QueueFrame
    /\ Continue
    /\ UNCHANGED <<retTo, ev, status, txStatus, txMsg, txRetries, timer, answered,
                   rxVars, envVars, taskMbx, pending, flags, txRing>>

-----------------------------------------------------------------------------
(***************************************************************************)
(* The hardware.  The interrupt handler runs PxEthPoll to its end; only RI *)
(* and TI raise it.  TBU is set with the last frame of the ring, RBU when  *)
(* a frame finds no descriptor and is lost.                                *)
(***************************************************************************)
Running == pc \notin {"setup", "halt", "abort"}

Interrupt ==
    /\ Running
    /\ flags \cap {"RECEIVE", "TRANSMIT"} # {}
    /\ pending' = pending \cup flags
    /\ flags' = {}
    /\ UNCHANGED <<taskVars, txVars, rxVars, envVars, taskMbx, txRing>>

DmaTransmit ==
    /\ Running
    /\ txRing # <<>>
    /\ pc = "clear" => "race" \in Faults
    /\ wired' = wired \cup {Head(txRing)}
    /\ txRing' = Tail(txRing)
    /\ flags' = flags \cup {"TRANSMIT"} \cup
                (IF Len(txRing) = 1 THEN {"UNAVAILABLE"} ELSE {})
    /\ UNCHANGED <<taskVars, txVars, rxVars, sent, arrived, mishaps, taskMbx, pending>>

DmaReceive ==
    /\ Running
    /\ arrived < MaxArrived
    /\ arrived' = arrived + 1
    /\ IF Len(rxRing) < RxRing
       THEN /\ rxRing' = Append(rxRing, arrived + 1)
            /\ flags' = flags \cup {"RECEIVE"}
       ELSE /\ flags' = flags \cup {"UNAVAILABLE"}
            /\ UNCHANGED rxRing
    /\ UNCHANGED <<taskVars, txVars, rxBufMbx, atStack, delivered, sent, wired,
                   mishaps, taskMbx, pending, txRing>>

\* A prompt DMA is done with all frames, interrupt included, within the timeout.
Prompt == txRing = <<>> /\ "TRANSMIT" \notin flags

Expire ==
    /\ Running
    /\ timer
    /\ "slow" \in Faults \/ Prompt
    /\ mishaps' = IF Prompt THEN mishaps ELSE mishaps \cup {"slow"}
    /\ timer' = FALSE
    /\ pending' = pending \cup {"WRITE_TMO"}
    /\ UNCHANGED <<taskVars, txStatus, txMsg, txMbx, txRetries, answered, rxVars,
                   sent, arrived, wired, taskMbx, flags, txRing>>

(***************************************************************************)
(* The tasks around the driver: frames to send, and receive buffers, at    *)
(* first from PxDevice::init and later with a frame consumed.              *)
(***************************************************************************)
SubmitFrame ==
    /\ pc # "setup" /\ sent < MaxSent
    /\ sent' = sent + 1
    /\ taskMbx' = Append(taskMbx, sent + 1)
    /\ UNCHANGED <<taskVars, txVars, rxVars, arrived, wired, mishaps, pending, flags, txRing>>

SubmitBuffer ==
    /\ pc # "setup" /\ atStack > 0
    /\ atStack' = atStack - 1
    /\ taskMbx' = Append(taskMbx, RxBuf)
    /\ UNCHANGED <<taskVars, txVars, rxBufMbx, rxRing, delivered, envVars,
                   pending, flags, txRing>>

WriteFrame ==
    GiveUp \/ WriteAssertFails \/ WriteWithoutData \/ HandToDma
    \/ ClearTransmitFlag \/ CountTry

HandleMessage ==
    NoMessage \/ ReturnBuffer \/ SendNow \/ SendAssertFails \/ SendLater

Driver ==
    \/ Setup \/ LinkUp \/ Receive
    \/ NothingToRead \/ ReadFrame
    \/ NoTransmitEvent \/ TransmitEvent \/ TransmitAssertFails \/ Timeout
    \/ WriteFrame
    \/ PollRead \/ PollSignal
    \/ HandleMessage

Hardware == Interrupt \/ DmaTransmit \/ DmaReceive \/ Expire

Stack == SubmitFrame \/ SubmitBuffer

Next == Driver \/ Hardware \/ Stack

Spec == Init /\ [][Next]_vars

\* The driver task is scheduled and its link comes up, the interrupt is taken,
\* the DMA transmits and the timer expires.  Nobody need send or consume.
Fairness ==
    /\ WF_vars(Driver) /\ WF_vars(Interrupt)
    /\ WF_vars(DmaTransmit) /\ WF_vars(Expire)

FairSpec == Spec /\ Fairness

=============================================================================
