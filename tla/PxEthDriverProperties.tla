------------------------ MODULE PxEthDriverProperties ------------------------
(***************************************************************************)
(* What the Ethernet driver of PxEthDriver.tla must and must not do.       *)
(***************************************************************************)
EXTENDS PxEthDriver, FiniteSets

\* The members of a sequence, how often a message is in a mailbox, and whether
\* it is in a place for one.
Elements(s) == {s[i] : i \in DOMAIN s}
Count(mbx, msg) == Cardinality({i \in DOMAIN mbx : mbx[i] = msg})
One(there) == IF there THEN 1 ELSE 0

TypeOK ==
    /\ pc \in {"setup", "halt", "link", "receive", "read", "transmit", "timeout",
               "write", "clear", "start", "poll", "polled", "message", "abort"}
    /\ retTo \in {"receive", "timeout", "poll"}
    /\ ev \subseteq Events /\ pending \subseteq Events
    /\ status \subseteq Flags /\ flags \subseteq Flags
    /\ ioMsg \in Frames \cup {RxBuf, NoMsg}
    /\ txStatus \in {"STOPPED", "IDLE", "SENDING"}
    /\ txMsg \in Frames \cup {NoMsg}
    /\ txMbx \in Seq(Frames)
    /\ txRetries \in 0..MaxRetries
    /\ rxBufMbx \in Nat /\ atStack \in Nat
    /\ timer \in BOOLEAN
    /\ taskMbx \in Seq(Frames \cup {RxBuf})
    /\ txRing \in Seq(Frames) /\ Len(txRing) <= TxRing
    /\ rxRing \in Seq(1..MaxArrived) /\ Len(rxRing) <= RxRing
    /\ sent \in 0..MaxSent /\ arrived \in 0..MaxArrived
    /\ answered \subseteq Frames /\ wired \subseteq Frames
    /\ delivered \subseteq 1..MaxArrived /\ mishaps \subseteq Mishaps

(***************************************************************************)
(* A receive buffer is in one place: the pool, the stack, the mailbox or   *)
(* the hands of the driver.  None is lost when there is nothing to read, no*)
(* buffer for a frame, or no access to its data.                           *)
(***************************************************************************)
Lent == rxBufMbx + Count(taskMbx, RxBuf) + One(ioMsg = RxBuf)

BuffersConserved ==
    Lent + atStack = RxBuffers

(***************************************************************************)
(* A frame sent is in one place until it is answered, and is answered once *)
(* (PxEthReleaseTxMsg asserts a valid handle): it was not released while   *)
(* still queued, and not queued twice, whatever is retried or given up.    *)
(***************************************************************************)
Places(f) ==
    One(f \in answered) + One(txMsg = f) + Count(txMbx, f) + One(ioMsg = f) + Count(taskMbx, f)

FramesConserved ==
    \A f \in Frames : Places(f) = One(f <= sent)

(***************************************************************************)
(* A transmission always has something that repeats it: while the driver   *)
(* waits and is sending, the timeout runs or its event is pending, so the  *)
(* loss of the interrupt (EthWrite clears its flag) is made good.          *)
(* PxEthTxFinish stops the timeout and takes back its event, and the event *)
(* is ignored if it comes with the interrupt.  Only a frame whose data     *)
(* could not be accessed is waited for in vain.                            *)
(***************************************************************************)
SendingIsTimed ==
    ("data" \notin mishaps /\ pc = "receive" /\ txStatus = "SENDING") =>
        timer \/ "WRITE_TMO" \in pending

(***************************************************************************)
(* No assert of the driver fails before a frame has met a mishap: a DMA    *)
(* slower than the timeout, a link that is down, or inaccessible data.     *)
(* A flag cleared by EthWrite is none: the frame is repeated, or given up  *)
(* in the state PxEthTxFinish asserts.                                     *)
(***************************************************************************)
NoAssertFails == mishaps = {} => pc # "abort"

\* The assert of line 387: a transmit interrupt arrives only while sending.
TransmitAssertHolds ==
    (pc = "transmit" /\ "TRANSMIT" \in ev) => txStatus = "SENDING"

\* The assert of line 159: a frame is finished only when it was being sent.
FinishAssertHolds ==
    (pc = "write" /\ txMsg # NoMsg /\ (RetriesExceeded \/ LinkDown)) => FinishAsserted

(***************************************************************************)
(* Before a mishap a sender gets its message back only after the frame was *)
(* transmitted, though flags are cleared in three places.                  *)
(***************************************************************************)
AnsweredAfterTransmitted == mishaps = {} => answered \subseteq wired

(***************************************************************************)
(* A received frame is read from the ring, though the flag that announces  *)
(* it is read and cleared by the interrupt handler and by the task, unless *)
(* an earlier frame found no buffer.                                       *)
(***************************************************************************)
FramesAreRead ==
    \A n \in 1..MaxArrived :
        n \in Elements(rxRing)
        ~> (n \notin Elements(rxRing) \/ \E k \in 1..(n - 1) : k \notin delivered)

(***************************************************************************)
(* The driver implements the service the network stack relies on           *)
(* (NetStack.tla): all frames come back, in order, and a received frame    *)
(* uses up one of the buffers that were lent, no step uses up more.        *)
(***************************************************************************)
Unanswered == (1..sent) \ answered

Service == INSTANCE FrameService WITH
    MaxFrames <- MaxSent, accepted <- sent, waiting <- Unanswered,
    Buffers <- RxBuffers, free <- Lent

ImplementsFrameService == Service!Spec
=============================================================================
