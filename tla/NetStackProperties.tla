-------------------------- MODULE NetStackProperties --------------------------
(***************************************************************************)
(* What the UDP example of NetStack.tla must and must not do.              *)
(***************************************************************************)
EXTENDS NetStack

Messages == Datagrams \cup {Arp, Empty}

TypeOK ==
    /\ pc \in {"init", "give", "poll", "transmit", "await", "socket", "forward",
               "wait", "panic"}
    /\ back \in {"poll", "give"}
    /\ hand \in Messages /\ echo \in Datagrams \cup {Empty}
    /\ held \in 0..Buffers /\ rxMbx \in Seq(Messages) /\ event \in BOOLEAN
    /\ sockRx \in Seq(Datagrams) /\ sockTx \in Seq(Datagrams)
    /\ toMirror \in Seq(Datagrams) /\ toStack \in Seq(Datagrams)
    /\ mirror \in {"receive", "echo", "release", "ended"}
    /\ accepted \in Nat /\ waiting \subseteq Nat /\ free \in 0..Buffers
    /\ arrived \in 0..MaxArrived /\ failures \in 0..MaxFailures
    /\ missed \in BOOLEAN /\ leaked \in Nat /\ dropped \subseteq Datagrams /\ echoed \in Seq(Datagrams)

(***************************************************************************)
(* Every receive buffer is with the driver, in the stack's mailbox or in   *)
(* its hands: also one that could not be sent to the driver, because its   *)
(* release brings it back to be sent again.                                *)
(***************************************************************************)
StackBuffersConserved == free + Len(rxMbx) + held = Buffers

(***************************************************************************)
(* The two tasks are never both held up by a full pool, each waiting for   *)
(* what only the other would release: a loop sends at most one message and *)
(* takes one echo if there is any (and can receive it).                    *)
(***************************************************************************)
StackHeldUp == pc \in {"transmit", "forward"} /\ ~StackHasRoom
MirrorHeldUp == mirror = "echo" /\ ~MirrorHasRoom

NeverBothHeldUp == ~missed => ~(StackHeldUp /\ MirrorHeldUp)

(***************************************************************************)
(* A frame in the mailbox does not wait for the ticker: when the task      *)
(* waits, its arrival has left the event pending.                          *)
(***************************************************************************)
FramesAreAnnounced == (pc = "wait" /\ rxMbx # <<>> /\ ~missed) => event

(***************************************************************************)
(* Datagrams are echoed in the order they came, none of them twice.        *)
(***************************************************************************)
EchoedInOrder == \A i, j \in 1..Len(echoed) : i < j => echoed[i] < echoed[j]

(***************************************************************************)
(* A datagram taken in by the socket is sent back or given up, though the  *)
(* socket is read once a loop and other datagrams wait in it unannounced,  *)
(* and though a message leaks, unless a task panics or returns, or a missed*)
(* echo lets both be held up.                                              *)
(***************************************************************************)
Elements(s) == {s[i] : i \in DOMAIN s}

DatagramsAreEchoed ==
    \A n \in Datagrams :
        (n \in Elements(sockRx))
        ~> (\/ n \in Elements(echoed) \cup dropped
            \/ pc = "panic" \/ mirror = "ended"
            \/ StackHeldUp /\ MirrorHeldUp)
=============================================================================
