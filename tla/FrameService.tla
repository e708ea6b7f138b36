----------------------------- MODULE FrameService -----------------------------
(***************************************************************************)
(* What an Ethernet driver promises the network stack that works with it.  *)
(* The messages of frames to send come back one by one, in the order they  *)
(* were handed over, each once, and all of them eventually: the stack waits*)
(* for this (await_release in src/examples/example-udp/src/network/        *)
(* device.rs).  Received frames come in the buffers the stack lent, and    *)
(* none comes without a buffer; frames may be lost, buffers may not.       *)
(***************************************************************************)
EXTENDS Naturals

CONSTANTS
    MaxFrames,      \* bound: frames ever handed over
    Buffers         \* receive buffers of the stack

VARIABLES
    accepted,   \* number of frames handed over
    waiting,    \* frames handed over and not yet given back
    free        \* buffers lent to the driver and not yet filled

vars == <<accepted, waiting, free>>

Init == accepted = 0 /\ waiting = {} /\ free = 0

Accept ==
    /\ accepted < MaxFrames
    /\ accepted' = accepted + 1
    /\ waiting' = waiting \cup {accepted + 1}
    /\ UNCHANGED free

\* Frames are numbered as they are handed over: the oldest comes back first.
GiveBack ==
    /\ \E f \in waiting :
          /\ \A g \in waiting : f <= g
          /\ waiting' = waiting \ {f}
    /\ UNCHANGED <<accepted, free>>

Lend ==
    /\ free < Buffers
    /\ free' = free + 1
    /\ UNCHANGED <<accepted, waiting>>

Deliver ==
    /\ free > 0
    /\ free' = free - 1
    /\ UNCHANGED <<accepted, waiting>>

Next == Accept \/ GiveBack \/ Lend \/ Deliver

SafeSpec == Init /\ [][Next]_vars

Spec == SafeSpec /\ WF_vars(GiveBack)
=============================================================================
