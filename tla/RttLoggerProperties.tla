------------------------- MODULE RttLoggerProperties -------------------------
(***************************************************************************)
(* What the logger of RttLogger.tla must and must not do.                  *)
(***************************************************************************)
EXTENDS RttLogger

Critical == {"load", "copy", "publish", "flush", "release", "aborted"}
Labels == {"idle", "acquire", "sleep", "drop", "panicked"} \cup Critical

TypeOK ==
    /\ pc \in [Tasks -> Labels]
    /\ doing \in [Tasks -> {"log", "flush"}]
    /\ calls \in [Tasks -> 0..MaxCalls]
    /\ lock \in Tasks \cup {Nobody}
    /\ tick \subseteq Tasks /\ dying \subseteq Tasks
    /\ done \in [Tasks -> 0..FrameLen]
    /\ cursor \in [Tasks -> Indices] /\ len \in [Tasks -> 0..FrameLen]
    /\ ring \in [Indices -> Bytes \cup {<<Nobody, 0>>}]
    /\ rd \in Indices /\ wr \in Indices /\ connected \in BOOLEAN
    /\ written \in Seq(Bytes) /\ read \in Seq(Bytes)

(***************************************************************************)
(* Only the task whose id is in the lock uses the encoder and the channel, *)
(* though tasks of several cores try for it, and panic, at once.           *)
(***************************************************************************)
OneLogger == \A t \in Tasks : pc[t] \in Critical => lock = t

(***************************************************************************)
(* The frames in the channel are whole: one begins only where the previous *)
(* one has ended, however often a full ring interrupts the writing.        *)
(***************************************************************************)
FramesWhole ==
    \A i \in 1..Len(written) :
        IF i = 1 \/ written[i][2] = 1
        THEN written[i][2] = 1 /\ (i > 1 => written[i - 1][2] = FrameLen)
        ELSE written[i] = <<written[i - 1][1], written[i - 1][2] + 1>>

(***************************************************************************)
(* With a host connected no byte is lost, repeated or overwritten before it*)
(* is read, while the read cursor moves under the writer's copy of it.     *)
(***************************************************************************)
Unread == [k \in 1..((wr - rd) % Size) |-> ring[(rd + k - 1) % Size]]

NothingLost == connected => read \o Unread = written

(***************************************************************************)
(* The non-blocking write of a missing host ignores the read cursor and may*)
(* go over bytes that are between the cursors, several times around.  Still*)
(* what is between them is never a mixture of old and new: outside of a    *)
(* write it is the latest that was written, each byte once and in order, so*)
(* that a host which comes late reads on from there.                       *)
(***************************************************************************)
UnreadIsLatest ==
    (\A t \in Tasks : pc[t] # "publish") =>
        /\ Len(Unread) <= Len(written)
        /\ \A k \in 1..Len(Unread) :
               Unread[k] = written[Len(written) - Len(Unread) + k]

(***************************************************************************)
(* flush returns only when a connected host has read all that was written. *)
(***************************************************************************)
FlushIsComplete ==
    [][\A t \in Tasks : (pc[t] = "flush" /\ pc'[t] = "release" /\ connected)
                            => read = written]_vars

(***************************************************************************)
(* Who wants to log does, whatever the priorities of the waiting task and  *)
(* of the one that holds the lock: the ticker's wait lets the holder run.  *)
(* A task aborted for reentrancy keeps the lock, and one that has panicked *)
(* keeps its core.                                                         *)
(***************************************************************************)
CallsReturn ==
    \A t \in Tasks :
        (pc[t] = "acquire")
        ~> \/ pc[t] = "idle"
           \/ \E u \in Tasks :
                 pc[u] = "aborted" \/ (pc[u] = "panicked" /\ Core[u] = Core[t])
=============================================================================
