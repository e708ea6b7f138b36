------------------------------ MODULE RttLogger ------------------------------
(***************************************************************************)
(* The logger of src/src/pxros/defmt_rtt.rs: the lock that all PXROS tasks *)
(* share, which waits on a ticker (ticker.rs), and the ring that the debug *)
(* host reads.  A frame is one run of FrameLen bytes, the k-th byte of a   *)
(* frame of task t being <<t, k>>.  Tasks of one core run by priority; the *)
(* cores and the host run in parallel.                                     *)
(***************************************************************************)
EXTENDS Integers, Sequences

CONSTANTS
    Tasks, Nobody,  \* the task ids, and the 0 of a free lock
    Core, Prio,     \* core and priority of each task (low is urgent)
    Size,           \* DEFMT_BUF_SIZE
    FrameLen,       \* bytes of one frame
    MaxCalls,       \* bound: frames and flushes of each task
    Faults          \* "ticker": PxPeRequest or PxPeStart may fail.
                    \* "reenter": a task may log while it logs.

ASSUME TasksAssumption == Nobody \notin Tasks
ASSUME PlaceAssumption == Core \in [Tasks -> Nat] /\ Prio \in [Tasks -> Nat]
ASSUME SizeAssumption == Size \in Nat \ {0} /\ FrameLen \in Nat \ {0} /\ MaxCalls \in Nat
ASSUME FaultsAssumption == Faults \subseteq {"ticker", "reenter"}

VARIABLES
    pc,         \* where each task is
    doing,      \* what it called: "log" or "flush"
    calls,      \* number of its calls so far
    lock,       \* LOGGER_TAKEN_BY_TASK_ID
    tick,       \* kernel: the tasks whose LoggerDelay event is pending
    dying,      \* the tasks that are in the panic handler
    done,       \* bytes of its frame that each task has written
    cursor, len,\* locals of write_impl
    ring, rd, wr,   \* buffer, read and write of the Channel
    connected,  \* has the host set MODE_BLOCK_IF_FULL?
    written,    \* history: bytes published so far
    read        \* history: bytes the host has taken

taskVars == <<doing, calls, dying>>
ringVars == <<ring, rd, wr, written, read>>
vars == <<pc, taskVars, lock, tick, done, cursor, len, ringVars, connected>>

Indices == 0..(Size - 1)
Bytes == Tasks \X (1..FrameLen)

Init ==
    /\ pc = [t \in Tasks |-> "idle"]
    /\ doing = [t \in Tasks |-> "log"]
    /\ calls = [t \in Tasks |-> 0]
    /\ lock = Nobody /\ tick = {} /\ dying = {}
    /\ done = [t \in Tasks |-> 0]
    /\ cursor = [t \in Tasks |-> 0] /\ len = [t \in Tasks |-> 0]
    /\ ring = [i \in Indices |-> <<Nobody, 0>>] /\ rd = 0 /\ wr = 0
    /\ connected \in BOOLEAN
    /\ written = <<>> /\ read = <<>>

\* A task is scheduled if no more urgent one of its core can run.  PxAbort and
\* PxPanic loop for ever (px_bsp.c): what is less urgent does not run again.
Waiting(t) ==
    pc[t] = "idle" \/ (pc[t] = "sleep" /\ t \notin tick)

Urgent(t) == {u \in Tasks : Core[u] = Core[t] /\ Prio[u] < Prio[t]}

Scheduled(t) == \A u \in Urgent(t) : Waiting(u)

GoTo(t, label) == pc' = [pc EXCEPT ![t] = label]

-----------------------------------------------------------------------------
(***************************************************************************)
(* acquire.  Ticker::after starts a periodic event (every), awaits it      *)
(* (wait) and releases it (drop).                                          *)
(***************************************************************************)
Call(t, op) ==
    /\ pc[t] = "idle" /\ calls[t] < MaxCalls
    /\ Scheduled(t)
    /\ calls' = [calls EXCEPT ![t] = @ + 1]
    /\ doing' = [doing EXCEPT ![t] = op]
    /\ GoTo(t, "acquire")
    /\ UNCHANGED <<lock, tick, dying, done, cursor, len, ringVars, connected>>

\* Mutant: the word is tested and set, but not in one step (no owner is seen).
StealFree(t) == lock \in Tasks \cup {Nobody}

CompareExchange(t) == lock = Nobody

Acquire(t) ==
    /\ pc[t] = "acquire"
    /\ Scheduled(t)
    /\ CompareExchange(t)
    /\ lock' = t
    /\ done' = [done EXCEPT ![t] = 0]
    /\ GoTo(t, IF doing[t] = "log" THEN "load" ELSE "flush")
    /\ UNCHANGED <<taskVars, tick, cursor, len, ringVars, connected>>

\* Mutant: spin instead of descheduling the task.
Spin(t) == UNCHANGED pc

StartTicker(t) == GoTo(t, "sleep")

Backoff(t) ==
    /\ pc[t] = "acquire"
    /\ Scheduled(t)
    /\ lock \notin {Nobody, t}
    /\ StartTicker(t)
    /\ UNCHANGED <<taskVars, lock, tick, done, cursor, len, ringVars, connected>>

\* unwrap: the panic handler logs, and so comes back here.
TickerFails(t) ==
    /\ "ticker" \in Faults
    /\ pc[t] = "acquire"
    /\ Scheduled(t)
    /\ lock \notin {Nobody, t}
    /\ dying' = dying \cup {t}
    /\ doing' = [doing EXCEPT ![t] = "log"]
    /\ UNCHANGED <<pc, calls, lock, tick, done, cursor, len, ringVars, connected>>

Wait(t) ==
    /\ pc[t] = "sleep" /\ t \in tick
    /\ Scheduled(t)
    /\ tick' = tick \ {t}
    /\ GoTo(t, "drop")
    /\ UNCHANGED <<taskVars, lock, done, cursor, len, ringVars, connected>>

Drop(t) ==
    /\ pc[t] = "drop"
    /\ Scheduled(t)
    /\ GoTo(t, "acquire")
    /\ UNCHANGED <<taskVars, lock, tick, done, cursor, len, ringVars, connected>>

\* The event is periodic: a task preempted before drop is left a stale tick.
Tick(t) ==
    /\ pc[t] = "sleep" \/ (pc[t] = "drop" /\ ~Scheduled(t))
    /\ tick' = tick \cup {t}
    /\ UNCHANGED <<pc, taskVars, lock, done, cursor, len, ringVars, connected>>

\* "Abort on reentrancy."
Reenter(t) ==
    /\ "reenter" \in Faults
    /\ pc[t] = "load" /\ lock = t
    /\ Scheduled(t)
    /\ GoTo(t, "aborted")
    /\ UNCHANGED <<taskVars, lock, tick, done, cursor, len, ringVars, connected>>

-----------------------------------------------------------------------------
(***************************************************************************)
(* write_all: blocking_write or nonblocking_write until the frame is out.  *)
(***************************************************************************)
\* Mutant: no byte stays free.
AllOfIt(r, w) == IF r > w THEN r - w ELSE Size - w

AvailableBufferSize(r, w) ==
    IF r > w THEN r - w - 1
    ELSE IF r = 0 THEN Size - w - 1
    ELSE Size - w

Room == IF connected THEN AvailableBufferSize(rd, wr) ELSE Size

Least(a, b) == IF a < b THEN a ELSE b

Load(t) ==
    /\ pc[t] = "load"
    /\ Scheduled(t)
    /\ Room > 0
    /\ cursor' = [cursor EXCEPT ![t] = wr]
    /\ len' = [len EXCEPT ![t] = Least(FrameLen - done[t], Room)]
    /\ GoTo(t, "copy")
    /\ UNCHANGED <<taskVars, lock, tick, done, ringVars, connected>>

\* The k-th byte copied goes to index cursor + k - 1, which may wrap.
Offset(t, i) == ((i - cursor[t]) % Size) + 1

\* Mutant: the second memcpy starts at the source's first byte again.
WrapRestarts(t) ==
    [i \in Indices |->
        IF Offset(t, i) > len[t] THEN ring[i]
        ELSE <<t, done[t] + (IF i < cursor[t] THEN i + 1 ELSE Offset(t, i))>>]

Copied(t) ==
    [i \in Indices |->
        IF Offset(t, i) <= len[t] THEN <<t, done[t] + Offset(t, i)>> ELSE ring[i]]

Copy(t) ==
    /\ pc[t] = "copy"
    /\ Scheduled(t)
    /\ ring' = Copied(t)
    /\ GoTo(t, "publish")
    /\ UNCHANGED <<taskVars, lock, tick, done, cursor, len, rd, wr, written, read, connected>>

\* Mutant: the cursor does not wrap.
NoWrap(c, n) == c + n

Advanced(c, n) == (c + n) % Size

Publish(t) ==
    /\ pc[t] = "publish"
    /\ Scheduled(t)
    /\ wr' = Advanced(cursor[t], len[t])
    /\ written' = written \o [k \in 1..len[t] |-> <<t, done[t] + k>>]
    /\ done' = [done EXCEPT ![t] = @ + len[t]]
    /\ GoTo(t, IF done[t] + len[t] = FrameLen THEN "release" ELSE "load")
    /\ UNCHANGED <<taskVars, lock, tick, cursor, len, ring, rd, read, connected>>

\* Mutant: flush does not wait for a host that is slow.
NoNeedToWait == TRUE

CaughtUp == connected => rd = wr

Flush(t) ==
    /\ pc[t] = "flush"
    /\ Scheduled(t)
    /\ CaughtUp
    /\ GoTo(t, "release")
    /\ UNCHANGED <<taskVars, lock, tick, done, cursor, len, ringVars, connected>>

\* The panic handler ends in PxPanic, an endless loop that keeps the core.
Release(t) ==
    /\ pc[t] = "release"
    /\ Scheduled(t)
    /\ lock' = Nobody
    /\ GoTo(t, IF t \in dying THEN "panicked" ELSE "idle")
    /\ UNCHANGED <<taskVars, tick, done, cursor, len, ringVars, connected>>

\* The host takes the byte at the read cursor.
HostRead ==
    /\ connected /\ rd # wr
    /\ read' = Append(read, ring[rd])
    /\ rd' = (rd + 1) % Size
    /\ UNCHANGED <<pc, taskVars, lock, tick, done, cursor, len, ring, wr, written, connected>>

Proceed(t) ==
    \/ Acquire(t) \/ Backoff(t) \/ TickerFails(t) \/ Wait(t) \/ Drop(t) \/ Reenter(t)
    \/ Load(t) \/ Copy(t) \/ Publish(t) \/ Flush(t) \/ Release(t)

Next ==
    \/ \E t \in Tasks : Proceed(t) \/ Tick(t) \/ \E op \in {"log", "flush"} : Call(t, op)
    \/ HostRead

Spec == Init /\ [][Next]_vars

\* A task whose turn comes again and again proceeds (5 ms are enough for a
\* step), the ticker ticks and a connected host reads.
Fairness ==
    /\ \A t \in Tasks : SF_vars(Proceed(t)) /\ WF_vars(Tick(t))
    /\ WF_vars(HostRead)

FairSpec == Spec /\ Fairness
=============================================================================
