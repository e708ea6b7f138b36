---------------------------- MODULE PxrosExecutor ----------------------------
(***************************************************************************)
(* The generic executor (src/src/executor/executor.rs), its wakers, and    *)
(* the PXROS strategy that waits for events and messages                   *)
(* (src/src/pxros/executor/mod.rs), run by one PXROS task; the bodies of   *)
(* the async tasks it polls; and, outside src/, the kernel's event mask    *)
(* and FIFO mailbox of that PXROS task.                                    *)
(*                                                                         *)
(* A step ends where another PXROS task or an interrupt can be seen to     *)
(* intervene: at a kernel call and at an access to a ready flag.           *)
(***************************************************************************)
EXTENDS Naturals

CONSTANTS
    NumTasks,       \* async tasks of the executor (TASK_COUNT)
    Bits,           \* event bits of the PXROS task
    Supported,      \* E::all() of the executor's event type
    MaxMessages,    \* bound: messages ever sent to the mailbox
    Awaits,         \* Awaits[t]: the awaits the body of t may perform
    ForeignWakes,   \* may a waker be called outside the executor?
    KernelErrors    \* may the kernel calls that receive return an error?

Tasks == 1..NumTasks

\* Messages are numbered in the order they are sent.
Messages == 1..MaxMessages
NoMessage == 0

INSTANCE PxrosData

\* What a suspended body waits for.  A "select" awaits an event first and a
\* message second (futures::select); a "yield" wakes itself once.
Await == [kind : {"none", "event", "message", "select", "yield"},
          events : SUBSET Bits]
NoAwait == [kind |-> "none", events |-> {}]

WaitsEvent(a)   == a.kind \in {"event", "select"}
WaitsMessage(a) == a.kind \in {"message", "select"}

ASSUME NumTasksAssumption == NumTasks \in Nat \ {0}
ASSUME MessagesAssumption == MaxMessages \in Nat
ASSUME SupportedAssumption == Supported \subseteq Bits
ASSUME AwaitsAssumption == Awaits \in [Tasks -> SUBSET (Await \ {NoAwait})]
ASSUME FlagsAssumption == ForeignWakes \in BOOLEAN /\ KernelErrors \in BOOLEAN

VARIABLES
    pc,         \* where Executor::run is
    cursor,     \* retain_mut's position in the task vector
    live,       \* the tasks still in the vector, in index order
    results,    \* the results array
    ready,      \* GenericContext::is_ready of each task
    data,       \* PxrosData of each task
    await,      \* the await each body is suspended at
    got,        \* history: bits delivered to each body for that await
    mayBlock,   \* argument of RawExecutor::wait
    events,     \* wait's local: the events just received
    message,    \* wait's local: the message just received
    taken,      \* messages handed to a task body
    leaked,     \* messages whose last handle was dropped unreleased
    pending,    \* kernel: event mask of the PXROS task
    sent,       \* kernel: messages sent so far
    received    \* kernel: messages received so far

execVars   == <<pc, cursor, live, results, mayBlock, events, message>>
taskVars   == <<ready, data, await, got, taken, leaked>>
kernelVars == <<pending, sent, received>>
vars == <<execVars, taskVars, kernelVars>>

Mailbox == (received + 1)..sent

Init ==
    /\ pc = "retain"
    /\ cursor = 1
    /\ live = Tasks
    /\ results = [t \in Tasks |-> "none"]
    /\ ready = [t \in Tasks |-> TRUE]
    /\ data = [t \in Tasks |-> DefaultData]
    /\ await = [t \in Tasks |-> NoAwait]
    /\ got = [t \in Tasks |-> {}]
    /\ mayBlock = FALSE
    /\ events = {}
    /\ message = NoMessage
    /\ taken = {}
    /\ leaked = {}
    /\ pending = {}
    /\ sent = 0
    /\ received = 0

-----------------------------------------------------------------------------
(***************************************************************************)
(* Executor::run: the vector is traversed in order.                        *)
(***************************************************************************)
Polling(t) == pc \in {"poll", "body"} /\ cursor = t

\* clear_ready() returned false, or the position holds no task any more.
SkipTask ==
    /\ pc = "retain" /\ cursor \in Tasks
    /\ ~(cursor \in live /\ ready[cursor])
    /\ cursor' = cursor + 1
    /\ UNCHANGED <<pc, live, results, mayBlock, events, message,
                   taskVars, kernelVars>>

StartPoll(t) ==
    /\ pc = "retain" /\ cursor = t
    /\ t \in live /\ ready[t]
    /\ ready' = [ready EXCEPT ![t] = FALSE]
    /\ pc' = "poll"
    /\ UNCHANGED <<cursor, live, results, mayBlock, events, message,
                   data, await, got, taken, leaked, kernelVars>>

\* Mutant: the traversal steps over the task after the one that was polled.
SuspendSkipsNext ==
    /\ pc' = "retain"
    /\ cursor' = cursor + 2

\* poll returned Pending.
Suspend ==
    /\ pc' = "retain"
    /\ cursor' = cursor + 1

(***************************************************************************)
(* One poll of the await a in task t: an event await polls the event, a    *)
(* select polls the message only if the event is not there.                *)
(***************************************************************************)
EventArm(t, a)   == WaitsEvent(a) /\ PollEventReady(data[t], a.events)
MessageArm(t, a) == ~EventArm(t, a) /\ WaitsMessage(a) /\ PollMessageReady(data[t])

DataAfterPoll(t, a) ==
    LET d == IF WaitsEvent(a) THEN PollEventData(data[t], a.events) ELSE data[t]
    IN  IF WaitsMessage(a) /\ ~EventArm(t, a) THEN PollMessageData(d) ELSE d

PollAwait(t, a) ==
    /\ data' = [data EXCEPT ![t] = DataAfterPoll(t, a)]
    /\ taken' = IF MessageArm(t, a) THEN taken \cup {data[t].message} ELSE taken
    /\ IF EventArm(t, a) \/ MessageArm(t, a)
       THEN /\ await' = [await EXCEPT ![t] = NoAwait]
            /\ pc' = "body" /\ UNCHANGED cursor
       ELSE /\ await' = [await EXCEPT ![t] = a]
            /\ Suspend

(***************************************************************************)
(* The body of t: it resumes where it was suspended, performs awaits until *)
(* one is pending, calls wakers it holds, and may return.                  *)
(***************************************************************************)
Resume(t) ==
    /\ pc = "poll" /\ cursor = t
    /\ IF WaitsEvent(await[t]) \/ WaitsMessage(await[t])
       THEN PollAwait(t, await[t])
       ELSE /\ await' = [await EXCEPT ![t] = NoAwait]
            /\ pc' = "body"
            /\ UNCHANGED <<cursor, data, taken>>
    /\ UNCHANGED <<live, results, mayBlock, events, message,
                   ready, got, leaked, kernelVars>>

StartAwait(t) ==
    /\ pc = "body" /\ cursor = t
    /\ \E a \in Awaits[t] :
          /\ WaitsEvent(a) \/ WaitsMessage(a)
          /\ got' = [got EXCEPT ![t] = data[t].triggered \cap a.events]
          /\ PollAwait(t, a)
    /\ UNCHANGED <<live, results, mayBlock, events, message,
                   ready, leaked, kernelVars>>

\* yield_once: wake_by_ref on the own waker, then Pending.
Yield(t) ==
    /\ pc = "body" /\ cursor = t
    /\ \E a \in Awaits[t] :
          /\ a.kind = "yield"
          /\ await' = [await EXCEPT ![t] = a]
    /\ ready' = [ready EXCEPT ![t] = TRUE]
    /\ got' = [got EXCEPT ![t] = {}]
    /\ Suspend
    /\ UNCHANGED <<live, results, mayBlock, events, message,
                   data, taken, leaked, kernelVars>>

\* Waker::wake of any task of the executor, from the body of t.
LocalWake(t, u) ==
    /\ pc = "body" /\ cursor = t
    /\ ~ready[u]
    /\ ready' = [ready EXCEPT ![u] = TRUE]
    /\ UNCHANGED <<execVars, data, await, got, taken, leaked, kernelVars>>

\* Mutant: retain_mut keeps the task that has returned.
KeepReturned(t) == live

RemoveReturned(t) == live \ {t}

Complete(t) ==
    /\ pc = "body" /\ cursor = t
    /\ \E r \in {"ok", "err"} : results' = [results EXCEPT ![t] = r]
    /\ live' = RemoveReturned(t)
    /\ Suspend
    /\ UNCHANGED <<mayBlock, events, message, taskVars, kernelVars>>

(***************************************************************************)
(* The end of a traversal: return, or wait with the permission to block if *)
(* no task is ready.                                                       *)
(***************************************************************************)
\* Mutant: runs on after a task has failed.
IgnoreBail == live = {}

MustReturn == live = {} \/ \E t \in Tasks : results[t] = "err"

\* Mutant: the strategy may always block.
AlwaysBlock == TRUE

NoTaskReady == \A t \in live : ~ready[t]

EndRound ==
    /\ pc = "retain" /\ cursor = NumTasks + 1
    /\ IF MustReturn
       THEN pc' = "done" /\ UNCHANGED mayBlock
       ELSE pc' = "wait" /\ mayBlock' = NoTaskReady
    /\ UNCHANGED <<cursor, live, results, events, message, taskVars, kernelVars>>

-----------------------------------------------------------------------------
(***************************************************************************)
(* PxrosExecutor::wait.  Blocked on PxMsgReceive_EvWait the executor       *)
(* returns with all supported pending events and the first message, if     *)
(* there is one.                                                           *)
(***************************************************************************)
Blocked == pc = "wait" /\ mayBlock

NextMessage == IF Mailbox = {} THEN NoMessage ELSE received + 1

BlockingReceive ==
    /\ Blocked
    /\ (pending \cap Supported # {}) \/ (Mailbox # {})
    /\ events' = pending \cap Supported
    /\ pending' = pending \ Supported
    /\ message' = NextMessage
    /\ received' = IF Mailbox = {} THEN received ELSE received + 1
    /\ pc' = "distribute"
    /\ UNCHANGED <<cursor, live, results, mayBlock, taskVars, sent>>

\* Receiver::receive turns an error into no events and no message.
BlockingError ==
    /\ KernelErrors /\ Blocked
    /\ events' = {} /\ message' = NoMessage
    /\ pc' = "distribute"
    /\ UNCHANGED <<cursor, live, results, mayBlock, taskVars, kernelVars>>

\* Mutant: the non-blocking path forgets to fetch the events.
NoReset == {}

ResetMask == pending \cap Supported

ResetEvents ==
    /\ pc = "wait" /\ ~mayBlock
    /\ events' = ResetMask
    /\ pending' = pending \ Supported
    /\ pc' = "try"
    /\ UNCHANGED <<cursor, live, results, mayBlock, message, taskVars, sent, received>>

\* An error is taken for an empty mailbox (`.ok()`).
TryMessageReceive ==
    /\ pc = "try"
    /\ \/ /\ message' = NextMessage
          /\ received' = IF Mailbox = {} THEN received ELSE received + 1
       \/ KernelErrors /\ message' = NoMessage /\ UNCHANGED received
    /\ pc' = "distribute"
    /\ UNCHANGED <<cursor, live, results, mayBlock, events, taskVars, pending, sent>>

(***************************************************************************)
(* The loop over the tasks: events to whoever awaits them, the message to  *)
(* the one task that awaits messages (the fold finds the last one, and the *)
(* assertion that there is no other follows); a message nobody awaits is   *)
(* dropped.                                                                *)
(***************************************************************************)
Woken    == {t \in live : Relevant(data[t], events) # {}}
Awaiting == {t \in live : data[t].awaitingMessage}

Recipients ==
    {t \in Awaiting : message # NoMessage /\ \A u \in Awaiting : u <= t}

Unsupported == \E t \in live : ~(data[t].awaiting \subseteq Supported)
Clobbered   == \E t \in live : ~TriggerAssertion(data[t], events)

\* Mutant: the message goes to the last awaiting task, however many there are.
NeverAmbiguous == FALSE

Ambiguous == message # NoMessage /\ \E t, u \in Awaiting : t # u

Panic ==
    /\ pc = "distribute"
    /\ Unsupported \/ Clobbered \/ Ambiguous
    /\ pc' = "panic"
    /\ UNCHANGED <<cursor, live, results, mayBlock, events, message,
                   taskVars, kernelVars>>

DataAfterTrigger(t) ==
    LET d == TriggerEventsData(data[t], events)
    IN  IF t \in Recipients THEN TriggerMessageData(d, message) ELSE d

Dropped ==
    IF Recipients = {} THEN {message} \ {NoMessage}
    ELSE {data[t].message : t \in Recipients} \ {NoMessage}

\* Mutant: an event is triggered without waking its task.
MarkRecipientsOnly == [t \in Tasks |-> ready[t] \/ t \in Recipients]

\* Mutant: a message is stored without waking its task.
MarkWokenOnly == [t \in Tasks |-> ready[t] \/ t \in Woken]

MarkReady == [t \in Tasks |-> ready[t] \/ t \in Woken \/ t \in Recipients]

KeepWaiting == mayBlock /\ Woken = {} /\ Recipients = {}

Distribute ==
    /\ pc = "distribute"
    /\ ~(Unsupported \/ Clobbered \/ Ambiguous)
    /\ data' = [t \in Tasks |-> IF t \in live THEN DataAfterTrigger(t) ELSE data[t]]
    /\ got' = [t \in Tasks |->
                  IF t \in live THEN got[t] \cup Relevant(data[t], events) ELSE got[t]]
    /\ ready' = MarkReady
    /\ leaked' = leaked \cup Dropped
    /\ events' = {} /\ message' = NoMessage
    /\ IF KeepWaiting
       THEN pc' = "wait" /\ UNCHANGED cursor
       ELSE pc' = "retain" /\ cursor' = 1
    /\ UNCHANGED <<live, results, mayBlock, await, taken, kernelVars>>

-----------------------------------------------------------------------------
(***************************************************************************)
(* The environment: PxTaskSignalEvents and PxMsgSend by other PXROS tasks, *)
(* and a waker called by another PXROS task or an interrupt handler, which *)
(* only sets the flag.                                                     *)
(***************************************************************************)
Stopped == pc \in {"done", "panic"}

Signal(e) ==
    /\ e \notin pending
    /\ pending' = pending \cup {e}
    /\ UNCHANGED <<execVars, taskVars, sent, received>>

Send ==
    /\ sent < MaxMessages
    /\ sent' = sent + 1
    /\ UNCHANGED <<execVars, taskVars, pending, received>>

ForeignWake(t) ==
    /\ ForeignWakes /\ ~Stopped
    /\ ~ready[t]
    /\ ready' = [ready EXCEPT ![t] = TRUE]
    /\ UNCHANGED <<execVars, data, await, got, taken, leaked, kernelVars>>

Run ==
    \/ SkipTask \/ EndRound
    \/ \E t \in Tasks :
          \/ StartPoll(t) \/ Resume(t) \/ StartAwait(t) \/ Yield(t) \/ Complete(t)
          \/ \E u \in Tasks : LocalWake(t, u)

Wait ==
    \/ BlockingReceive \/ BlockingError \/ ResetEvents \/ TryMessageReceive
    \/ Panic \/ Distribute

Environment ==
    \/ Send
    \/ \E e \in Bits : Signal(e)
    \/ \E t \in Tasks : ForeignWake(t)

Next == Run \/ Wait \/ Environment

Spec == Init /\ [][Next]_vars

\* The PXROS task of the executor is scheduled, its bodies return from a poll,
\* and PxMsgReceive_EvWait returns once there is something to receive.
Fairness == WF_vars(Run) /\ WF_vars(Wait)

FairSpec == Spec /\ Fairness
=============================================================================
