----------------------- MODULE PxrosExecutorProperties -----------------------
(***************************************************************************)
(* What the executor of PxrosExecutor.tla must and must not do, and the    *)
(* contract of WakeContract.tla it implements.                             *)
(***************************************************************************)
EXTENDS PxrosExecutor

TypeOK ==
    /\ pc \in {"retain", "poll", "body", "wait", "try", "distribute", "done", "panic"}
    /\ cursor \in 1..(NumTasks + 1)
    /\ live \subseteq Tasks
    /\ results \in [Tasks -> {"none", "ok", "err"}]
    /\ ready \in [Tasks -> BOOLEAN]
    /\ data \in [Tasks -> LocalData]
    /\ await \in [Tasks -> Await]
    /\ got \in [Tasks -> SUBSET Bits]
    /\ mayBlock \in BOOLEAN
    /\ events \subseteq Bits
    /\ message \in Messages \cup {NoMessage}
    /\ taken \subseteq Messages
    /\ leaked \subseteq Messages
    /\ pending \subseteq Bits
    /\ sent \in 0..MaxMessages
    /\ received \in 0..sent

(***************************************************************************)
(* The TODO above the assertion of trigger_events (local_data.rs:92) asks  *)
(* what happens to a triggered event a task does not consume in time: the  *)
(* bit is never awaited and triggered at once, so the assertion holds.     *)
(***************************************************************************)
NeverAwaitedAndTriggered ==
    \A t \in Tasks : data[t].awaiting \cap data[t].triggered = {}

(***************************************************************************)
(* No lost wakeup: while the executor may block, no task is ready.  The    *)
(* flags are read in run, before wait blocks (executor.rs:112).            *)
(***************************************************************************)
IdleOnlyWhenNothingReady == Blocked => \A t \in live : ~ready[t]

(***************************************************************************)
(* When the executor waits, every task that is not ready can be woken:     *)
(* nothing that answers its await lies unread in its data, every bit that  *)
(* was not delivered to it is registered, and some bit is, and a task that *)
(* awaits a message has its flag set.  To be woken is not to return: see   *)
(* NoSleepOnAnsweredAwait.                                                 *)
(***************************************************************************)
RegisteredForEvents(t) ==
    LET wanted == await[t].events
    IN  /\ wanted \ got[t] \subseteq data[t].awaiting
        /\ wanted \cap data[t].awaiting # {}
        /\ wanted \cap data[t].triggered = {}

RegisteredForMessage(t) ==
    data[t].awaitingMessage /\ data[t].message = NoMessage

Registered(t) ==
    /\ WaitsEvent(await[t]) \/ WaitsMessage(await[t])
    /\ WaitsEvent(await[t]) => RegisteredForEvents(t)
    /\ WaitsMessage(await[t]) => RegisteredForMessage(t)

SleepersCanBeWoken ==
    pc = "wait" => \A t \in live : ~ready[t] => Registered(t)

(***************************************************************************)
(* poll_event is documented to be ready once all events it waits for have  *)
(* been triggered (local_data.rs:46): the executor does not wait with a    *)
(* task asleep on an event await all of whose bits were delivered to it.   *)
(* The code does not keep this: a poll consumes the bits that are there,   *)
(* and the next one registers them again.                                  *)
(***************************************************************************)
Answered(t) == WaitsEvent(await[t]) /\ await[t].events \subseteq got[t]

NoSleepOnAnsweredAwait ==
    pc = "wait" => \A t \in live : ~ready[t] => ~Answered(t)

(***************************************************************************)
(* It does keep it for each await of one bit, alone or in a select and     *)
(* whatever the other awaits are: the delivered bit is there until the poll*)
(* it answers, and no dropped future or spurious poll has taken it.        *)
(***************************************************************************)
OneBit(a) == \E e \in Bits : a.events = {e}

NoSleepOnAnsweredBit ==
    pc = "wait" => \A t \in live : (~ready[t] /\ OneBit(await[t])) => ~Answered(t)

(***************************************************************************)
(* A message is in one place at a time: the mailbox, the hands of wait, the*)
(* data of one task, the body that took it, or dropped.  RawMessage is not *)
(* Clone, but handles are moved through four owners by hand.               *)
(***************************************************************************)
Held == {message} \ {NoMessage}
Stored == {data[t].message : t \in Tasks} \ {NoMessage}

MessagesConserved ==
    /\ Messages \cap 1..sent = Mailbox \cup Held \cup Stored \cup taken \cup leaked
    /\ Mailbox \cap (Held \cup Stored \cup taken \cup leaked) = {}
    /\ Held \cap (Stored \cup taken \cup leaked) = {}
    /\ Stored \cap (taken \cup leaked) = {}
    /\ taken \cap leaked = {}
    /\ \A t, u \in Tasks :
          (data[t].message = data[u].message /\ t # u) => data[t].message = NoMessage

(***************************************************************************)
(* The bodies take the messages in the order they were sent, whichever     *)
(* task of the executor takes them.                                        *)
(***************************************************************************)
TakenInOrder ==
    [][\A m \in taken' \ taken : \A k \in taken : k < m]_vars

(***************************************************************************)
(* A message is dropped only when no task is suspended on a message await: *)
(* the warning of mod.rs:91 says why it was dropped.                       *)
(***************************************************************************)
DroppedOnlyUnawaited ==
    [][leaked' # leaked => \A t \in live : ~WaitsMessage(await[t])]_vars

(***************************************************************************)
(* The executor panics only for the two documented reasons: an unsupported *)
(* event, or two tasks that wait for a message at the same time            *)
(* (local_data.rs:136).                                                    *)
(***************************************************************************)
PanicsOnlyAsDocumented ==
    pc = "panic" =>
        \/ Unsupported
        \/ \E t, u \in live : t # u /\ WaitsMessage(await[t]) /\ WaitsMessage(await[u])

(***************************************************************************)
(* Once a task has failed no kernel wait is entered: the traversal under   *)
(* way ends and run returns.  A returned task is never polled again and    *)
(* its result is kept (the index into results is the one of add, not the   *)
(* position in the vector, which shrinks).                                 *)
(***************************************************************************)
FailureEndsTheRun ==
    (\E t \in Tasks : results[t] = "err") => pc \in {"retain", "poll", "body", "done"}

ReturnedIsFinal ==
    [][\A t \in Tasks : results[t] # "none" => (results'[t] = results[t] /\ ~Polling(t)')]_vars

(***************************************************************************)
(* An await of one supported event that has been signalled returns, though *)
(* other tasks yield for ever or are woken again and again; so does the    *)
(* message await of the only task that awaits, once a message is there.    *)
(***************************************************************************)
Suspended(t) == t \in live /\ ~Polling(t)

EventAwaitReturns ==
    \A t \in Tasks : \A e \in Supported :
        (/\ Suspended(t) /\ await[t] = [kind |-> "event", events |-> {e}]
         /\ e \in pending)
        ~> (await[t] = NoAwait \/ Stopped)

MessageAwaitReturns ==
    \A t \in Tasks :
        (/\ Suspended(t) /\ await[t].kind = "message" /\ Mailbox # {})
        ~> (await[t] = NoAwait \/ Stopped)

(***************************************************************************)
(* Whoever calls a waker: the task is polled (waker/mod.rs:41 claims the   *)
(* rules of RawWaker).                                                     *)
(***************************************************************************)
WokenIsPolled ==
    \A t \in Tasks : (t \in live /\ ready[t]) ~> (Polling(t) \/ Stopped)

(***************************************************************************)
(* The executor implements the contract: a task is woken while its flag is *)
(* set, and the executor is idle where it may block in wait.               *)
(***************************************************************************)
WokenTasks == {t \in Tasks : ready[t]}

Running == IF pc \in {"poll", "body"} THEN cursor ELSE 0

Mode ==
    IF Stopped THEN "stopped"
    ELSE IF pc \in {"wait", "distribute"} /\ mayBlock THEN "idle"
    ELSE "active"

Contract == INSTANCE WakeContract WITH
    None <- 0, woken <- WokenTasks, running <- Running, mode <- Mode

ImplementsContract == Contract!Spec
=============================================================================
