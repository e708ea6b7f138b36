----------------------------- MODULE WakeContract -----------------------------
(***************************************************************************)
(* What an executor promises to its tasks, whatever its strategy: the      *)
(* contract between Executor::run, RawExecutor::wait and the wakers        *)
(* (src/src/executor/mod.rs, executor.rs, waker/mod.rs).  A task runs only *)
(* after it was woken; it runs alone; a task that has returned never runs  *)
(* again; the executor is idle only while no task is woken, so a wake ends *)
(* idleness; and a woken task is eventually run.                           *)
(***************************************************************************)
CONSTANTS
    Tasks,
    None        \* not a member of Tasks

VARIABLES
    live,       \* tasks that have not returned
    woken,      \* tasks whose waker was called since they last started to run
    running,    \* the task being run, or None
    mode        \* "active", "idle" (may block) or "stopped"

vars == <<live, woken, running, mode>>

Init ==
    /\ live = Tasks
    /\ woken = Tasks
    /\ running = None
    /\ mode = "active"

Dispatch(t) ==
    /\ mode = "active" /\ running = None
    /\ t \in live \cap woken
    /\ running' = t
    /\ woken' = woken \ {t}
    /\ UNCHANGED <<live, mode>>

Pend ==
    /\ running # None
    /\ running' = None
    /\ UNCHANGED <<live, mode>>
    /\ woken' \in {woken, woken \cup {running}}

Return ==
    /\ running # None
    /\ live' = live \ {running}
    /\ running' = None
    /\ UNCHANGED <<woken, mode>>

\* Wakers are called, by the running task or because something arrived.
Wake ==
    /\ mode # "stopped"
    /\ \E ts \in SUBSET Tasks : ts # {} /\ woken' = woken \cup ts
    /\ mode' = "active"
    /\ UNCHANGED <<live, running>>

MayIdle == live # {} /\ live \cap woken = {}

Idle ==
    /\ mode = "active" /\ running = None
    /\ MayIdle
    /\ mode' = "idle"
    /\ UNCHANGED <<live, woken, running>>

Stop ==
    /\ running = None
    /\ mode # "stopped"
    /\ mode' = "stopped"
    /\ UNCHANGED <<live, woken, running>>

Next == (\E t \in Tasks : Dispatch(t)) \/ Pend \/ Return \/ Wake \/ Idle \/ Stop

\* A task returns from being run, and no woken task is passed over for ever.
Fairness == WF_vars(Pend \/ Return) /\ \A t \in Tasks : SF_vars(Dispatch(t))

SafeSpec == Init /\ [][Next]_vars

Spec == SafeSpec /\ Fairness
=============================================================================
