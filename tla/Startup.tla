------------------------------- MODULE Startup --------------------------------
(***************************************************************************)
(* How the UDP example comes up on three cores: InitTask and the deployment*)
(* of tasks (initTask.c, taskDeployment.c, auto_deploy.rs), the entry of a *)
(* task (task.rs), and the queries by which the tasks find each other      *)
(* (service.rs, name_server.rs) with their ticker (ticker.rs).             *)
(*                                                                         *)
(* Time is discrete: Elapse is one unit.  A task that can go on does so    *)
(* before it, unless it is held up, by Slack units in all.                 *)
(***************************************************************************)
EXTENDS Naturals, Sequences

CONSTANTS
    Period,     \* units of a ticker's period (100 ms)
    Tries,      \* tries of a query (10)
    Skew,       \* units by which the cores may boot apart
    Slack       \* units by which each task may be held up

ASSUME TimesAssumption == Period \in Nat \ {0} /\ Tries \in Nat \ {0}
ASSUME DelaysAssumption == Skew \in Nat /\ Slack \in Nat

(***************************************************************************)
(* The driver runs on core 0, with the name server; the network stack and  *)
(* the mirror on cores 1 and 2.  Goals are what each waits for in turn,    *)
(* Offers what it registers once it has reached the given number of goals. *)
(***************************************************************************)
Tasks == {"driver", "net", "mirror"}

Services == {"Ethernet", "Network", "MirrorName"}

Goals(t) ==
    CASE t = "driver" -> <<>>
      [] t = "net"    -> <<"Ethernet", "MirrorName">>
      [] t = "mirror" -> <<"Network">>

\* Mutant: a task registers only when it has found what it needs.
OffersLate(t, n) ==
    CASE t = "driver" /\ n = 0 -> {"Ethernet"}
      [] t = "net"    /\ n = 2 -> {"Network"}
      [] t = "mirror" /\ n = 1 -> {"MirrorName"}
      [] OTHER -> {}

Offers(t, n) ==
    CASE t = "driver" /\ n = 0 -> {"Ethernet"}
      [] t = "net"    /\ n = 1 -> {"Network"}
      [] t = "mirror" /\ n = 0 -> {"MirrorName"}
      [] OTHER -> {}

VARIABLES
    at,         \* where each task is
    reached,    \* goals each task has reached
    tries,      \* tries of its query so far
    left,       \* units until its ticker ticks
    pending,    \* kernel: tasks whose ticker event is pending
    registered, \* services and names that can be found
    refused,    \* services and names whose registration fails
    due,        \* units until each core has booted
    slack,      \* units each task may still be held up
    age         \* history: units since its query began, or more than enough

vars == <<at, reached, tries, left, pending, registered, refused, due, slack, age>>

Init ==
    /\ at = [t \in Tasks |-> "off"]
    /\ reached = [t \in Tasks |-> 0]
    /\ tries = [t \in Tasks |-> 0]
    /\ left = [t \in Tasks |-> 0]
    /\ pending = {} /\ registered = {}
    /\ refused \in SUBSET Services
    /\ due \in [Tasks -> 0..Skew]
    /\ slack = [t \in Tasks |-> Slack]
    /\ age = [t \in Tasks |-> 0]

Goal(t) == Goals(t)[reached[t] + 1]
Querying(t) == at[t] \in {"try", "wait", "drop"}

(***************************************************************************)
(* InitTask creates the name server on core 0; on the other cores it waits *)
(* for it.  Then it deploys the tasks of its core, which run once it has   *)
(* lowered its own priority.                                               *)
(***************************************************************************)
NameServerUp == at["driver"] # "off"

Deploy(t) ==
    /\ at[t] = "off" /\ due[t] = 0
    /\ t = "driver" \/ NameServerUp
    /\ at' = [at EXCEPT ![t] = "begin"]
    /\ UNCHANGED <<reached, tries, left, pending, registered, refused, due, slack, age>>

(***************************************************************************)
(* A task registers what it offers, or panics, and begins its next query,  *)
(* if any, with a ticker of its own on the same event as the last one.     *)
(***************************************************************************)
Begin(t) ==
    /\ at[t] = "begin"
    /\ Offers(t, reached[t]) \cap refused = {}
    /\ registered' = registered \cup Offers(t, reached[t])
    /\ IF reached[t] = Len(Goals(t))
       THEN at' = [at EXCEPT ![t] = "up"] /\ UNCHANGED <<tries, left, age>>
       ELSE /\ at' = [at EXCEPT ![t] = "try"]
            /\ tries' = [tries EXCEPT ![t] = 0]
            /\ left' = [left EXCEPT ![t] = Period]
            /\ age' = [age EXCEPT ![t] = 0]
    /\ UNCHANGED <<reached, pending, refused, due, slack>>

\* The panic stops the task's core in an endless loop (px_bsp.c, debug), and each
\* task has a core of its own.  A ticker that cannot be had ends the task so too.
RegisterFails(t) ==
    /\ at[t] = "begin"
    /\ Offers(t, reached[t]) \cap refused # {}
    /\ at' = [at EXCEPT ![t] = "panicked"]
    /\ UNCHANGED <<reached, tries, left, pending, registered, refused, due, slack, age>>

Found(t) ==
    /\ at[t] = "try"
    /\ Goal(t) \in registered
    /\ at' = [at EXCEPT ![t] = "drop"]
    /\ UNCHANGED <<reached, tries, left, pending, registered, refused, due, slack, age>>

Missing(t) ==
    /\ at[t] = "try"
    /\ Goal(t) \notin registered
    /\ tries' = [tries EXCEPT ![t] = @ + 1]
    /\ at' = [at EXCEPT ![t] = "wait"]
    /\ UNCHANGED <<reached, left, pending, registered, refused, due, slack, age>>

\* Mutant: the query ends with its last try but one.
OneTryLess(t) == tries[t] + 1 >= Tries

\* Mutant: one try more.
OneTryMore(t) == tries[t] > Tries

OutOfTries(t) == tries[t] = Tries

\* ticker.wait(), also after the last try; then the ticker is dropped.
Wait(t) ==
    /\ at[t] = "wait" /\ t \in pending
    /\ pending' = pending \ {t}
    /\ at' = [at EXCEPT ![t] = IF OutOfTries(t) THEN "gaveup" ELSE "try"]
    /\ UNCHANGED <<reached, tries, left, registered, refused, due, slack, age>>

\* Dropping the ticker leaves a tick that has come since the last wait.
Drop(t) ==
    /\ at[t] = "drop"
    /\ reached' = [reached EXCEPT ![t] = @ + 1]
    /\ at' = [at EXCEPT ![t] = "begin"]
    /\ UNCHANGED <<tries, left, pending, registered, refused, due, slack, age>>

CanGo(t) ==
    \/ at[t] \in {"begin", "try", "drop"}
    \/ at[t] = "wait" /\ t \in pending
    \/ at[t] = "off" /\ due[t] = 0 /\ (t = "driver" \/ NameServerUp)

Decrement(n) == IF n = 0 THEN 0 ELSE n - 1

Elapse ==
    /\ \A t \in Tasks : CanGo(t) => slack[t] > 0
    /\ slack' = [t \in Tasks |-> IF CanGo(t) THEN slack[t] - 1 ELSE slack[t]]
    /\ due' = [t \in Tasks |-> Decrement(due[t])]
    /\ left' = [t \in Tasks |->
                  IF Querying(t) /\ left[t] = 1 THEN Period ELSE Decrement(left[t])]
    /\ pending' = pending \cup {t \in Tasks : Querying(t) /\ left[t] = 1}
    /\ age' = [t \in Tasks |->
                  IF Querying(t) /\ age[t] < Tries * Period THEN age[t] + 1 ELSE age[t]]
    /\ UNCHANGED <<at, reached, tries, registered, refused>>

Go(t) ==
    \/ Deploy(t) \/ Begin(t) \/ RegisterFails(t)
    \/ Found(t) \/ Missing(t) \/ Wait(t) \/ Drop(t)

Next == (\E t \in Tasks : Go(t)) \/ Elapse

Spec == Init /\ [][Next]_vars

\* Time passes and no task is held up for ever.
FairSpec == Spec /\ WF_vars(Elapse) /\ \A t \in Tasks : WF_vars(Go(t))
=============================================================================
