-------------------------- MODULE StartupProperties ---------------------------
(***************************************************************************)
(* What the start of the UDP example (Startup.tla) must and must not do.   *)
(***************************************************************************)
EXTENDS Startup

TypeOK ==
    /\ at \in [Tasks -> {"off", "begin", "try", "wait", "drop", "up", "gaveup",
                      "panicked"}]
    /\ reached \in [Tasks -> 0..2]
    /\ \A t \in Tasks : reached[t] <= Len(Goals(t))
    /\ tries \in [Tasks -> 0..Tries]
    /\ left \in [Tasks -> 0..Period]
    /\ pending \subseteq Tasks
    /\ registered \subseteq Services /\ refused \subseteq Services
    /\ due \in [Tasks -> 0..Skew] /\ slack \in [Tasks -> 0..Slack]
    /\ age \in [Tasks -> 0..(Tries * Period)]

(***************************************************************************)
(* While the cores boot at most Skew apart, no query gives up what comes   *)
(* to be registered, though a tick left over from the query before costs   *)
(* it a try.  What a task offers only after a goal it cannot reach does not*)
(* come to be registered.                                                  *)
(***************************************************************************)
Unavailable ==
    refused \cup {s \in Services :
                    \E t \in Tasks : \E n \in 1..Len(Goals(t)) :
                        s \in Offers(t, n) /\ \E k \in 1..n : Goals(t)[k] \in refused}

NobodyGivesUp == \A t \in Tasks : at[t] = "gaveup" => Goal(t) \in Unavailable

(***************************************************************************)
(* A query that gives up has waited for its full time (service.rs: up to   *)
(* one second) but for one period, which a left-over tick may cost.        *)
(***************************************************************************)
GivesUpLate == \A t \in Tasks : at[t] = "gaveup" => age[t] >= (Tries - 1) * Period

(***************************************************************************)
(* Every task comes up, whichever core boots first, unless what it offers  *)
(* or waits for could not be registered.                                   *)
(***************************************************************************)
EverybodyComesUp ==
    \A t \in Tasks :
        <>(at[t] \in {"up", "panicked"} \/ (at[t] = "gaveup" /\ Goal(t) \in Unavailable))
=============================================================================
