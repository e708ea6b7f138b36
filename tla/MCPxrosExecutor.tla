--------------------------- MODULE MCPxrosExecutor ---------------------------
(* Instances of PxrosExecutor for TLC: which awaits the bodies perform. *)
EXTENDS PxrosExecutorProperties

E(s) == [kind |-> "event", events |-> s]
S(s) == [kind |-> "select", events |-> s]
M == [kind |-> "message", events |-> {}]
Y == [kind |-> "yield", events |-> {}]

BitsAB == {"a", "b"}
BitsABC == {"a", "b", "c"}
BitsA == {"a"}

\* Every task awaits the event a and yields.
AwaitsEvents1 == [t \in Tasks |-> {E({"a"}), Y}]

\* One task awaits messages, the others yield or await the event.
AwaitsOneReader == [t \in Tasks |-> IF t = 1 THEN {M, E({"a"})} ELSE {E({"a"}), Y}]

\* One task selects between an event and a message, as in ex3_3.rs.
AwaitsSelect == [t \in Tasks |-> IF t = 1 THEN {S({"a"}), E({"a"})} ELSE {E({"b"}), Y, M}]

\* Everything at once: composite masks, selects, messages, yields, an
\* event outside E::all().
AwaitsMixed == [t \in Tasks |->
    IF t = 1 THEN {S({"a"}), E({"a", "b"}), E({"b"})} ELSE {E({"a"}), E({"c"}), M, Y}]

\* One task awaits two events at once.
AwaitsComposite == [t \in Tasks |-> {E({"a", "b"})}]
=============================================================================
