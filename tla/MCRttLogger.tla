----------------------------- MODULE MCRttLogger -----------------------------
(***************************************************************************)
(* The instance for TLC: two tasks of one core, the second more urgent, and*)
(* one of another core.                                                    *)
(***************************************************************************)
EXTENDS RttLoggerProperties

CONSTANTS t1, t2, t3

MCTasks == {t1, t2, t3}
MCCore == [t \in MCTasks |-> IF t = t3 THEN 2 ELSE 1]
MCPrio == [t \in MCTasks |-> IF t = t2 THEN 10 ELSE 25]
=============================================================================
