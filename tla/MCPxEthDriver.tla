---------------------------- MODULE MCPxEthDriver ----------------------------
(* Instances of PxEthDriver for TLC: which faults may occur. *)
EXTENDS PxEthDriverProperties

NoFaults == {}
Link == {"link"}
Slow == {"slow"}
AllFaults == FaultKinds
=============================================================================
