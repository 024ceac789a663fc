---------------------------- MODULE MCUnaryCalls ----------------------------
(* An instance of UnaryCalls: two replicas with the same nid, the second    *)
(* still to register, and calls of one service.                             *)
EXTENDS UnaryCalls

MCTarget == [c \in Calls |-> <<"nid", CHOOSE s \in Services : TRUE>>]
MCNid == [r \in Replicas |-> "nid"]
=============================================================================
