---------------------------- MODULE MCFleetDrain ----------------------------
(* A small fleet that runs for ever. *)
EXTENDS FleetDrain

OneJob  == {1}
Budget2 == [j \in Job |-> 2]
=============================================================================
