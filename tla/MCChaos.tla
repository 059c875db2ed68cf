------------------------------ MODULE MCChaos -------------------------------
(* Small fleets under every scenario of the fault injection harness. *)
EXTENDS ChaosInvariant, TLC

OneJob   == {1}
Budget2  == [j \in Job |-> 2]
Everything == DOMAIN SCENARIOS
Workers  == Permutations(Worker \ {Ghost})
=============================================================================
