------------------------------ MODULE MCFleet -------------------------------
(* Small fleets for TLC. *)
EXTENDS FleetLedger, TLC

OneJob   == {1}
TwoJobs  == {1, 2}
Mixed    == [j \in Job |-> IF j = 1 THEN 1 ELSE 2]
Budget2  == [j \in Job |-> 2]
Workers  == Permutations(Worker)
=============================================================================
