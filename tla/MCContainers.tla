---------------------------- MODULE MCContainers ----------------------------
(* A few attempts in containers. *)
EXTENDS ContainersInvariant, TLC

Attempts == Permutations(Attempt)

EveryExit == Reports
AnyExit   == {[report |-> "none", oom_killed |-> FALSE]}
=============================================================================
