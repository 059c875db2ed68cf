---------------------------- MODULE MCSubmission ----------------------------
(* Two clients, who may share a key, over every pair of batches.            *)
EXTENDS SubmissionInvariant, TLC

Modest == [limits |-> [cpus |-> 1], egress |-> {}]
Online == [limits |-> [cpus |-> 1], egress |-> {"model"}]
Greedy == [limits |-> [cpus |-> 3], egress |-> {}]

MCAsks ==
    {[key |-> k, label |-> "batch", jobs |-> 2, policy |-> p] :
        k \in {"k1", NoKey}, p \in {Modest, Online, Greedy}}
MCCeilings == [cpus |-> 2]
Clients    == Permutations(Client)
=============================================================================
