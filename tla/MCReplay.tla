------------------------------ MODULE MCReplay ------------------------------
(* Recordings of up to three calls, replayed with other settings. *)
EXTENDS ReplayInvariant, TLC

\* Every order of answers, up to the third iteration.
TwoOrThree == {2, 3}

Settings == Permutations(Prompt) \union Permutations(Sampling)
=============================================================================
