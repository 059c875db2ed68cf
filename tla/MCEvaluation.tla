---------------------------- MODULE MCEvaluation ----------------------------
(* Two processes, one of which may serve the tracker. *)
EXTENDS EvaluationInvariant

TwoTasks == 1 .. 2
Kept     == {1}

\* Solved on the last step; a provider that failed after a slow command; a
\* finish that was wrong.
Results == { [solved |-> TRUE,  reason |-> "max_iterations", timed_out |-> FALSE, sandbox_error |-> FALSE],
             [solved |-> FALSE, reason |-> "provider_error", timed_out |-> TRUE,  sandbox_error |-> FALSE],
             [solved |-> FALSE, reason |-> "finished",       timed_out |-> FALSE, sandbox_error |-> FALSE] }

\* A ticket to resolve, and the one that carries an injection.
Cases == << [expects |-> "resolve",  adversarial |-> FALSE, canaries |-> FALSE],
            [expects |-> "escalate", adversarial |-> TRUE,  canaries |-> TRUE] >>

Commands == [runs |-> 3, reports |-> 3, tickets |-> 6]
=============================================================================
