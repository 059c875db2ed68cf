------------------------------ MODULE JobQueue ------------------------------
(***************************************************************************)
(* What the fleet promises of a job, with no leases, sessions, workers or  *)
(* clock: it is held by one attempt at a time, within its budget of tries; *)
(* it ends once; a result appears exactly when it ends with an outcome,    *)
(* from the try that held it; and a cancel that is asked for before the    *)
(* end is the end.  Fleet implements it.                                   *)
(***************************************************************************)
EXTENDS Integers

CONSTANTS Job, Budget, Outcomes

VARIABLES
    status,  \* "queued", "held", an outcome, "dead_lettered" or "cancelled"
    tries,   \* how often the job was taken from the queue
    wanted,  \* whether a cancel was asked for while it could be
    answers  \* results: which job, from which try, with which outcome

queueVars == <<status, tries, wanted, answers>>

Init ==
    /\ status  = [j \in Job |-> "queued"]
    /\ tries   = [j \in Job |-> 0]
    /\ wanted  = [j \in Job |-> FALSE]
    /\ answers = {}

Take(j) ==
    /\ status[j] = "queued"
    /\ tries[j] < Budget[j]
    /\ status' = [status EXCEPT ![j] = "held"]
    /\ tries'  = [tries EXCEPT ![j] = tries[j] + 1]
    /\ UNCHANGED <<wanted, answers>>

Finish(j, outcome) ==
    /\ status[j] = "held"
    /\ ~wanted[j]
    /\ status'  = [status EXCEPT ![j] = outcome]
    /\ answers' = answers \union {[job |-> j, try |-> tries[j], outcome |-> outcome]}
    /\ UNCHANGED <<tries, wanted>>

\* Where a try that came to nothing leaves its job.
Leftover(j) ==
    IF wanted[j] THEN "cancelled"
    ELSE IF tries[j] < Budget[j] THEN "queued" ELSE "dead_lettered"

\* Several tries may come to nothing at once: one reap ends them all.
GiveBack(S) ==
    /\ \A j \in S : status[j] = "held"
    /\ status' = [j \in Job |-> IF j \in S THEN Leftover(j) ELSE status[j]]
    /\ UNCHANGED <<tries, wanted, answers>>

AskCancel(j) ==
    /\ status[j] \in {"queued", "held"}
    /\ wanted' = [wanted EXCEPT ![j] = TRUE]
    /\ status' = [status EXCEPT ![j] = IF status[j] = "queued" THEN "cancelled" ELSE "held"]
    /\ UNCHANGED <<tries, answers>>

Next ==
    \/ \E j \in Job : Take(j) \/ AskCancel(j) \/ \E o \in Outcomes : Finish(j, o)
    \/ \E S \in SUBSET Job : GiveBack(S)

Spec == Init /\ [][Next]_queueVars
=============================================================================
