----------------------------- MODULE FleetDrain -----------------------------
(***************************************************************************)
(* The fleet running for ever, to ask what must eventually happen.  Once   *)
(* the clock is at MaxClock time goes on by ageing: every timestamp that a *)
(* statement compares with the clock moves one tick into the past instead  *)
(* of the clock moving on.  Timestamps in the attempt log and the results  *)
(* are compared with nothing here and are left alone.                      *)
(***************************************************************************)
EXTENDS Fleet

CONSTANTS
    Reliable,  \* workers that are never killed and never stop
    MaxFaults  \* bounds the kills, dropped connections and cancel requests

ASSUME ReliableAssumption == Reliable \subseteq Worker
ASSUME FaultAssumption    == MaxFaults \in Nat

VARIABLE faults  \* how many there have been

drainVars == <<vars, faults>>

\* A deadline comes one tick closer, until it has passed.
Closer(time) == IF time \in {Null, 0} THEN time ELSE time - 1

\* A clock reading becomes one tick older, down to a time before any deadline.
LongAgo == Null - 1
Older(time) == IF time \in {Null, LongAgo} THEN time
               ELSE IF time = 0 THEN LongAgo ELSE time - 1

AgedRow(row) == [row EXCEPT !.lease_expires_at = Closer(row.lease_expires_at),
                            !.available_at = Closer(row.available_at)]

Aged(t) == [t EXCEPT !.rows = [j \in DOMAIN t.rows |-> AgedRow(t.rows[j])]]

Age ==
    /\ clock = MaxClock
    /\ jobs'    = [j \in Job |-> AgedRow(jobs[j])]
    /\ open'    = {Aged(t) : t \in open}
    /\ workers' = [w \in Worker |->
                     [workers[w] EXCEPT !.asked = Older(workers[w].asked)]]
    /\ UNCHANGED <<clock, attempts, results>>

Time == Tick \/ Age

\* What may happen only so often; the rest goes on for ever.
Counted ==
    \/ \E w \in Worker : Drop(w)
    \/ \E w \in Worker \ Reliable : Crash(w)
    \/ \E j \in Cancellable : Cancel(j)

Uncounted ==
    \/ \E w \in Worker : WorkerStep(w) \/ Restart(w)
    \/ \E t \in open : LateCommit(t) \/ Rollback(t)
    \/ Time

DrainNext ==
    \/ Counted /\ faults < MaxFaults /\ faults' = faults + 1
    \/ Uncounted /\ UNCHANGED faults

Free(A) == A /\ UNCHANGED faults

\* Postgres ends a session idle in a transaction for a lease (worker.py,
\* worker_engine): a worker's transaction commits, or it is dropped.
SessionEnds(w) ==
    \/ Free(\E t \in open : Commit(w, t))
    \/ Drop(w) /\ faults < MaxFaults /\ faults' = faults + 1

\* So does a session whose process is gone or cut off.
AbandonedEnds == Free(\E t \in open : LateCommit(t) \/ Rollback(t))

\* Of the workers that may stop, only that nothing stays in a transaction and
\* that no run goes on for ever: a task has a wall clock (policy.py).
Fairness ==
    /\ WF_drainVars(Free(Time))
    /\ WF_drainVars(AbandonedEnds)
    /\ \A w \in Worker : WF_drainVars(SessionEnds(w)) /\ SF_drainVars(Free(RunEnds(w)))
    /\ \A w \in Reliable : WF_drainVars(Free(WorkerStep(w)))

DrainSpec == Init /\ faults = 0 /\ [][DrainNext]_drainVars /\ Fairness

\* Nothing is lost: every job reaches a final state (worker.py's claims and
\* reaps, store.py's retry budget), though sessions freeze with row locks held
\* and every worker but one may be killed, or stop for good, at any point.
EveryJobEnds == \A j \in Job : <>(jobs[j].state \in FinalStates)

\* A cancel lands: a job whose cancel is on its row ends cancelled, whether
\* its worker hears of it, fails, dies or goes silent.
CancelLands ==
    \A j \in Job :
        (jobs[j].cancel_requested_at # Null) ~> (jobs[j].state = "cancelled")
=============================================================================
