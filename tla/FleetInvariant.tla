--------------------------- MODULE FleetInvariant ---------------------------
(***************************************************************************)
(* Why the fleet is safe: an inductive invariant.  A row version is sound  *)
(* by itself, committed or still pending; a pending version is of a row    *)
(* its transaction alone has locked and that was unfinished when it did;   *)
(* and a pending result travels with the row version that points at it.    *)
(***************************************************************************)
EXTENDS FleetSafety

\* A version of a job's row that some call could have written.
RowSound(j, row) ==
    /\ JobChecks(j, row)
    /\ row.state = "queued" => /\ row.attempt < MaxAttempts[j]
                               /\ row.cancel_requested_at = Null
    /\ row.state \notin {"queued", "cancelled"} => row.attempt >= 1
    /\ row.cancel_requested_at # Null => row.state \in LeasedStates \union {"cancelled"}

CommittedSound == \A j \in Job : RowSound(j, jobs[j])

\* What t is about to write, and that the rows it locked are unfinished.
TxnSound(t) ==
    /\ \A j \in DOMAIN t.rows :
         /\ RowSound(j, t.rows[j])
         /\ jobs[j].state \in Unfinished
         /\ t.owner \in Worker => t.rows[j].attempt \in AttemptNo
         /\ t.rows[j].state \in ResultStates =>
              \E r \in t.stored : t.stored = {r} /\ r.job_id = j
    /\ \A r \in t.stored :
         /\ r.job_id \in DOMAIN t.rows
         /\ t.rows[r.job_id].state = r.outcome
         /\ t.rows[r.job_id].result_id = r.attempt

PendingSound == \A t \in open : TxnSound(t)

\* No row is locked twice.
LocksExclude ==
    \A t, u \in open : (\E j \in Job : j \in DOMAIN t.rows /\ j \in DOMAIN u.rows) => t = u

\* A worker past its claim has a job and an attempt number, and one that is
\* past its run has what the run came to.
HoldsJob == {"start", "running", "heartbeat", "record", "publish", "release",
             "finish_cancelled", "job_status"}

WorkerSound(w) ==
    /\ workers[w].pc \in HoldsJob =>
         workers[w].job \in Job /\ workers[w].attempt \in AttemptNo
    /\ workers[w].pc = "publish" => workers[w].result \in Outcomes
    /\ workers[w].pc = "record" => workers[w].result \in Outcomes \union {RunnerError}

WorkersSound == \A w \in Worker : WorkerSound(w)

\* The inductive invariant: every call of store.py writes only sound versions
\* of rows that it alone holds, so its commit, however late, is safe.
IndInv ==
    /\ TypeOK
    /\ CommittedSound
    /\ PendingSound
    /\ LocksExclude
    /\ WorkersSound
    /\ OneResultPerJob
=============================================================================
