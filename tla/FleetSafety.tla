---------------------------- MODULE FleetSafety -----------------------------
(***************************************************************************)
(* What the fleet must keep true at every step, whatever drops, dies or    *)
(* arrives late.                                                           *)
(***************************************************************************)
EXTENDS Fleet, RunChecker

\* The run checker (invariants.py, check) would pass every job as soon as it
\* is final, not only once the run has drained: one result from the attempt
\* entitled to write it, a gapless attempt log that adds up, no budget overrun.
FinalJobsPassCheck ==
    CheckJobs({j \in Job : jobs[j].state \in FinalStates})

\* Mid-run, where the checker does not look: at every moment a job has one
\* result, the one its row points at, if it ended with an outcome, and none if
\* not, though publishes are repeated and commit late (store.py, publish).
OneResultPerJob == \A j \in Job : OneResult(j)

\* Mid-run too, attempts never overlap and every one but the latest was given
\* back (store.py's claim, release and reap serialise on the job row).
UnfinishedJobsAreClean ==
    \A j \in Job : jobs[j].state \in Unfinished =>
        /\ NoOverlap(j)
        /\ Log(j) = 1 .. jobs[j].attempt
        /\ \A a \in Log(j) :
             a < jobs[j].attempt => attempts[<<j, a>>].ended_by \in RetryEndings

\* A cancel wins over anything that had not landed yet (store.py's publish,
\* release and reap): once a request is on the row the job can only end
\* cancelled, and is never queued again.
CancelWins ==
    \A j \in Job : jobs[j].cancel_requested_at # Null =>
        jobs[j].state \in LeasedStates \union {"cancelled"}

\* No write the store is about to commit breaks a table constraint of the
\* migrations, so no call dies of one: neither the row checks, nor the
\* attempts' primary key, nor one result per job.
ConstraintsNeverFire ==
    \A t \in open :
        /\ \A j \in DOMAIN t.rows : JobChecks(j, t.rows[j])
        /\ \A k \in DOMAIN t.logs : AttemptChecks(t.logs[k])
        /\ \A j \in DOMAIN t.rows :
             t.rows[j].attempt > jobs[j].attempt =>
                attempts[<<j, t.rows[j].attempt>>] = NoAttempt
        /\ \A r \in t.stored : ResultsOf(r.job_id) = {}

\* A worker's counters tell the truth (worker.py, step) and stay true, though
\* sessions it gave up on may still commit: a published result is stored, a
\* rejected one never is, a cancelled job is cancelled, a released attempt
\* was given back.
ReportsAreTrue ==
    \A w \in Worker :
        LET j == JobOf(w)
            a == AttemptOf(w)
            mine == {r \in results : r.job_id = j /\ r.attempt = a}
        IN  CASE workers[w].report = "published" -> \E r \in mine : r.worker_id = w
              [] workers[w].report = "rejected"  -> mine = {}
              [] workers[w].report = "cancelled" -> jobs[j].state = "cancelled"
              [] workers[w].report = "released"  -> EndedBy(j, a, "released")
              [] OTHER -> TRUE

\* The store is append-only (design.md, the attempt log): a final job, a
\* result, and an ended attempt but for the execution recorded with it, are
\* never written again, whatever commits late.
HistoryIsKept ==
    [][ /\ \A j \in Job : jobs[j].state \in FinalStates => jobs'[j] = jobs[j]
        /\ \A k \in Job \X AttemptNo :
             attempts[k].ended_by # NotEnded =>
                [attempts'[k] EXCEPT !.execution = FALSE]
                    = [attempts[k] EXCEPT !.execution = FALSE]
        /\ results \subseteq results' ]_vars

-----------------------------------------------------------------------------
(* The abstract queue, seen in the committed rows.                         *)

Queue == INSTANCE JobQueue WITH
    Budget  <- MaxAttempts,
    status  <- [j \in Job |-> IF jobs[j].state \in LeasedStates
                              THEN "held" ELSE jobs[j].state],
    tries   <- [j \in Job |-> jobs[j].attempt],
    wanted  <- [j \in Job |-> jobs[j].cancel_requested_at # Null],
    answers <- {[job |-> r.job_id, try |-> r.attempt, outcome |-> r.outcome] :
                r \in results}

\* The fleet implements the queue: every commit, answered or late, of a claim,
\* a publish, a release, a reap or a cancel (store.py) is one step of it or
\* none, and every other step none.
ImplementsQueue == Queue!Spec

-----------------------------------------------------------------------------
\* design.md: a job is given back, or ended as cancelled, only if the attempt's
\* lease is live, checked under the job's row lock: when release or
\* finish_cancelled (store.py) takes the lock, the lease is live.
EndingsAreLiveWhenLocked ==
    [][ \A w \in Worker :
          (EndWaited(w) /\ open' # open) => HeldLive(RowOf(w), AttemptOf(w), clock) ]_vars

=============================================================================
