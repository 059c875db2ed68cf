---------------------------- MODULE FleetLedger -----------------------------
(***************************************************************************)
(* Why the fleet's records are true: a second inductive invariant, over    *)
(* IndInv.  A job's row and its attempt rows tell one story, as committed  *)
(* and as each transaction would leave them; a transaction moves its rows  *)
(* the way the abstract queue allows, and keeps an attempt row it found    *)
(* but for its lease and its end; and what a worker holds, reports or is   *)
(* about to store is what the tables say of its latest claim.              *)
(***************************************************************************)
EXTENDS FleetInvariant

-----------------------------------------------------------------------------
(* A job's row and its attempts.                                           *)

\* The attempt rows of j, as committed and as t would leave them.
Logs(j) == [a \in AttemptNo |-> attempts[<<j, a>>]]

LogsAfter(t, j) ==
    [a \in AttemptNo |-> IF <<j, a>> \in DOMAIN t.logs
                         THEN t.logs[<<j, a>>] ELSE attempts[<<j, a>>]]

\* How the latest attempt stands, given the job's state.
LatestSound(row, log) ==
    /\ row.state \in LeasedStates => /\ log.ended_by = NotEnded
                                     /\ log.lease_expires_at = row.lease_expires_at
    /\ row.state \in {"queued", "dead_lettered"} => log.ended_by \in RetryEndings
    /\ row.state \in ResultStates => log.ended_by = "published"
    /\ row.state = "cancelled" => log.ended_by \in RetryEndings \union {"cancelled"}

\* One attempt row: an attempt is ended in time and not in the future.
LogSound(log, now) ==
    /\ AttemptChecks(log)
    /\ log.ended_at <= now
    /\ log.ended_by # NotEnded => EndedInTime(log)

\* The attempts up to the row's number were claimed, each when the one
\* before had been given back, and no others.
LedgerSound(row, log, now) ==
    \A a \in AttemptNo :
        /\ LogSound(log[a], now)
        /\ a > row.attempt => log[a] = NoAttempt
        /\ a <= row.attempt => log[a].claimed_at # Null
        /\ a < row.attempt => /\ log[a].ended_by \in RetryEndings
                              /\ log[a].ended_at <= log[a + 1].claimed_at
        /\ a = row.attempt => LatestSound(row, log[a])

\* How a final state came about.
EndSound(j, row) ==
    /\ row.state \in ResultStates => row.result_id = row.attempt
    /\ row.state = "dead_lettered" => /\ row.attempt >= MaxAttempts[j]
                                      /\ row.cancel_requested_at = Null
    /\ row.state = "cancelled" => row.cancel_requested_at # Null

\* A result was written by its attempt's holder, in its lease, ending it.
ResultSound(r, log) ==
    /\ log[r.attempt].worker_id = r.worker_id
    /\ log[r.attempt].ended_by = "published"
    /\ log[r.attempt].ended_at = r.published_at
    /\ r.published_at < log[r.attempt].lease_expires_at

RecordsSound ==
    /\ \A j \in Job : LedgerSound(jobs[j], Logs(j), clock) /\ EndSound(j, jobs[j])
    /\ \A r \in results : ResultSound(r, Logs(r.job_id))

-----------------------------------------------------------------------------
(* Transactions.                                                           *)

\* What a transaction makes of a committed row: takes it from the queue, keeps
\* it held, asks to cancel it, ends it with an outcome, or gives it back.
Takes(row, new) ==
    /\ row.state = "queued" /\ new.state \in LeasedStates
    /\ new.attempt = row.attempt + 1
    /\ new.cancel_requested_at = row.cancel_requested_at

Keeps(row, new) ==
    /\ row.state \in LeasedStates /\ new.state \in LeasedStates
    /\ new.attempt = row.attempt
    /\ new.cancel_requested_at = row.cancel_requested_at

AsksCancel(row, new) ==
    /\ row.state \in Unfinished
    /\ new.state = IF row.state = "queued" THEN "cancelled" ELSE row.state
    /\ new.attempt = row.attempt
    /\ new.cancel_requested_at # Null

Finishes(row, new) ==
    /\ row.state \in LeasedStates /\ new.state \in Outcomes
    /\ new.attempt = row.attempt
    /\ row.cancel_requested_at = Null /\ new.cancel_requested_at = Null

GivesBack(j, row, new) ==
    /\ row.state \in LeasedStates
    /\ new.state = IF row.cancel_requested_at # Null THEN "cancelled"
                   ELSE IF row.attempt < MaxAttempts[j] THEN "queued"
                   ELSE "dead_lettered"
    /\ new.attempt = row.attempt
    /\ new.cancel_requested_at = row.cancel_requested_at

\* Only a reap moves more than one row.
Moves(t) ==
    \/ /\ \A j \in DOMAIN t.rows : GivesBack(j, jobs[j], t.rows[j])
       /\ t.stored = {}
    \/ \E j \in Job :
         /\ DOMAIN t.rows = {j}
         /\ \/ /\ Takes(jobs[j], t.rows[j]) \/ Keeps(jobs[j], t.rows[j])
                  \/ AsksCancel(jobs[j], t.rows[j])
               /\ t.stored = {}
            \/ /\ Finishes(jobs[j], t.rows[j])
               /\ \E r \in t.stored : /\ t.stored = {r}
                                      /\ r.job_id = j
                                      /\ r.attempt = t.rows[j].attempt
                                      /\ r.outcome = t.rows[j].state

\* A transaction writes the attempt row of its version's number, which had
\* not ended, and leaves its holder.
WritesLatest(t) ==
    \A k \in DOMAIN t.logs :
        /\ k[1] \in DOMAIN t.rows
        /\ k[2] = t.rows[k[1]].attempt
        /\ attempts[k].ended_by = NotEnded
        /\ attempts[k].claimed_at # Null => t.logs[k].worker_id = attempts[k].worker_id

LeavesRecords(t) ==
    /\ \A j \in DOMAIN t.rows :
         LedgerSound(t.rows[j], LogsAfter(t, j), clock) /\ EndSound(j, t.rows[j])
    /\ \A r \in t.stored : ResultSound(r, LogsAfter(t, r.job_id))

TxnsSound == \A t \in open : Moves(t) /\ WritesLatest(t) /\ LeavesRecords(t)

-----------------------------------------------------------------------------
(* Workers.                                                                *)

\* What a worker awaits is the call it is at, and that alone.
AwaitedSound(w, t) ==
    LET j  == JobOf(w)
        k  == <<JobOf(w), AttemptOf(w)>>
        pc == workers[w].pc
    IN  /\ pc # "publish" => t.stored = {}
        /\ pc \in {"claim", "reclaim"} =>
             \A i \in DOMAIN t.rows :
                /\ <<i, t.rows[i].attempt>> \in DOMAIN t.logs
                /\ t.logs[<<i, t.rows[i].attempt>>].worker_id = w
        /\ pc = "publish" =>
             /\ j \in DOMAIN t.rows
             /\ \A r \in t.stored : r.job_id = j /\ r.attempt = k[2] /\ r.worker_id = w
        /\ pc = "release" =>
             k \in DOMAIN t.logs /\ t.logs[k].ended_by = "released"
        /\ pc = "finish_cancelled" =>
             j \in DOMAIN t.rows /\ t.rows[j].state = "cancelled"

CallsSound ==
    /\ \A t \in open : t.owner \in Worker => AwaitedSound(t.owner, t)
    /\ \A t, u \in open : t.owner = u.owner /\ t.owner \in Worker => t = u

\* Every result that is stored or may yet be.
Written == results \union UNION {t.stored : t \in open}

\* The results of w's latest claim: none before it publishes, then only the
\* one it publishes, and none again if it had to stop.
WorkerLedger(w) ==
    LET j == JobOf(w)
        a == AttemptOf(w)
        mine == {r \in Written : r.job_id = j /\ r.attempt = a}
    IN  /\ j \in Job =>
             /\ a \in AttemptNo /\ a <= jobs[j].attempt
             /\ attempts[<<j, a>>].worker_id = w
             /\ workers[w].pc # "publish" /\ workers[w].report # "published" => mine = {}
             /\ workers[w].pc = "publish" => \A r \in mine : r.outcome = workers[w].result
        /\ workers[w].asked <= clock
        /\ workers[w].report # "none" => j \in Job
        /\ workers[w].pc \in HoldsJob => workers[w].report = "none"

\* The inductive invariant: whatever commits, and whenever, every table and
\* every counter goes on telling the same story.
LedgerInv ==
    /\ IndInv
    /\ RecordsSound
    /\ TxnsSound
    /\ CallsSound
    /\ \A w \in Worker : WorkerLedger(w)
    /\ ReportsAreTrue

=============================================================================
