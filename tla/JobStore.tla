------------------------------ MODULE JobStore ------------------------------
(***************************************************************************)
(* The fleet's job store (backend/fleet/store.py and its migrations): the  *)
(* three tables it keeps in Postgres, the transactions open on them, and   *)
(* what each store call writes.                                            *)
(*                                                                         *)
(* A call runs its statements against the committed rows, locks the job    *)
(* rows it changes, and holds the new row versions until it commits: an    *)
(* element of `open' is such a transaction, its write set and all.  The    *)
(* module says which rows a call may take and what it writes to them; who  *)
(* makes the calls, and what becomes of the answers, is in Fleet.          *)
(***************************************************************************)
EXTENDS Integers

CONSTANTS
    Job,          \* job ids, numbers: a claim takes the lowest
    Worker,       \* worker processes, by worker_id
    NoWorker,     \* the owner of a session nobody waits on any more
    Outcomes,     \* the outcomes runs come to
    MaxAttempts,  \* each job's max_attempts, fixed by its batch
    MaxBudget,    \* a bound on all of them
    Lease,        \* lease_seconds
    Backoff,      \* RetryPolicy.backoff_seconds
    BackoffCap    \* RetryPolicy.backoff_cap_seconds

ASSUME JobAssumption      == Job \subseteq Nat
ASSUME WorkerAssumption   == NoWorker \notin Worker
ASSUME OutcomeAssumption  == Outcomes \subseteq {"succeeded", "failed", "escalated"}
ASSUME BudgetAssumption   == /\ MaxBudget \in Nat
                             /\ MaxAttempts \in [Job -> 1 .. MaxBudget]
ASSUME LeaseAssumption    == Lease \in Nat \ {0}
ASSUME BackoffAssumption  == Backoff \in Nat /\ BackoffCap \in Nat

VARIABLES
    clock,     \* Postgres's clock_timestamp()
    jobs,      \* fleet_jobs, by id
    attempts,  \* fleet_attempts, by (job_id, attempt)
    results,   \* fleet_results
    open       \* transactions that hold row locks and have not committed

storeVars == <<clock, jobs, attempts, results, open>>

-----------------------------------------------------------------------------
(* The rows.  Columns nothing branches on (names, payloads, errors, the    *)
(* other timestamps) are left out.  A result's identity column is its      *)
(* attempt's number, and its outcome stands for outcome and body both.     *)

Null          == -1
LeasedStates  == {"claimed", "running"}
Unfinished    == {"queued"} \union LeasedStates
ResultStates  == {"succeeded", "failed", "escalated"}
FinalStates   == ResultStates \union {"dead_lettered", "cancelled"}
Endings       == {"published", "lease_expired", "released", "cancelled"}
NotEnded      == "not ended"

AttemptNo == 1 .. MaxBudget

JobRow ==
    [state               : Unfinished \union FinalStates,
     attempt             : 0 .. MaxBudget,
     lease_expires_at    : Nat \union {Null},
     available_at        : Int,
     cancel_requested_at : Nat \union {Null},
     result_id           : AttemptNo \union {Null}]

AttemptRow ==
    [worker_id        : Worker \union {NoWorker},
     claimed_at       : Nat \union {Null},
     lease_expires_at : Nat \union {Null},
     ended_at         : Nat \union {Null},
     ended_by         : Endings \union {NotEnded},
     execution        : BOOLEAN]

\* An attempt number the table has no row for.
NoAttempt ==
    [worker_id |-> NoWorker, claimed_at |-> Null, lease_expires_at |-> Null,
     ended_at |-> Null, ended_by |-> NotEnded, execution |-> FALSE]

ResultRow ==
    [job_id : Job, attempt : AttemptNo, worker_id : Worker,
     published_at : Nat, outcome : ResultStates]

\* A transaction: the worker awaiting its answer, the job rows it has locked
\* with their new versions, and the attempt and result rows it has written.
Txn(owner, rows, logs, stored) ==
    [owner |-> owner, rows |-> rows, logs |-> logs, stored |-> stored]

StoreInit ==
    /\ clock    = 0
    /\ jobs     = [j \in Job |->
                     [state |-> "queued", attempt |-> 0,
                      lease_expires_at |-> Null, available_at |-> 0,
                      cancel_requested_at |-> Null, result_id |-> Null]]
    /\ attempts = [k \in Job \X AttemptNo |-> NoAttempt]
    /\ results  = {}
    /\ open     = {}

-----------------------------------------------------------------------------
(* Row locks.  Only job rows are locked by more than one kind of call, so  *)
(* an attempt row's lock matters to record_execution alone.                *)

\* Broken: rows are taken whoever holds them.
UnlockedAlways(j) == TRUE

Unlocked(j)    == \A t \in open : j \notin DOMAIN t.rows
LogUnlocked(k) == \A t \in open : k \notin DOMAIN t.logs

-----------------------------------------------------------------------------
(* What the statements test and write.                                     *)

Held(row, a)      == row.attempt = a /\ row.state \in LeasedStates
HeldLive(row, a, at) == Held(row, a) /\ row.lease_expires_at > at
\* Broken: reaped one tick early; and reaped only once running.
LapsedEarly(row, at)   == row.state \in LeasedStates /\ row.lease_expires_at <= at + 1
LapsedRunning(row, at) == row.state = "running" /\ row.lease_expires_at <= at

Lapsed(row, at)   == row.state \in LeasedStates /\ row.lease_expires_at <= at
Claimable(row, at) == row.state = "queued" /\ row.available_at <= at

\* Broken: the fencing token is not taken anew.
ClaimedAgain(row, at) ==
    [row EXCEPT !.state = "claimed",
                !.attempt = IF row.attempt = 0 THEN 1 ELSE row.attempt,
                !.lease_expires_at = at + Lease]

Claimed(row, at) ==
    [row EXCEPT !.state = "claimed", !.attempt = row.attempt + 1,
                !.lease_expires_at = at + Lease]

Opened(w, at) ==
    [NoAttempt EXCEPT !.worker_id = w, !.claimed_at = at,
                      !.lease_expires_at = at + Lease]

\* _end_attempts' wait before a retry, doubling from a base to a cap.
Delay(a) ==
    LET doubled == Backoff * 2^(a - 1)
    IN  IF doubled < BackoffCap THEN doubled ELSE BackoffCap

\* Broken: the cancel request is forgotten; and the budget is.
RetriedUnheard(j, row)   == row.attempt < MaxAttempts[j]
RetriedUnbounded(j, row) == row.cancel_requested_at = Null

Retried(j, row) ==
    row.cancel_requested_at = Null /\ row.attempt < MaxAttempts[j]

\* Broken: a job that is not retried is always a dead letter.
GivenBackUnheard(j, row, at) ==
    IF Retried(j, row)
    THEN [row EXCEPT !.state = "queued", !.lease_expires_at = Null,
                     !.available_at = at + Delay(row.attempt)]
    ELSE [row EXCEPT !.state = "dead_lettered", !.lease_expires_at = Null]

\* _end_attempts on a job row: back to the queue, or a final state.
GivenBack(j, row, at) ==
    IF Retried(j, row)
    THEN [row EXCEPT !.state = "queued", !.lease_expires_at = Null,
                     !.available_at = at + Delay(row.attempt)]
    ELSE [row EXCEPT !.state = IF row.cancel_requested_at # Null
                               THEN "cancelled" ELSE "dead_lettered",
                     !.lease_expires_at = Null]

Ended(log, at, ending) == [log EXCEPT !.ended_at = at, !.ended_by = ending]

\* cancel: at once if queued, else a request its worker will see.
CancelAsked(row, at) ==
    [row EXCEPT !.state = IF row.state = "queued" THEN "cancelled" ELSE row.state,
                !.cancel_requested_at =
                    IF row.cancel_requested_at = Null THEN at
                    ELSE row.cancel_requested_at]

\* The test and the write of _FINISH_CANCELLED.
CancelDue(row, a, at) == HeldLive(row, a, at) /\ row.cancel_requested_at # Null
CancelDone(row) == [row EXCEPT !.state = "cancelled", !.lease_expires_at = Null]

Published(row, outcome) ==
    [row EXCEPT !.state = outcome, !.result_id = row.attempt,
                !.lease_expires_at = Null]

Result(j, a, w, at, outcome) ==
    [job_id |-> j, attempt |-> a, worker_id |-> w, published_at |-> at,
     outcome |-> outcome]

-----------------------------------------------------------------------------
(* The calls' transactions, as they stand when their statements have run.  *)

EndedBy(j, a, ending) == attempts[<<j, a>>].ended_by = ending

One(k, v) == [x \in {k} |-> v]
NoRows    == [x \in {} |-> x]

ClaimTxn(w, j, at) ==
    Txn(w, One(j, Claimed(jobs[j], at)),
        One(<<j, jobs[j].attempt + 1>>, Opened(w, at)), {})

StartTxn(w, j) ==
    Txn(w, One(j, [jobs[j] EXCEPT !.state = "running"]), NoRows, {})

HeartbeatTxn(w, j, a, at) ==
    Txn(w, One(j, [jobs[j] EXCEPT !.lease_expires_at = at + Lease]),
        One(<<j, a>>, [attempts[<<j, a>>] EXCEPT !.lease_expires_at = at + Lease]),
        {})

CancelTxn(j, at) ==
    Txn(NoWorker, One(j, CancelAsked(jobs[j], at)), NoRows, {})

FinishCancelledTxn(w, j, a, at) ==
    Txn(w, One(j, CancelDone(jobs[j])),
        One(<<j, a>>, Ended(attempts[<<j, a>>], at, "cancelled")), {})

PublishTxn(w, j, a, at, outcome) ==
    Txn(w, One(j, Published(jobs[j], outcome)),
        One(<<j, a>>, Ended(attempts[<<j, a>>], at, "published")),
        {Result(j, a, w, at, outcome)})

\* Broken: the attempt log is not written.
EndAttemptsTxnUnlogged(w, S, at, ending) ==
    Txn(w, [j \in S |-> GivenBack(j, jobs[j], at)], NoRows, {})

\* release and reap share _end_attempts: one job, or every job of a set.
EndAttemptsTxn(w, S, at, ending) ==
    Txn(w, [j \in S |-> GivenBack(j, jobs[j], at)],
        [k \in {<<j, jobs[j].attempt>> : j \in S} |-> Ended(attempts[k], at, ending)],
        {})

\* A commit installs a transaction's rows and lets go of its locks.
Install(t) ==
    /\ jobs'     = [j \in Job |-> IF j \in DOMAIN t.rows THEN t.rows[j] ELSE jobs[j]]
    /\ attempts' = [k \in Job \X AttemptNo |->
                      IF k \in DOMAIN t.logs THEN t.logs[k] ELSE attempts[k]]
    /\ results'  = results \union t.stored
    /\ open'     = open \ {t}
    /\ UNCHANGED clock

-----------------------------------------------------------------------------
(* The tables' own constraints (migrations/versions): a write that breaks  *)
(* one fails the call that makes it.                                       *)

JobChecks(j, row) ==
    /\ (row.state \in LeasedStates) <=> (row.lease_expires_at # Null)
    /\ (row.state \in ResultStates) <=> (row.result_id # Null)
    /\ row.attempt <= MaxAttempts[j]

AttemptChecks(log) == (log.ended_at = Null) <=> (log.ended_by = NotEnded)

-----------------------------------------------------------------------------
(* Type correctness.  A transaction's write set is typed row by row.       *)

TxnOK(t) ==
    /\ t = [owner |-> t.owner, rows |-> t.rows, logs |-> t.logs, stored |-> t.stored]
    /\ t.owner \in Worker \union {NoWorker}
    /\ DOMAIN t.rows \subseteq Job
    /\ \A j \in DOMAIN t.rows : t.rows[j] \in JobRow
    /\ DOMAIN t.logs \subseteq Job \X AttemptNo
    /\ \A k \in DOMAIN t.logs : t.logs[k] \in AttemptRow
    /\ t.stored \subseteq ResultRow

StoreTypeOK ==
    /\ clock \in Nat
    /\ jobs \in [Job -> JobRow]
    /\ attempts \in [Job \X AttemptNo -> AttemptRow]
    /\ results \subseteq ResultRow
    /\ \A t \in open : TxnOK(t)

=============================================================================
