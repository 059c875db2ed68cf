---------------------------- MODULE FleetProofs -----------------------------
(***************************************************************************)
(* Proofs that IndInv and LedgerInv are inductive, for any jobs, workers,  *)
(* budgets, lease and backoff, and what follows from them: one result for  *)
(* each job, cancels that win, a run checker that passes every final job,  *)
(* no constraint that fires, true reports, a history that is kept, and a   *)
(* fleet that implements the abstract queue.                               *)
(***************************************************************************)
EXTENDS FleetLedger, TLAPS

USE DEF Null, NotEnded

-----------------------------------------------------------------------------
(* The row versions that the calls write.                                  *)

\* The wait _end_attempts computes is a number.
LEMMA DelayType ==
    ASSUME NEW a \in Nat, a >= 1
    PROVE  Delay(a) \in Int
  <1>1. 2^(a - 1) \in Int
    OBVIOUS
  <1> QED
    BY <1>1, BackoffAssumption DEF Delay

\* A job is given back as a sound row, with its attempt's number and no result.
LEMMA GivenBackSound ==
    ASSUME NEW j \in Job, NEW row \in JobRow, NEW at \in Nat,
           RowSound(j, row), row.state \in LeasedStates
    PROVE  LET new == GivenBack(j, row, at)
           IN  /\ new \in JobRow
               /\ RowSound(j, new)
               /\ new.state \notin ResultStates
               /\ new.attempt = row.attempt
  <1>1. row.attempt \in Nat /\ row.attempt >= 1
    BY BudgetAssumption DEF RowSound, JobRow, LeasedStates
  <1>2. at + Delay(row.attempt) \in Int
    BY <1>1, DelayType
  <1> HIDE DEF Null
  <1>3. MaxAttempts[j] \in Nat
    BY BudgetAssumption
  <1>4. CASE Retried(j, row)
    BY <1>1, <1>2, <1>3, <1>4 DEF GivenBack, Retried, RowSound, JobChecks, JobRow,
       LeasedStates, ResultStates, Unfinished, FinalStates
  <1>5. CASE ~Retried(j, row)
    BY <1>1, <1>3, <1>5 DEF GivenBack, Retried, RowSound, JobChecks, JobRow,
       LeasedStates, ResultStates, Unfinished, FinalStates
  <1> QED
    BY <1>4, <1>5

\* A claim leases a queued row within its budget.
LEMMA ClaimedSound ==
    ASSUME NEW j \in Job, NEW row \in JobRow, NEW at \in Nat,
           RowSound(j, row), row.state = "queued"
    PROVE  LET new == Claimed(row, at)
           IN  /\ new \in JobRow
               /\ RowSound(j, new)
               /\ new.state = "claimed"
               /\ new.attempt = row.attempt + 1
               /\ new.attempt \in AttemptNo
  <1>1. /\ row.attempt \in Nat
        /\ MaxAttempts[j] \in Nat /\ MaxAttempts[j] <= MaxBudget /\ MaxBudget \in Nat
        /\ row.attempt < MaxAttempts[j]
        /\ at + Lease \in Nat
    BY BudgetAssumption, LeaseAssumption DEF JobRow, RowSound
  <1>2. /\ row.attempt + 1 \in 0 .. MaxBudget
        /\ row.attempt + 1 \in AttemptNo
        /\ row.attempt + 1 <= MaxAttempts[j]
        /\ row.attempt + 1 >= 1
        /\ at + Lease # Null
    BY <1>1 DEF AttemptNo
  <1> DEFINE new == Claimed(row, at)
  <1>3. /\ new.state = "claimed"
        /\ new.attempt = row.attempt + 1
        /\ new.lease_expires_at = at + Lease
        /\ new.cancel_requested_at = row.cancel_requested_at
        /\ new.result_id = row.result_id
    BY DEF Claimed, JobRow
  <1>4. new \in JobRow
    BY <1>1, <1>2 DEF Claimed, JobRow, LeasedStates, Unfinished
  <1>5. RowSound(j, new)
    <2> HIDE DEF new
    <2> QED
      BY <1>2, <1>3 DEF RowSound, JobChecks, LeasedStates, ResultStates
  <1> QED
    BY <1>2, <1>3, <1>4, <1>5

\* A held row stays sound with a later lease, or once running.
LEMMA HeldSound ==
    ASSUME NEW j \in Job, NEW row \in JobRow, NEW at \in Nat,
           RowSound(j, row), row.state \in LeasedStates
    PROVE  /\ [row EXCEPT !.lease_expires_at = at + Lease] \in JobRow
           /\ RowSound(j, [row EXCEPT !.lease_expires_at = at + Lease])
           /\ [row EXCEPT !.state = "running"] \in JobRow
           /\ RowSound(j, [row EXCEPT !.state = "running"])
  <1>1. at + Lease \in Nat
    BY LeaseAssumption
  <1> QED
    BY <1>1 DEF RowSound, JobChecks, JobRow, LeasedStates, ResultStates,
       Unfinished, FinalStates

\* A cancel request leaves a sound row that has no result.
LEMMA CancelAskedSound ==
    ASSUME NEW j \in Job, NEW row \in JobRow, NEW at \in Nat,
           RowSound(j, row), row.state \in Unfinished
    PROVE  /\ CancelAsked(row, at) \in JobRow
           /\ RowSound(j, CancelAsked(row, at))
           /\ CancelAsked(row, at).state \notin ResultStates
  BY DEF CancelAsked, RowSound, JobChecks, JobRow, LeasedStates, ResultStates,
     Unfinished, FinalStates

\* Ending a held job cancelled leaves a sound row that has no result.
LEMMA CancelDoneSound ==
    ASSUME NEW j \in Job, NEW row \in JobRow,
           RowSound(j, row), row.state \in LeasedStates
    PROVE  /\ CancelDone(row) \in JobRow
           /\ RowSound(j, CancelDone(row))
           /\ CancelDone(row).state \notin ResultStates
           /\ CancelDone(row).attempt = row.attempt
  BY DEF CancelDone, RowSound, JobChecks, JobRow, LeasedStates, ResultStates,
     Unfinished, FinalStates

\* A publish leaves a sound row that points at its result, but only if no
\* cancel was asked for.
LEMMA PublishedSound ==
    ASSUME NEW j \in Job, NEW row \in JobRow, NEW outcome \in ResultStates,
           RowSound(j, row), row.state \in LeasedStates,
           row.cancel_requested_at = Null
    PROVE  LET new == Published(row, outcome)
           IN  /\ new \in JobRow
               /\ RowSound(j, new)
               /\ new.state = outcome
               /\ new.result_id = row.attempt
               /\ new.attempt = row.attempt
  <1>1. row.attempt \in AttemptNo
    BY BudgetAssumption DEF RowSound, JobRow, AttemptNo, LeasedStates
  <1>2. row.attempt # Null
    BY <1>1, BudgetAssumption DEF AttemptNo
  <1> QED
    BY <1>1, <1>2 DEF Published, RowSound, JobChecks, JobRow, LeasedStates,
       ResultStates, Unfinished, FinalStates

-----------------------------------------------------------------------------
(* The transactions that the calls begin.  Good(t) is what beginning t     *)
(* must establish.                                                         *)

Rows == StoreTypeOK /\ CommittedSound

Good(t) == TxnOK(t) /\ TxnSound(t)

\* A held job's attempt number indexes the attempt log.
LEMMA HeldAttempt ==
    ASSUME Rows, NEW j \in Job, jobs[j].state \in LeasedStates
    PROVE  /\ jobs[j] \in JobRow
           /\ jobs[j].attempt \in AttemptNo
           /\ RowSound(j, jobs[j])
           /\ jobs[j].state \in Unfinished
  BY BudgetAssumption DEF Rows, StoreTypeOK, CommittedSound, RowSound, JobRow,
     AttemptNo, LeasedStates, Unfinished

\* Attempt rows stay attempt rows.
LEMMA LogTypes ==
    ASSUME NEW log \in AttemptRow, NEW time \in Nat, NEW ending \in Endings
    PROVE  /\ [log EXCEPT !.lease_expires_at = time] \in AttemptRow
           /\ Ended(log, time, ending) \in AttemptRow
  BY DEF Ended, AttemptRow

LEMMA OpenedType ==
    ASSUME NEW w \in Worker, NEW at \in Nat
    PROVE  Opened(w, at) \in AttemptRow
  <1>1. at + Lease \in Nat
    BY LeaseAssumption
  <1> DEFINE until == at + Lease
  <1> HIDE DEF until
  <1>2. [NoAttempt EXCEPT !.worker_id = w, !.claimed_at = at, !.lease_expires_at = until]
          \in AttemptRow
    BY <1>1 DEF NoAttempt, AttemptRow, until
  <1> QED
    BY <1>2 DEF Opened, until

\* A transaction of one job row that stores no result.
LEMMA OneRowGood ==
    ASSUME NEW o \in Worker \union {NoWorker}, NEW j \in Job, NEW row \in JobRow,
           NEW logs,
           RowSound(j, row), jobs[j].state \in Unfinished,
           row.state \notin ResultStates,
           o \in Worker => row.attempt \in AttemptNo,
           DOMAIN logs \subseteq Job \X AttemptNo,
           \A k \in DOMAIN logs : logs[k] \in AttemptRow
    PROVE  /\ Good(Txn(o, One(j, row), logs, {}))
           /\ DOMAIN Txn(o, One(j, row), logs, {}).rows = {j}
  BY DEF Good, TxnOK, TxnSound, Txn, One

LEMMA ClaimTxnGood ==
    ASSUME Rows, NEW w \in Worker, NEW j \in Job, NEW at \in Nat,
           jobs[j].state = "queued"
    PROVE  /\ Good(ClaimTxn(w, j, at))
           /\ DOMAIN ClaimTxn(w, j, at).rows = {j}
  <1>1. jobs[j] \in JobRow /\ RowSound(j, jobs[j]) /\ jobs[j].state \in Unfinished
    BY DEF Rows, StoreTypeOK, CommittedSound, Unfinished
  <1> DEFINE row == Claimed(jobs[j], at)
             logs == One(<<j, jobs[j].attempt + 1>>, Opened(w, at))
  <1>2. /\ row \in JobRow /\ RowSound(j, row)
        /\ row.state \notin ResultStates
        /\ row.attempt \in AttemptNo
        /\ jobs[j].attempt + 1 \in AttemptNo
    BY <1>1, ClaimedSound DEF ResultStates
  <1>3. Opened(w, at) \in AttemptRow
    BY OpenedType
  <1>4. DOMAIN logs \subseteq Job \X AttemptNo /\ \A k \in DOMAIN logs : logs[k] \in AttemptRow
    BY <1>2, <1>3 DEF One
  <1> HIDE DEF row, logs
  <1>5. /\ Good(Txn(w, One(j, row), logs, {}))
        /\ DOMAIN Txn(w, One(j, row), logs, {}).rows = {j}
    BY <1>1, <1>2, <1>4, OneRowGood
  <1> QED
    BY <1>5 DEF ClaimTxn, row, logs

LEMMA StartTxnGood ==
    ASSUME Rows, NEW w \in Worker, NEW j \in Job, jobs[j].state \in LeasedStates
    PROVE  /\ Good(StartTxn(w, j))
           /\ DOMAIN StartTxn(w, j).rows = {j}
  <1> DEFINE row == [jobs[j] EXCEPT !.state = "running"]
  <1>1. row \in JobRow /\ RowSound(j, row)
    BY HeldAttempt, HeldSound
  <1>2. row.state = "running" /\ row.attempt = jobs[j].attempt
    BY HeldAttempt DEF JobRow
  <1>3. row.state \notin ResultStates
    BY <1>2 DEF ResultStates
  <1>4. DOMAIN NoRows = {}
    BY DEF NoRows
  <1> HIDE DEF row
  <1>5. /\ Good(Txn(w, One(j, row), NoRows, {}))
        /\ DOMAIN Txn(w, One(j, row), NoRows, {}).rows = {j}
    BY <1>1, <1>2, <1>3, <1>4, HeldAttempt, OneRowGood
  <1> QED
    BY <1>5 DEF StartTxn, row

LEMMA HeartbeatTxnGood ==
    ASSUME Rows, NEW w \in Worker, NEW j \in Job, NEW a \in AttemptNo, NEW at \in Nat,
           jobs[j].state \in LeasedStates
    PROVE  /\ Good(HeartbeatTxn(w, j, a, at))
           /\ DOMAIN HeartbeatTxn(w, j, a, at).rows = {j}
  <1> DEFINE row  == [jobs[j] EXCEPT !.lease_expires_at = at + Lease]
             log  == [attempts[<<j, a>>] EXCEPT !.lease_expires_at = at + Lease]
             logs == One(<<j, a>>, log)
  <1>1. row \in JobRow /\ RowSound(j, row)
    BY HeldAttempt, HeldSound
  <1>2. row.state = jobs[j].state /\ row.attempt = jobs[j].attempt
    BY HeldAttempt DEF JobRow
  <1>3. row.state \notin ResultStates
    BY <1>2 DEF LeasedStates, ResultStates
  <1>4. log \in AttemptRow
    <2>1. attempts[<<j, a>>] \in AttemptRow
      BY DEF Rows, StoreTypeOK
    <2>2. at + Lease \in Nat
      BY LeaseAssumption
    <2> QED
      BY <2>1, <2>2, LogTypes DEF Endings
  <1>5. DOMAIN logs \subseteq Job \X AttemptNo /\ \A k \in DOMAIN logs : logs[k] \in AttemptRow
    BY <1>4 DEF One
  <1> HIDE DEF row, logs
  <1>6. /\ Good(Txn(w, One(j, row), logs, {}))
        /\ DOMAIN Txn(w, One(j, row), logs, {}).rows = {j}
    BY <1>1, <1>2, <1>3, <1>5, HeldAttempt, OneRowGood
  <1> QED
    BY <1>6 DEF HeartbeatTxn, row, logs

LEMMA CancelTxnGood ==
    ASSUME Rows, NEW j \in Job, NEW at \in Nat, jobs[j].state \in Unfinished
    PROVE  /\ Good(CancelTxn(j, at))
           /\ DOMAIN CancelTxn(j, at).rows = {j}
  <1> DEFINE row == CancelAsked(jobs[j], at)
  <1>1. /\ row \in JobRow /\ RowSound(j, row)
        /\ row.state \notin ResultStates
    BY CancelAskedSound DEF Rows, StoreTypeOK, CommittedSound
  <1>2. DOMAIN NoRows = {}
    BY DEF NoRows
  <1> HIDE DEF row
  <1>3. /\ Good(Txn(NoWorker, One(j, row), NoRows, {}))
        /\ DOMAIN Txn(NoWorker, One(j, row), NoRows, {}).rows = {j}
    BY <1>1, <1>2, WorkerAssumption, OneRowGood
  <1> QED
    BY <1>3 DEF CancelTxn, row

LEMMA FinishCancelledTxnGood ==
    ASSUME Rows, NEW w \in Worker, NEW j \in Job, NEW a \in AttemptNo, NEW at \in Nat,
           jobs[j].state \in LeasedStates
    PROVE  /\ Good(FinishCancelledTxn(w, j, a, at))
           /\ DOMAIN FinishCancelledTxn(w, j, a, at).rows = {j}
  <1> DEFINE row  == CancelDone(jobs[j])
             log  == Ended(attempts[<<j, a>>], at, "cancelled")
             logs == One(<<j, a>>, log)
  <1>1. /\ row \in JobRow /\ RowSound(j, row)
        /\ row.state \notin ResultStates
        /\ row.attempt \in AttemptNo
    BY HeldAttempt, CancelDoneSound
  <1>2. log \in AttemptRow
    BY LogTypes DEF Rows, StoreTypeOK, Endings
  <1>3. DOMAIN logs \subseteq Job \X AttemptNo /\ \A k \in DOMAIN logs : logs[k] \in AttemptRow
    BY <1>2 DEF One
  <1> HIDE DEF row, logs
  <1>4. /\ Good(Txn(w, One(j, row), logs, {}))
        /\ DOMAIN Txn(w, One(j, row), logs, {}).rows = {j}
    BY <1>1, <1>3, HeldAttempt, OneRowGood
  <1> QED
    BY <1>4 DEF FinishCancelledTxn, row, logs

LEMMA PublishTxnGood ==
    ASSUME Rows, NEW w \in Worker, NEW j \in Job, NEW a, NEW at \in Nat,
           NEW outcome \in Outcomes,
           Held(jobs[j], a), jobs[j].cancel_requested_at = Null
    PROVE  /\ Good(PublishTxn(w, j, a, at, outcome))
           /\ DOMAIN PublishTxn(w, j, a, at, outcome).rows = {j}
  <1> DEFINE row  == Published(jobs[j], outcome)
             log  == Ended(attempts[<<j, a>>], at, "published")
             logs == One(<<j, a>>, log)
             res  == Result(j, a, w, at, outcome)
             t    == PublishTxn(w, j, a, at, outcome)
  <1>0. jobs[j].state \in LeasedStates /\ a = jobs[j].attempt
    BY DEF Held
  <1>1. a \in AttemptNo
    BY <1>0, HeldAttempt
  <1>2. outcome \in ResultStates
    BY OutcomeAssumption DEF ResultStates
  <1>3. /\ row \in JobRow /\ RowSound(j, row)
        /\ row.state = outcome /\ row.result_id = a /\ row.attempt = a
    BY <1>0, <1>2, HeldAttempt, PublishedSound
  <1>4. log \in AttemptRow
    BY <1>1, LogTypes DEF Rows, StoreTypeOK, Endings
  <1>5. res \in ResultRow
    BY <1>1, <1>2 DEF Result, ResultRow
  <1>6. res.job_id = j /\ res.attempt = a /\ res.outcome = outcome
    BY DEF Result
  <1>7. /\ t.owner = w
        /\ t.rows = One(j, row) /\ t.logs = logs /\ t.stored = {res}
        /\ t = [owner |-> t.owner, rows |-> t.rows, logs |-> t.logs, stored |-> t.stored]
    BY DEF PublishTxn, Txn
  <1> HIDE DEF t, row, log, res
  <1>8. TxnOK(t)
    BY <1>1, <1>3, <1>4, <1>5, <1>7 DEF TxnOK, One
  <1>9. TxnSound(t)
    BY <1>0, <1>1, <1>3, <1>6, <1>7, HeldAttempt DEF TxnSound, One
  <1> QED
    BY <1>7, <1>8, <1>9 DEF Good, One, t

LEMMA EndAttemptsTxnGood ==
    ASSUME Rows, NEW w \in Worker, NEW S \in SUBSET Job, NEW at \in Nat,
           NEW ending \in Endings,
           \A j \in S : jobs[j].state \in LeasedStates
    PROVE  /\ Good(EndAttemptsTxn(w, S, at, ending))
           /\ DOMAIN EndAttemptsTxn(w, S, at, ending).rows = S
  <1> DEFINE t == EndAttemptsTxn(w, S, at, ending)
             K == {<<j, jobs[j].attempt>> : j \in S}
  <1>1. /\ t.owner = w
        /\ t.rows = [j \in S |-> GivenBack(j, jobs[j], at)]
        /\ t.logs = [k \in K |-> Ended(attempts[k], at, ending)]
        /\ t.stored = {}
        /\ t = [owner |-> t.owner, rows |-> t.rows, logs |-> t.logs, stored |-> t.stored]
    BY DEF EndAttemptsTxn, Txn
  <1>2. ASSUME NEW j \in S
        PROVE  /\ GivenBack(j, jobs[j], at) \in JobRow
               /\ RowSound(j, GivenBack(j, jobs[j], at))
               /\ GivenBack(j, jobs[j], at).state \notin ResultStates
               /\ GivenBack(j, jobs[j], at).attempt \in AttemptNo
               /\ jobs[j].state \in Unfinished
               /\ jobs[j].attempt \in AttemptNo
    BY <1>2, HeldAttempt, GivenBackSound
  <1>3. K \subseteq Job \X AttemptNo
    BY <1>2
  <1>4. \A k \in K : Ended(attempts[k], at, ending) \in AttemptRow
    BY <1>3, LogTypes DEF Rows, StoreTypeOK
  <1> HIDE DEF t, K
  <1>5. TxnOK(t)
    BY <1>1, <1>2, <1>3, <1>4 DEF TxnOK
  <1>6. TxnSound(t)
    BY <1>1, <1>2 DEF TxnSound
  <1> QED
    BY <1>1, <1>5, <1>6 DEF Good, t

-----------------------------------------------------------------------------
(* What each kind of step on the store does to the invariant.  Stored is   *)
(* the invariant but for the workers.                                      *)

Stored == StoreTypeOK /\ CommittedSound /\ PendingSound /\ LocksExclude /\ OneResultPerJob

\* Beginning a good transaction on rows nobody holds.
LEMMA BeginStored ==
    ASSUME Stored, NEW t, Good(t), \A j \in DOMAIN t.rows : Unlocked(j), Begin(t)
    PROVE  Stored'
  <1>1. jobs' = jobs /\ attempts' = attempts /\ results' = results /\ clock' = clock
    BY DEF Begin
  <1>2. open' = open \union {t}
    BY DEF Begin
  <1>3. StoreTypeOK'
    BY <1>1, <1>2 DEF Stored, StoreTypeOK, Good, TxnOK
  <1>4. CommittedSound' /\ OneResultPerJob'
    BY <1>1 DEF Stored, CommittedSound, OneResultPerJob, OneResult, ResultsOf
  <1>5. PendingSound'
    <2>1. \A u \in open' : TxnSound(u)
      BY <1>2 DEF Stored, PendingSound, Good
    <2> QED
      BY <1>1, <2>1 DEF PendingSound, TxnSound
  <1>6. LocksExclude'
    BY <1>2 DEF Stored, LocksExclude, Unlocked
  <1> QED
    BY <1>3, <1>4, <1>5, <1>6 DEF Stored

\* What a transaction wrote becomes the committed tables.
Lands(t) ==
    /\ jobs' = [j \in Job |-> IF j \in DOMAIN t.rows THEN t.rows[j] ELSE jobs[j]]
    /\ attempts' = [k \in Job \X AttemptNo |->
                      IF k \in DOMAIN t.logs THEN t.logs[k] ELSE attempts[k]]
    /\ results' = results \union t.stored
    /\ clock' = clock

\* No transaction that is left holds a row of t.
LeavesApart(t) ==
    open' \subseteq open /\ \A u \in open' : \A j \in DOMAIN u.rows : j \notin DOMAIN t.rows

\* A good transaction commits, whether or not it has been open.
LEMMA LandStored ==
    ASSUME Stored, NEW t, Good(t), Lands(t), LeavesApart(t)
    PROVE  Stored'
  <1>1. TxnOK(t) /\ TxnSound(t)
    BY DEF Good
  <1>2. /\ jobs' = [j \in Job |-> IF j \in DOMAIN t.rows THEN t.rows[j] ELSE jobs[j]]
        /\ attempts' = [k \in Job \X AttemptNo |->
                          IF k \in DOMAIN t.logs THEN t.logs[k] ELSE attempts[k]]
        /\ results' = results \union t.stored
        /\ open' \subseteq open
        /\ clock' = clock
    BY DEF Lands, LeavesApart
  <1>3. StoreTypeOK'
    <2>1. jobs' \in [Job -> JobRow]
      BY <1>1, <1>2 DEF Stored, StoreTypeOK, TxnOK
    <2>2. attempts' \in [Job \X AttemptNo -> AttemptRow]
      BY <1>1, <1>2 DEF Stored, StoreTypeOK, TxnOK
    <2>3. results' \subseteq ResultRow
      BY <1>1, <1>2 DEF Stored, StoreTypeOK, TxnOK
    <2> QED
      BY <1>2, <2>1, <2>2, <2>3 DEF Stored, StoreTypeOK, TxnOK
  <1>4. CommittedSound'
    BY <1>1, <1>2 DEF Stored, CommittedSound, TxnSound
  <1>5. PendingSound'
    <2> SUFFICES ASSUME NEW u \in open' PROVE TxnSound(u)'
      BY DEF PendingSound
    <2>1. u \in open /\ TxnSound(u) /\ TxnOK(u)
      BY <1>2 DEF Stored, PendingSound, StoreTypeOK
    <2>2. \A j \in DOMAIN u.rows : j \in Job /\ j \notin DOMAIN t.rows
      BY <2>1 DEF LeavesApart, TxnOK
    <2>3. \A j \in DOMAIN u.rows : jobs'[j] = jobs[j]
      BY <1>2, <2>2
    <2> QED
      BY <2>1, <2>3 DEF TxnSound
  <1>6. LocksExclude'
    BY <1>2 DEF Stored, LocksExclude
  <1>7. OneResultPerJob'
    <2> SUFFICES ASSUME NEW j \in Job PROVE OneResult(j)'
      BY DEF OneResultPerJob
    <2>0. OneResult(j)
      BY DEF Stored, OneResultPerJob
    <2>1. CASE j \notin DOMAIN t.rows
      <3>1. \A r \in t.stored : r.job_id # j
        BY <1>1, <2>1 DEF TxnSound
      <3>2. ResultsOf(j)' = ResultsOf(j)
        BY <1>2, <3>1 DEF ResultsOf
      <3>3. jobs'[j] = jobs[j]
        BY <1>2, <2>1
      <3> QED
        BY <1>2, <2>0, <3>2, <3>3 DEF OneResult
    <2>2. CASE j \in DOMAIN t.rows
      <3>1. jobs'[j] = t.rows[j]
        BY <1>2, <2>2
      <3>2. ResultsOf(j) = {}
        BY <1>1, <2>0, <2>2 DEF OneResult, TxnSound, Unfinished, LeasedStates, ResultStates
      <3>3. ResultsOf(j)' = {r \in t.stored : r.job_id = j}
        BY <1>2, <3>2 DEF ResultsOf
      <3>4. CASE t.rows[j].state \in ResultStates
        <4>1. PICK r \in t.stored : t.stored = {r} /\ r.job_id = j
          BY <1>1, <2>2, <3>4 DEF TxnSound
        <4>2. r.attempt = t.rows[j].result_id /\ r.outcome = t.rows[j].state
          BY <1>1, <4>1 DEF TxnSound
        <4>3. ResultsOf(j)' = {r} /\ r \in results'
          BY <1>2, <3>3, <4>1
        <4> QED
          BY <3>1, <3>4, <4>2, <4>3 DEF OneResult
      <3>5. CASE t.rows[j].state \notin ResultStates
        <4>1. \A r \in t.stored : r.job_id # j
          BY <1>1, <3>5 DEF TxnSound, TxnOK, ResultRow
        <4> QED
          BY <3>1, <3>3, <3>5, <4>1 DEF OneResult
      <3> QED
        BY <3>4, <3>5
    <2> QED
      BY <2>1, <2>2
  <1> QED
    BY <1>3, <1>4, <1>5, <1>6, <1>7 DEF Stored

\* A commit, answered or late.
LEMMA InstallLands ==
    ASSUME Stored, NEW t \in open, Install(t)
    PROVE  Good(t) /\ Lands(t) /\ LeavesApart(t)
  <1>1. Good(t) /\ Lands(t) /\ open' = open \ {t}
    BY DEF Install, Lands, Stored, StoreTypeOK, PendingSound, Good
  <1>2. \A u \in open : TxnOK(u)
    BY DEF Stored, StoreTypeOK
  <1> QED
    BY <1>1, <1>2 DEF LeavesApart, Stored, LocksExclude, TxnOK

LEMMA InstallStored ==
    ASSUME Stored, NEW t \in open, Install(t)
    PROVE  Stored'
  BY InstallLands, LandStored

\* A step that leaves the tables alone and gives no transaction new rows, and
\* no owner but NoWorker: a rollback, or a session abandoned by its worker.
LEMMA FewerOpenStored ==
    ASSUME Stored, UNCHANGED <<clock, jobs, attempts, results>>,
           \A u \in open' : \E t \in open :
               u = t \/ u = [t EXCEPT !.owner = NoWorker],
           \A u, v \in open' : (\E j \in Job : j \in DOMAIN u.rows /\ j \in DOMAIN v.rows)
                                  => u = v
    PROVE  Stored'
  <1>1. ASSUME NEW u \in open' PROVE TxnOK(u) /\ TxnSound(u)
    <2>1. PICK t \in open : u = t \/ u = [t EXCEPT !.owner = NoWorker]
      BY <1>1
    <2>2. TxnOK(t) /\ TxnSound(t)
      BY DEF Stored, StoreTypeOK, PendingSound
    <2>3. u.rows = t.rows /\ u.logs = t.logs /\ u.stored = t.stored
          /\ (u.owner = t.owner \/ u.owner = NoWorker)
          /\ u = [owner |-> u.owner, rows |-> u.rows, logs |-> u.logs, stored |-> u.stored]
      BY <2>1, <2>2 DEF TxnOK
    <2>4. TxnOK(u)
      BY <2>2, <2>3 DEF TxnOK
    <2>5. TxnSound(u)
      BY <2>2, <2>3, WorkerAssumption DEF TxnSound
    <2> QED
      BY <2>4, <2>5
  <1>2. StoreTypeOK'
    BY <1>1 DEF Stored, StoreTypeOK, TxnOK
  <1>3. CommittedSound' /\ OneResultPerJob'
    BY DEF Stored, CommittedSound, OneResultPerJob, OneResult, ResultsOf
  <1>4. PendingSound'
    BY <1>1 DEF PendingSound, TxnSound
  <1>5. LocksExclude'
    BY DEF LocksExclude
  <1> QED
    BY <1>2, <1>3, <1>4, <1>5 DEF Stored

LEMMA RollbackStored ==
    ASSUME Stored, NEW t \in open, Rollback(t)
    PROVE  Stored'
  <1>1. open' \subseteq open /\ UNCHANGED <<clock, jobs, attempts, results>>
    BY DEF Rollback
  <1>2. \A u, v \in open' : (\E j \in Job : j \in DOMAIN u.rows /\ j \in DOMAIN v.rows) => u = v
    BY <1>1 DEF Stored, LocksExclude
  <1> QED
    BY <1>1, <1>2, FewerOpenStored

LEMMA AbandonStored ==
    ASSUME Stored, NEW w \in Worker, Abandon(w), UNCHANGED <<clock, jobs, attempts, results>>
    PROVE  Stored'
  <1> DEFINE Left(t) == IF t.owner = w THEN [t EXCEPT !.owner = NoWorker] ELSE t
  <1>1. open' = {Left(t) : t \in open}
    BY DEF Abandon
  <1>2. \A t \in open : TxnOK(t)
    BY DEF Stored, StoreTypeOK
  <1>3. \A t \in open : Left(t).rows = t.rows
    BY <1>2 DEF TxnOK
  <1>4. \A u, v \in open' : (\E j \in Job : j \in DOMAIN u.rows /\ j \in DOMAIN v.rows) => u = v
    <2> SUFFICES ASSUME NEW u \in open', NEW v \in open', NEW j \in Job,
                        j \in DOMAIN u.rows, j \in DOMAIN v.rows
                 PROVE  u = v
      OBVIOUS
    <2>1. PICK t1 \in open : u = Left(t1)
      BY <1>1
    <2>2. PICK t2 \in open : v = Left(t2)
      BY <1>1
    <2>3. j \in DOMAIN t1.rows /\ j \in DOMAIN t2.rows
      BY <1>3, <2>1, <2>2
    <2>4. t1 = t2
      BY <2>3 DEF Stored, LocksExclude
    <2> QED
      BY <2>1, <2>2, <2>4
  <1>5. \A u \in open' : \E t \in open : u = t \/ u = [t EXCEPT !.owner = NoWorker]
    BY <1>1
  <1> QED
    BY <1>4, <1>5, FewerOpenStored

LEMMA TickStored ==
    ASSUME Stored, Tick
    PROVE  Stored'
  <1>1. clock' \in Nat /\ UNCHANGED <<jobs, attempts, results, open>>
    BY DEF Tick, Stored, StoreTypeOK
  <1>2. StoreTypeOK'
    BY <1>1 DEF Stored, StoreTypeOK, TxnOK
  <1>3. CommittedSound' /\ OneResultPerJob'
    BY <1>1 DEF Stored, CommittedSound, OneResultPerJob, OneResult, ResultsOf
  <1>4. PendingSound' /\ LocksExclude'
    BY <1>1 DEF Stored, PendingSound, TxnSound, LocksExclude
  <1> QED
    BY <1>2, <1>3, <1>4 DEF Stored

\* A write to an attempt row alone, as record_execution makes.
LEMMA LogStored ==
    ASSUME Stored, attempts' \in [Job \X AttemptNo -> AttemptRow],
           UNCHANGED <<clock, jobs, results, open>>
    PROVE  Stored'
  <1>1. StoreTypeOK'
    BY DEF Stored, StoreTypeOK, TxnOK
  <1>2. CommittedSound' /\ OneResultPerJob'
    BY DEF Stored, CommittedSound, OneResultPerJob, OneResult, ResultsOf
  <1>3. PendingSound' /\ LocksExclude'
    BY DEF Stored, PendingSound, TxnSound, LocksExclude
  <1> QED
    BY <1>1, <1>2, <1>3 DEF Stored

LEMMA SameStored ==
    ASSUME Stored, UNCHANGED storeVars
    PROVE  Stored'
  BY LogStored DEF storeVars, Stored, StoreTypeOK

-----------------------------------------------------------------------------
(* What the steps do to the workers.  Manned is the rest of the invariant. *)

Manned == workers \in [Worker -> WorkerState] /\ WorkersSound

\* A worker that moves to a program point where it need hold nothing new.
LEMMA GoManned ==
    ASSUME Manned, NEW w \in Worker, NEW pc \in PC, Go(w, pc),
           pc \in HoldsJob => workers[w].pc \in HoldsJob,
           pc = "publish" => workers[w].result \in Outcomes,
           pc = "record" => workers[w].result \in Outcomes \union {RunnerError}
    PROVE  Manned'
  <1>1. workers' = [workers EXCEPT ![w].pc = pc]
    BY DEF Go
  <1>2. workers[w] \in WorkerState
    BY DEF Manned
  <1>3. [workers[w] EXCEPT !.pc = pc] \in WorkerState
    BY <1>2 DEF WorkerState
  <1>4. workers' \in [Worker -> WorkerState]
    BY <1>1, <1>3 DEF Manned
  <1>5. /\ workers'[w].pc = pc /\ workers'[w].job = workers[w].job
        /\ workers'[w].attempt = workers[w].attempt /\ workers'[w].result = workers[w].result
    BY <1>1, <1>2 DEF Manned, WorkerState
  <1>6. \A v \in Worker \ {w} : workers'[v] = workers[v]
    BY <1>1 DEF Manned
  <1>7. WorkersSound'
    BY <1>5, <1>6 DEF Manned, WorkersSound, WorkerSound
  <1> QED
    BY <1>4, <1>7 DEF Manned

\* One worker's state replaced by a sound one.
LEMMA OneManned ==
    ASSUME Manned, NEW w \in Worker, NEW new \in WorkerState,
           workers' = [workers EXCEPT ![w] = new],
           new.pc \in HoldsJob => new.job \in Job /\ new.attempt \in AttemptNo,
           new.pc = "publish" => new.result \in Outcomes,
           new.pc = "record" => new.result \in Outcomes \union {RunnerError}
    PROVE  Manned'
  <1>1. workers' \in [Worker -> WorkerState] /\ workers'[w] = new
        /\ \A v \in Worker \ {w} : workers'[v] = workers[v]
    BY DEF Manned
  <1>2. WorkersSound'
    BY <1>1 DEF Manned, WorkersSound, WorkerSound
  <1> QED
    BY <1>1, <1>2 DEF Manned

LEMMA ReportManned ==
    ASSUME Manned, NEW w \in Worker, NEW what \in Reports, Report(w, what)
    PROVE  Manned'
  <1> DEFINE new == [workers[w] EXCEPT !.pc = "step", !.asked = Null,
                                       !.result = "none", !.report = what]
  <1>1. workers[w] \in WorkerState
    BY DEF Manned
  <1>2. new \in WorkerState /\ new.pc = "step"
    BY <1>1 DEF WorkerState, PC
  <1>3. workers' = [workers EXCEPT ![w] = new]
    BY DEF Report, Manned
  <1> HIDE DEF new
  <1> QED
    BY <1>2, <1>3, OneManned DEF HoldsJob

-----------------------------------------------------------------------------
(* One step of the invariant per action.                                   *)

LEMMA IndInvSplit == IndInv <=> Stored /\ Manned
  BY DEF IndInv, Stored, Manned, TypeOK

LEMMA ReapStep ==
    ASSUME Stored, Manned, NEW w \in Worker, Reap(w)
    PROVE  Stored' /\ Manned'
  <1> DEFINE lapsed == {j \in Job : Unlocked(j) /\ Lapsed(jobs[j], clock)}
  <1>1. CASE Go(w, AfterReap(w)) /\ UNCHANGED storeVars
    <2>1. AfterReap(w) \in {"claim", "reclaim"}
      BY DEF AfterReap
    <2> QED
      BY <1>1, <2>1, SameStored, GoManned DEF PC, Calls, HoldsJob
  <1>2. CASE /\ Begin(EndAttemptsTxn(w, lapsed, clock, "lease_expired"))
             /\ UNCHANGED workers
    <2>1. \A j \in lapsed : jobs[j].state \in LeasedStates
      BY DEF Lapsed
    <2>2. Rows /\ clock \in Nat
      BY DEF Rows, Stored, StoreTypeOK
    <2> DEFINE t == EndAttemptsTxn(w, lapsed, clock, "lease_expired")
    <2>3. Good(t) /\ DOMAIN t.rows = lapsed
      BY <2>1, <2>2, EndAttemptsTxnGood DEF Endings
    <2>4. \A j \in DOMAIN t.rows : Unlocked(j)
      BY <2>3
    <2> HIDE DEF t
    <2>5. Stored'
      BY <1>2, <2>3, <2>4, BeginStored DEF t
    <2> QED
      BY <1>2, <2>5 DEF Manned, WorkersSound, WorkerSound
  <1> QED
    BY <1>1, <1>2 DEF Reap

LEMMA ClaimStep ==
    ASSUME Stored, Manned, NEW w \in Worker, Claim(w)
    PROVE  Stored' /\ Manned'
  <1> DEFINE ready == {j \in Job : Unlocked(j) /\ Claimable(jobs[j], clock)}
  <1>1. CASE Go(w, AfterNoClaim(w)) /\ UNCHANGED storeVars
    <2>1. AfterNoClaim(w) \in {"idle_reap", "step"}
      BY DEF AfterNoClaim
    <2> QED
      BY <1>1, <2>1, SameStored, GoManned DEF PC, Calls, HoldsJob
  <1>2. ASSUME NEW j \in ready, Begin(ClaimTxn(w, j, clock)), UNCHANGED workers
        PROVE  Stored' /\ Manned'
    <2>1. Rows /\ clock \in Nat
      BY DEF Rows, Stored, StoreTypeOK
    <2>2. j \in Job /\ Unlocked(j) /\ jobs[j].state = "queued"
      BY DEF Claimable
    <2> DEFINE t == ClaimTxn(w, j, clock)
    <2>3. Good(t) /\ DOMAIN t.rows = {j}
      BY <2>1, <2>2, ClaimTxnGood
    <2> HIDE DEF t
    <2>4. Stored'
      BY <1>2, <2>2, <2>3, BeginStored DEF t
    <2> QED
      BY <1>2, <2>4 DEF Manned, WorkersSound, WorkerSound
  <1> QED
    BY <1>1, <1>2 DEF Claim

\* A worker at a call for its job has that job and its attempt.
LEMMA AtJob ==
    ASSUME Stored, Manned, NEW w \in Worker, workers[w].pc \in HoldsJob
    PROVE  /\ JobOf(w) \in Job /\ AttemptOf(w) \in AttemptNo
           /\ Rows /\ clock \in Nat
           /\ RowOf(w) = jobs[JobOf(w)]
  BY DEF Manned, WorkersSound, WorkerSound, JobOf, AttemptOf, RowOf, Rows, Stored, StoreTypeOK

LEMMA StartStep ==
    ASSUME Stored, Manned, NEW w \in Worker, Start(w)
    PROVE  Stored' /\ Manned'
  <1>1. workers[w].pc = "start" /\ workers[w].pc \in HoldsJob
    BY DEF Start, At, HoldsJob
  <1>2. CASE /\ StartDue(RowOf(w), AttemptOf(w), clock)
             /\ Unlocked(JobOf(w))
             /\ Begin(StartTxn(w, JobOf(w)))
             /\ UNCHANGED workers
    <2>1. jobs[JobOf(w)].state \in LeasedStates
      BY <1>1, <1>2, AtJob DEF StartDue, HeldLive, Held
    <2> DEFINE t == StartTxn(w, JobOf(w))
    <2>2. Good(t) /\ DOMAIN t.rows = {JobOf(w)}
      BY <1>1, <2>1, AtJob, StartTxnGood
    <2> HIDE DEF t
    <2>3. Stored'
      BY <1>2, <2>2, BeginStored DEF t
    <2> QED
      BY <1>2, <2>3 DEF Manned, WorkersSound, WorkerSound
  <1>3. CASE /\ Go(w, IF AlreadyStarted(RowOf(w), AttemptOf(w), clock)
                      THEN "running" ELSE "finish_cancelled")
             /\ UNCHANGED storeVars
    BY <1>1, <1>3, SameStored, GoManned DEF PC, Calls
  <1> QED
    BY <1>2, <1>3 DEF Start

LEMMA HeartbeatStep ==
    ASSUME Stored, Manned, NEW w \in Worker, Heartbeat(w)
    PROVE  Stored' /\ Manned'
  <1>1. workers[w].pc \in HoldsJob
    BY DEF Heartbeat, At, HoldsJob
  <1>2. CASE /\ HeldLive(RowOf(w), AttemptOf(w), clock)
             /\ Unlocked(JobOf(w))
             /\ Begin(HeartbeatTxn(w, JobOf(w), AttemptOf(w), clock))
             /\ Go(w, "heartbeat")
    <2>1. jobs[JobOf(w)].state \in LeasedStates
      BY <1>1, <1>2, AtJob DEF HeldLive, Held
    <2> DEFINE t == HeartbeatTxn(w, JobOf(w), AttemptOf(w), clock)
    <2>2. Good(t) /\ DOMAIN t.rows = {JobOf(w)}
      BY <1>1, <2>1, AtJob, HeartbeatTxnGood
    <2> HIDE DEF t
    <2>3. Stored'
      BY <1>2, <2>2, BeginStored DEF t
    <2>4. Manned'
      BY <1>1, <1>2, GoManned DEF PC, Calls
    <2> QED
      BY <2>3, <2>4
  <1>3. CASE Report(w, "lost") /\ UNCHANGED storeVars
    BY <1>3, SameStored, ReportManned DEF Reports
  <1> QED
    BY <1>2, <1>3 DEF Heartbeat

LEMMA RunEndsStep ==
    ASSUME Stored, Manned, NEW w \in Worker, RunEnds(w)
    PROVE  Stored' /\ Manned'
  <1>1. workers[w].pc = "running" /\ workers[w] \in WorkerState
    BY DEF RunEnds, At, Manned
  <1>2. workers[w].job \in Job /\ workers[w].attempt \in AttemptNo
    BY <1>1 DEF Manned, WorkersSound, WorkerSound, HoldsJob
  <1>a. PICK result \in Outcomes \union {RunnerError} :
          \E pc \in {"record", AfterRun(result)} :
            workers' = [workers EXCEPT ![w].pc = pc, ![w].result = result]
    BY DEF RunEnds
  <1>3. PICK pc \in {"record", AfterRun(result)} :
          workers' = [workers EXCEPT ![w].pc = pc, ![w].result = result]
    BY <1>a
  <1> DEFINE new == [workers[w] EXCEPT !.pc = pc, !.result = result]
  <1>4. pc \in {"record", "release", "publish"} /\ (pc = "publish" => result \in Outcomes)
    BY <1>3 DEF AfterRun
  <1>5. new \in WorkerState /\ new.pc = pc /\ new.result = result
        /\ new.job = workers[w].job /\ new.attempt = workers[w].attempt
    BY <1>1, <1>4 DEF WorkerState, PC, Calls
  <1>6. workers' = [workers EXCEPT ![w] = new]
    BY <1>3 DEF Manned
  <1> HIDE DEF new
  <1>7. Manned'
    BY <1>2, <1>3, <1>4, <1>5, <1>6, OneManned
  <1>8. Stored'
    BY SameStored DEF RunEnds
  <1> QED
    BY <1>7, <1>8

LEMMA RecordExecutionStep ==
    ASSUME Stored, Manned, NEW w \in Worker, RecordExecution(w)
    PROVE  Stored' /\ Manned'
  <1>1. workers[w].pc = "record" /\ workers[w].pc \in HoldsJob
    BY DEF RecordExecution, At, HoldsJob
  <1>2. attempts' \in [Job \X AttemptNo -> AttemptRow]
    <2> DEFINE k == <<JobOf(w), AttemptOf(w)>>
    <2>1. k \in Job \X AttemptNo
      BY <1>1, AtJob
    <2>2. attempts \in [Job \X AttemptNo -> AttemptRow]
      BY DEF Stored, StoreTypeOK
    <2>3. [attempts[k] EXCEPT !.execution = TRUE] \in AttemptRow
      BY <2>1, <2>2, ZenonT(30) DEF AttemptRow
    <2>4. attempts' = [attempts EXCEPT ![k].execution = TRUE]
      BY DEF RecordExecution
    <2> HIDE DEF k
    <2> QED
      BY <2>1, <2>2, <2>3, <2>4
  <1>3. Stored'
    BY <1>2, LogStored DEF RecordExecution
  <1>4. workers[w].result \in Outcomes \union {RunnerError}
    BY <1>1 DEF Manned, WorkersSound, WorkerSound
  <1>5. AfterRun(workers[w].result) \in {"release", "publish"}
        /\ (AfterRun(workers[w].result) = "publish" => workers[w].result \in Outcomes)
    BY <1>4 DEF AfterRun
  <1>6. Manned'
    BY <1>1, <1>5, GoManned DEF RecordExecution, PC, Calls
  <1> QED
    BY <1>3, <1>6

LEMMA PublishStep ==
    ASSUME Stored, Manned, NEW w \in Worker, Publish(w)
    PROVE  Stored' /\ Manned'
  <1> DEFINE j == JobOf(w)
             a == AttemptOf(w)
  <1>1. workers[w].pc = "publish" /\ workers[w].pc \in HoldsJob
    BY DEF Publish, At, HoldsJob
  <1>2. j \in Job /\ a \in AttemptNo /\ Rows /\ clock \in Nat
    BY <1>1, AtJob
  <1>3. workers[w].result \in Outcomes
    BY <1>1 DEF Manned, WorkersSound, WorkerSound
  <1>4. CASE Report(w, "published") /\ UNCHANGED storeVars
    BY <1>4, SameStored, ReportManned DEF Reports
  <1>5. CASE Go(w, "job_status") /\ UNCHANGED storeVars
    BY <1>1, <1>5, SameStored, GoManned DEF PC, Calls
  <1>6. CASE /\ Held(jobs[j], a) /\ Unlocked(j)
             /\ Begin(FinishCancelledTxn(w, j, a, clock))
             /\ UNCHANGED workers
    <2> DEFINE t == FinishCancelledTxn(w, j, a, clock)
    <2>1. jobs[j].state \in LeasedStates
      BY <1>6 DEF Held
    <2>2. Good(t) /\ DOMAIN t.rows = {j}
      BY <1>2, <2>1, FinishCancelledTxnGood
    <2> HIDE DEF t
    <2>3. Stored'
      BY <1>6, <2>2, BeginStored DEF t
    <2> QED
      BY <1>6, <2>3 DEF Manned, WorkersSound, WorkerSound
  <1>7. CASE /\ Held(jobs[j], a) /\ Unlocked(j)
             /\ jobs[j].cancel_requested_at = Null
             /\ Begin(PublishTxn(w, j, a, clock, workers[w].result))
             /\ UNCHANGED workers
    <2> DEFINE t == PublishTxn(w, j, a, clock, workers[w].result)
    <2>1. Good(t) /\ DOMAIN t.rows = {j}
      BY <1>2, <1>3, <1>7, PublishTxnGood
    <2> HIDE DEF t
    <2>2. Stored'
      BY <1>7, <2>1, BeginStored DEF t
    <2> QED
      BY <1>7, <2>2 DEF Manned, WorkersSound, WorkerSound
  <1> QED
    BY <1>4, <1>5, <1>6, <1>7 DEF Publish

LEMMA EndAttemptStep ==
    ASSUME Stored, Manned, NEW w \in Worker, NEW at \in Nat,
           workers[w].pc \in {"release", "finish_cancelled"},
           EndDue(w, at) => Unlocked(JobOf(w)), EndAttempt(w, at)
    PROVE  Stored' /\ Manned'
  <1>1. workers[w].pc \in HoldsJob
    BY DEF HoldsJob
  <1>2. CASE /\ ReleaseDue(w, at)
             /\ Begin(EndAttemptsTxn(w, {JobOf(w)}, at, "released"))
             /\ UNCHANGED workers
    <2> DEFINE t == EndAttemptsTxn(w, {JobOf(w)}, at, "released")
    <2>1. jobs[JobOf(w)].state \in LeasedStates
      BY <1>1, <1>2, AtJob DEF ReleaseDue, HeldLive, Held
    <2>2. Good(t) /\ DOMAIN t.rows = {JobOf(w)}
      BY <1>1, <2>1, AtJob, EndAttemptsTxnGood DEF Endings
    <2> HIDE DEF t
    <2>3. Stored'
      BY <1>2, <2>2, BeginStored DEF t, EndDue
    <2> QED
      BY <1>2, <2>3 DEF Manned, WorkersSound, WorkerSound
  <1>3. CASE /\ FinishDue(w, at)
             /\ Begin(FinishCancelledTxn(w, JobOf(w), AttemptOf(w), at))
             /\ UNCHANGED workers
    <2> DEFINE t == FinishCancelledTxn(w, JobOf(w), AttemptOf(w), at)
    <2>1. jobs[JobOf(w)].state \in LeasedStates
      BY <1>1, <1>3, AtJob DEF FinishDue, CancelDue, HeldLive, Held
    <2>2. Good(t) /\ DOMAIN t.rows = {JobOf(w)}
      BY <1>1, <2>1, AtJob, FinishCancelledTxnGood
    <2> HIDE DEF t
    <2>3. Stored'
      BY <1>3, <2>2, BeginStored DEF t, EndDue
    <2> QED
      BY <1>3, <2>3 DEF Manned, WorkersSound, WorkerSound
  <1>4. CASE EarlierAsk(w)
    <2>1. PICK what \in Reports : Report(w, what)
      BY <1>4 DEF EarlierAsk, Reports
    <2>2. UNCHANGED storeVars
      BY <1>4 DEF EarlierAsk
    <2> QED
      BY <2>1, <2>2, SameStored, ReportManned
  <1> QED
    BY <1>2, <1>3, <1>4 DEF EndAttempt

\* A worker that starts to wait for a row lock, or gives up waiting.
LEMMA AskedManned ==
    ASSUME Manned, NEW w \in Worker, NEW time \in Nat \union {Null},
           workers' = [workers EXCEPT ![w].asked = time]
    PROVE  Manned'
  <1> DEFINE new == [workers[w] EXCEPT !.asked = time]
  <1>1. workers[w] \in WorkerState /\ WorkerSound(w)
    BY DEF Manned, WorkersSound
  <1>2. /\ new \in WorkerState /\ new.pc = workers[w].pc /\ new.job = workers[w].job
        /\ new.attempt = workers[w].attempt /\ new.result = workers[w].result
    BY <1>1 DEF WorkerState
  <1>3. workers' = [workers EXCEPT ![w] = new]
    BY DEF Manned
  <1> HIDE DEF new
  <1> QED
    BY <1>1, <1>2, <1>3, OneManned DEF WorkerSound

LEMMA AskToEndStep ==
    ASSUME Stored, Manned, NEW w \in Worker, AskToEnd(w)
    PROVE  Stored' /\ Manned'
  <1>1. workers[w].pc \in {"release", "finish_cancelled"} /\ clock \in Nat
    BY DEF AskToEnd, At, Stored, StoreTypeOK
  <1>2. CASE (EndDue(w, clock) => Unlocked(JobOf(w))) /\ EndAttempt(w, clock)
    BY <1>1, <1>2, EndAttemptStep
  <1>3. CASE workers' = [workers EXCEPT ![w].asked = clock] /\ UNCHANGED storeVars
    BY <1>1, <1>3, SameStored, AskedManned
  <1> QED
    BY <1>2, <1>3 DEF AskToEnd

LEMMA EndWaitedStep ==
    ASSUME Stored, Manned, NEW w \in Worker, EndWaited(w)
    PROVE  Stored' /\ Manned'
  <1>1. workers[w].pc \in {"release", "finish_cancelled"}
    BY DEF EndWaited, At
  <1>2. workers[w].asked \in Nat
    BY DEF EndWaited, Manned, WorkerState
  <1> QED
    BY <1>1, <1>2, EndAttemptStep DEF EndWaited

LEMMA CommitStep ==
    ASSUME Stored, Manned, NEW w \in Worker, NEW t \in open, Commit(w, t)
    PROVE  Stored' /\ Manned'
  <1>1. Stored'
    BY InstallStored DEF Commit
  <1>2. TxnOK(t) /\ TxnSound(t) /\ t.owner = w
    BY DEF Stored, StoreTypeOK, PendingSound, Commit
  <1> DEFINE pc == workers[w].pc
  <1>3. CASE pc \in {"timer_reap", "idle_reap"} /\ Go(w, AfterReap(w))
    <2>1. AfterReap(w) \in {"claim", "reclaim"}
      BY DEF AfterReap
    <2> QED
      BY <1>1, <1>3, <2>1, GoManned DEF PC, Calls, HoldsJob
  <1>4. CASE \E j \in DOMAIN t.rows :
               workers' = [workers EXCEPT
                   ![w] = [Fresh("start") EXCEPT !.job = j, !.attempt = t.rows[j].attempt]]
    <2>1. PICK j \in DOMAIN t.rows :
               workers' = [workers EXCEPT
                   ![w] = [Fresh("start") EXCEPT !.job = j, !.attempt = t.rows[j].attempt]]
      BY <1>4
    <2>2. j \in Job /\ t.rows[j].attempt \in AttemptNo
      BY <1>2 DEF TxnOK, TxnSound
    <2>3. t.rows[j].attempt \in Nat
      BY <2>2, BudgetAssumption DEF AttemptNo
    <2> DEFINE new == [Fresh("start") EXCEPT !.job = j, !.attempt = t.rows[j].attempt]
    <2>4. /\ new \in WorkerState /\ new.pc = "start" /\ new.job = j
          /\ new.attempt = t.rows[j].attempt
      BY <2>2, <2>3 DEF Fresh, WorkerState, PC, Calls, Reports
    <2> HIDE DEF new
    <2> QED
      BY <1>1, <2>1, <2>2, <2>4, OneManned DEF new
  <1>5. CASE pc = "start" /\ Go(w, "running")
    BY <1>1, <1>5, GoManned DEF PC, Calls, HoldsJob
  <1>6. CASE pc = "heartbeat" /\ Go(w, IF t.rows[JobOf(w)].cancel_requested_at # Null
                                       THEN "finish_cancelled" ELSE "running")
    BY <1>1, <1>6, GoManned DEF PC, Calls, HoldsJob
  <1>7. CASE pc = "publish" /\ (IF t.stored # {} THEN Report(w, "published")
                                               ELSE Go(w, "job_status"))
    BY <1>1, <1>7, GoManned, ReportManned DEF PC, Calls, HoldsJob, Reports
  <1>8. CASE Report(w, "released") \/ Report(w, "cancelled")
    BY <1>1, <1>8, ReportManned DEF Reports
  <1> QED
    BY <1>3, <1>4, <1>5, <1>6, <1>7, <1>8 DEF Commit, Answer

LEMMA WorkerStepSafe ==
    ASSUME Stored, Manned, NEW w \in Worker, WorkerStep(w)
    PROVE  Stored' /\ Manned'
  <1>1. CASE BeginStep(w)
    BY <1>1, SameStored, GoManned DEF BeginStep, PC, Calls, HoldsJob
  <1>2. CASE JobStatus(w)
    <2>1. PICK what \in Reports : Report(w, what)
      BY <1>2 DEF JobStatus, Reports
    <2> QED
      BY <1>2, <2>1, SameStored, ReportManned DEF JobStatus
  <1> QED
    BY <1>1, <1>2, ReapStep, ClaimStep, StartStep, HeartbeatStep, RunEndsStep,
       RecordExecutionStep, PublishStep, AskToEndStep, EndWaitedStep, CommitStep
       DEF WorkerStep

LEMMA FaultSafe ==
    ASSUME Stored, Manned, NEW w \in Worker, Fault(w)
    PROVE  Stored' /\ Manned'
  <1>1. CASE Drop(w)
    BY <1>1, AbandonStored, AskedManned DEF Drop
  <1>2. CASE Crash(w)
    <2>1. Fresh("down") \in WorkerState /\ Fresh("down").pc = "down"
      BY DEF Fresh, WorkerState, PC, Reports
    <2>2. workers' = [workers EXCEPT ![w] = Fresh("down")]
      BY <1>2 DEF Crash
    <2>3. Manned'
      BY <2>1, <2>2, OneManned DEF HoldsJob
    <2>4. Stored'
      BY <1>2, AbandonStored DEF Crash
    <2> QED
      BY <2>3, <2>4
  <1>3. CASE Restart(w)
    BY <1>3, SameStored, GoManned DEF Restart, PC, Calls, HoldsJob
  <1> QED
    BY <1>1, <1>2, <1>3 DEF Fault

LEMMA CancelSafe ==
    ASSUME Stored, Manned, NEW j \in Job, Cancel(j)
    PROVE  Stored' /\ Manned'
  <1>1. Rows /\ clock \in Nat
    BY DEF Rows, Stored, StoreTypeOK
  <1> DEFINE t == CancelTxn(j, clock)
  <1>2. Good(t) /\ DOMAIN t.rows = {j}
    BY <1>1, CancelTxnGood DEF Cancel
  <1> HIDE DEF t
  <1>3. Stored'
    BY <1>2, BeginStored DEF Cancel, t
  <1> QED
    BY <1>3 DEF Cancel, Manned, WorkersSound, WorkerSound

-----------------------------------------------------------------------------
(* The theorems.                                                           *)

\* An empty store, and every worker idle or not yet started.
AtRest == StoreInit /\ workers \in [Worker -> {Fresh("step"), Fresh("down")}]

LEMMA InitAtRest == Init => AtRest
  BY DEF Init, AtRest

LEMMA RestSafe == AtRest => IndInv
  <1> SUFFICES ASSUME AtRest PROVE IndInv
    OBVIOUS
  <1> USE DEF AtRest, StoreInit
  <1>1. \A j \in Job : jobs[j] \in JobRow /\ RowSound(j, jobs[j])
    <2> TAKE j \in Job
    <2>1. /\ jobs[j].state = "queued" /\ jobs[j].attempt = 0
          /\ jobs[j].lease_expires_at = Null /\ jobs[j].available_at = 0
          /\ jobs[j].cancel_requested_at = Null /\ jobs[j].result_id = Null
      OBVIOUS
    <2>2. MaxAttempts[j] \in Nat /\ 0 < MaxAttempts[j] /\ 0 \in 0 .. MaxBudget
      BY BudgetAssumption
    <2>3. jobs[j] \in JobRow
      BY <2>2 DEF JobRow, Unfinished
    <2>4. RowSound(j, jobs[j])
      BY <2>1, <2>2 DEF RowSound, JobChecks, LeasedStates, ResultStates
    <2> QED
      BY <2>3, <2>4
  <1>2. NoAttempt \in AttemptRow
    BY DEF NoAttempt, AttemptRow
  <1>3. jobs \in [Job -> JobRow] /\ attempts \in [Job \X AttemptNo -> AttemptRow]
    BY <1>1, <1>2
  <1>4. StoreTypeOK /\ CommittedSound /\ PendingSound /\ LocksExclude
    BY <1>1, <1>3 DEF StoreTypeOK, CommittedSound, PendingSound, LocksExclude
  <1>5. OneResultPerJob
    BY DEF OneResultPerJob, OneResult, ResultsOf, ResultStates
  <1>6. \A pc \in {"step", "down"} : Fresh(pc) \in WorkerState /\ Fresh(pc).pc = pc
    BY DEF Fresh, WorkerState, PC, Reports
  <1>7. Manned
    BY <1>6 DEF Manned, WorkersSound, WorkerSound, HoldsJob
  <1> QED
    BY <1>4, <1>5, <1>7, IndInvSplit DEF Stored

LEMMA InitSafe == Init => IndInv
  BY InitAtRest, RestSafe

LEMMA NextSafe == IndInv /\ [Next]_vars => IndInv'
  <1> SUFFICES ASSUME IndInv, [Next]_vars PROVE Stored' /\ Manned'
    BY DEF IndInv, Stored, Manned, TypeOK
  <1>1. Stored /\ Manned
    BY IndInvSplit
  <1>2. CASE UNCHANGED vars
    <2>1. Stored'
      BY <1>1, <1>2, SameStored DEF vars
    <2> QED
      BY <1>1, <1>2, <2>1 DEF vars, Manned, WorkersSound, WorkerSound
  <1>3. ASSUME NEW w \in Worker, WorkerStep(w) \/ Fault(w) PROVE Stored' /\ Manned'
    BY <1>1, <1>3, WorkerStepSafe, FaultSafe
  <1>4. ASSUME NEW t \in open, LateCommit(t) PROVE Stored' /\ Manned'
    BY <1>1, <1>4, InstallStored DEF LateCommit, Manned, WorkersSound, WorkerSound
  <1>5. ASSUME NEW t \in open, Rollback(t) PROVE Stored' /\ Manned'
    BY <1>1, <1>5, RollbackStored DEF Rollback, Manned, WorkersSound, WorkerSound
  <1>6. ASSUME NEW j \in Cancellable, Cancel(j) PROVE Stored' /\ Manned'
    BY <1>1, <1>6, CancelAssumption, CancelSafe
  <1>7. CASE Tick
    BY <1>1, <1>7, TickStored DEF Tick, Manned, WorkersSound, WorkerSound
  <1> QED
    BY <1>2, <1>3, <1>4, <1>5, <1>6, <1>7 DEF Next

\* IndInv holds of every reachable state of the fleet (store.py, worker.py).
THEOREM Inductive == Spec => []IndInv
  BY InitSafe, NextSafe, PTL DEF Spec

\* Type correctness of the tables, the open transactions and the workers.
THEOREM TypeCorrect == Spec => []TypeOK
  <1>1. IndInv => TypeOK
    BY DEF IndInv
  <1> QED
    BY <1>1, Inductive, PTL

\* Whatever drops, dies or commits late, a job has exactly one result, the one
\* it points at, if it ended with an outcome, and none if not (publish).
THEOREM ExactlyOneResult == Spec => []OneResultPerJob
  <1>1. IndInv => OneResultPerJob
    BY DEF IndInv
  <1> QED
    BY <1>1, Inductive, PTL

\* A job whose cancel is on its row is held or cancelled, never queued again,
\* finished or a dead letter (publish, release, reap, finish_cancelled).
THEOREM CancelAlwaysWins == Spec => []CancelWins
  <1>1. IndInv => CancelWins
    BY DEF IndInv, CommittedSound, RowSound, CancelWins
  <1> QED
    BY <1>1, Inductive, PTL

HIDE DEF Null, NotEnded

-----------------------------------------------------------------------------
(* The ledger.                                                             *)

\* The null timestamp is no time, and earlier than any.
LEMMA NullFacts == Null \in Int /\ Null \notin Nat /\ \A n \in Nat : Null <= n
  BY DEF Null

\* An attempt that has not ended has none of the endings.
LEMMA NotEndedFacts == NotEnded \notin Endings
  BY DEF NotEnded, Endings

\* What the table says of an attempt it has no row for.
LEMMA NoAttemptFields ==
    /\ NoAttempt.worker_id = NoWorker /\ NoAttempt.claimed_at = Null
    /\ NoAttempt.ended_at = Null /\ NoAttempt.ended_by = NotEnded
  BY DEF NoAttempt

-----------------------------------------------------------------------------
(* A job's row and its attempts change together.                           *)

\* The latest attempt is rewritten and the row keeps its number.
LEMMA LedgerKept ==
    ASSUME NEW row, NEW new, NEW log, NEW next, NEW now,
           row.attempt \in 0 .. MaxBudget,
           LedgerSound(row, log, now),
           new.attempt = row.attempt,
           \A a \in AttemptNo : a # row.attempt => next[a] = log[a],
           row.attempt \in AttemptNo =>
               /\ LogSound(next[row.attempt], now)
               /\ next[row.attempt].claimed_at = log[row.attempt].claimed_at
               /\ LatestSound(new, next[row.attempt])
    PROVE  LedgerSound(new, next, now)
  <1> SUFFICES ASSUME NEW a \in AttemptNo
               PROVE  /\ LogSound(next[a], now)
                      /\ a > row.attempt => next[a] = NoAttempt
                      /\ a <= row.attempt => next[a].claimed_at # Null
                      /\ a < row.attempt => /\ next[a].ended_by \in RetryEndings
                                            /\ next[a].ended_at <= next[a + 1].claimed_at
                      /\ a = row.attempt => LatestSound(new, next[a])
    BY DEF LedgerSound
  <1>1. /\ LogSound(log[a], now)
        /\ a > row.attempt => log[a] = NoAttempt
        /\ a <= row.attempt => log[a].claimed_at # Null
        /\ a < row.attempt => /\ log[a].ended_by \in RetryEndings
                              /\ log[a].ended_at <= log[a + 1].claimed_at
    BY DEF LedgerSound
  <1>2. a \in Nat /\ row.attempt \in Nat /\ MaxBudget \in Nat
    BY BudgetAssumption DEF AttemptNo
  <1>3. CASE a = row.attempt
    BY <1>1, <1>2, <1>3
  <1>4. CASE a > row.attempt
    BY <1>1, <1>2, <1>4
  <1>5. CASE a < row.attempt
    <2>1. a + 1 \in AttemptNo /\ row.attempt \in AttemptNo
      BY <1>2, <1>5 DEF AttemptNo
    <2>2. next[a + 1].claimed_at = log[a + 1].claimed_at
      BY <1>2, <2>1
    <2> QED
      BY <1>1, <1>2, <1>5, <2>2
  <1> QED
    BY <1>2, <1>3, <1>4, <1>5

\* A claim opens the next attempt, after the latest was given back.
LEMMA LedgerClaimed ==
    ASSUME NEW row, NEW new, NEW log, NEW next, NEW now \in Nat,
           row.attempt \in 0 .. MaxBudget, row.state = "queued",
           LedgerSound(row, log, now),
           new.attempt = row.attempt + 1, new.attempt \in AttemptNo,
           \A a \in AttemptNo : a # new.attempt => next[a] = log[a],
           LogSound(next[new.attempt], now),
           next[new.attempt].claimed_at = now,
           LatestSound(new, next[new.attempt])
    PROVE  LedgerSound(new, next, now)
  <1> SUFFICES ASSUME NEW a \in AttemptNo
               PROVE  /\ LogSound(next[a], now)
                      /\ a > new.attempt => next[a] = NoAttempt
                      /\ a <= new.attempt => next[a].claimed_at # Null
                      /\ a < new.attempt => /\ next[a].ended_by \in RetryEndings
                                            /\ next[a].ended_at <= next[a + 1].claimed_at
                      /\ a = new.attempt => LatestSound(new, next[a])
    BY DEF LedgerSound
  <1>1. /\ LogSound(log[a], now)
        /\ a > row.attempt => log[a] = NoAttempt
        /\ a <= row.attempt => log[a].claimed_at # Null
        /\ a < row.attempt => /\ log[a].ended_by \in RetryEndings
                              /\ log[a].ended_at <= log[a + 1].claimed_at
        /\ a = row.attempt => LatestSound(row, log[a])
    BY DEF LedgerSound
  <1>2. a \in Nat /\ row.attempt \in Nat /\ MaxBudget \in Nat
    BY BudgetAssumption DEF AttemptNo
  <1>3. CASE a = new.attempt
    BY <1>1, <1>2, <1>3, NullFacts
  <1>4. CASE a > new.attempt
    BY <1>1, <1>2, <1>4
  <1>5. CASE a = row.attempt
    <2>1. next[a] = log[a] /\ a + 1 = new.attempt
      BY <1>2, <1>5
    <2>2. log[a].ended_at <= now
      BY <1>1 DEF LogSound
    <2>3. log[a].ended_by \in RetryEndings
      BY <1>1, <1>5 DEF LatestSound
    <2> QED
      BY <1>1, <1>2, <1>5, <2>1, <2>2, <2>3
  <1>6. CASE a < row.attempt
    <2>1. a + 1 \in AttemptNo /\ a + 1 # new.attempt /\ a # new.attempt
      BY <1>2, <1>6 DEF AttemptNo
    <2> QED
      BY <1>1, <1>2, <1>6, <2>1
  <1> QED
    BY <1>2, <1>3, <1>4, <1>5, <1>6

\* Time passes.
LEMMA LedgerLater ==
    ASSUME NEW row, NEW log, NEW now \in Nat, NEW later \in Nat, now <= later,
           \A a \in AttemptNo : log[a] \in AttemptRow,
           LedgerSound(row, log, now)
    PROVE  LedgerSound(row, log, later)
  <1>1. ASSUME NEW a \in AttemptNo PROVE LogSound(log[a], later)
    <2>1. LogSound(log[a], now)
      BY DEF LedgerSound
    <2>2. log[a] \in AttemptRow
      OBVIOUS
    <2>3. log[a].ended_at \in Nat \union {Null}
      BY <2>2 DEF AttemptRow
    <2>4. log[a].ended_at <= now
      BY <2>1 DEF LogSound
    <2>5. log[a].ended_at <= later
      BY <2>3, <2>4, NullFacts
    <2> QED
      BY <2>1, <2>5 DEF LogSound
  <1> QED
    BY <1>1 DEF LedgerSound

\* A container's execution is recorded on an attempt that was claimed.
LEMMA LedgerRecorded ==
    ASSUME NEW row, NEW log, NEW next, NEW now, NEW n \in AttemptNo,
           row.attempt \in 0 .. MaxBudget, n <= row.attempt,
           \A a \in AttemptNo : log[a] \in AttemptRow,
           LedgerSound(row, log, now),
           \A a \in AttemptNo \ {n} : next[a] = log[a],
           next[n] = [log[n] EXCEPT !.execution = TRUE]
    PROVE  LedgerSound(row, next, now)
  <1>1. /\ next[n].claimed_at = log[n].claimed_at
        /\ next[n].lease_expires_at = log[n].lease_expires_at
        /\ next[n].ended_at = log[n].ended_at
        /\ next[n].ended_by = log[n].ended_by
    BY DEF AttemptRow
  <1>2. \A a \in AttemptNo : /\ next[a].claimed_at = log[a].claimed_at
                             /\ next[a].lease_expires_at = log[a].lease_expires_at
                             /\ next[a].ended_at = log[a].ended_at
                             /\ next[a].ended_by = log[a].ended_by
    BY <1>1
  <1> SUFFICES ASSUME NEW a \in AttemptNo
               PROVE  /\ LogSound(next[a], now)
                      /\ a > row.attempt => next[a] = NoAttempt
                      /\ a <= row.attempt => next[a].claimed_at # Null
                      /\ a < row.attempt => /\ next[a].ended_by \in RetryEndings
                                            /\ next[a].ended_at <= next[a + 1].claimed_at
                      /\ a = row.attempt => LatestSound(row, next[a])
    BY DEF LedgerSound
  <1>3. /\ LogSound(log[a], now)
        /\ a > row.attempt => log[a] = NoAttempt
        /\ a <= row.attempt => log[a].claimed_at # Null
        /\ a < row.attempt => /\ log[a].ended_by \in RetryEndings
                              /\ log[a].ended_at <= log[a + 1].claimed_at
        /\ a = row.attempt => LatestSound(row, log[a])
    BY DEF LedgerSound
  <1>4. a \in Nat /\ n \in Nat /\ row.attempt \in Nat /\ MaxBudget \in Nat
    BY BudgetAssumption DEF AttemptNo
  <1>5. LogSound(next[a], now)
    BY <1>2, <1>3 DEF LogSound, AttemptChecks, EndedInTime
  <1>6. a > row.attempt => next[a] = NoAttempt
    BY <1>3, <1>4
  <1>7. a < row.attempt => next[a].ended_at <= next[a + 1].claimed_at
    <2> SUFFICES ASSUME a < row.attempt PROVE next[a].ended_at <= next[a + 1].claimed_at
      OBVIOUS
    <2>1. a + 1 \in AttemptNo
      BY <1>4 DEF AttemptNo
    <2> QED
      BY <1>2, <1>3, <2>1
  <1>8. a = row.attempt => LatestSound(row, next[a])
    BY <1>2, <1>3 DEF LatestSound
  <1> QED
    BY <1>2, <1>3, <1>5, <1>6, <1>7, <1>8

-----------------------------------------------------------------------------
(* The transactions that the calls begin.  Booked(t) is what beginning t   *)
(* must establish.                                                         *)

Booked(t) == Moves(t) /\ WritesLatest(t) /\ LeavesRecords(t)

\* What is known of a job whose row is held.
LEMMA HeldLedger ==
    ASSUME Rows, RecordsSound, NEW j \in Job, jobs[j].state \in LeasedStates
    PROVE  LET k == <<j, jobs[j].attempt>>
           IN  /\ k \in Job \X AttemptNo
               /\ attempts[k] \in AttemptRow
               /\ jobs[j].lease_expires_at \in Nat
               /\ attempts[k].ended_by = NotEnded
               /\ attempts[k].ended_at = Null
               /\ attempts[k].claimed_at # Null
               /\ attempts[k].lease_expires_at = jobs[j].lease_expires_at
  <1> DEFINE n == jobs[j].attempt
  <1>1. n \in AttemptNo /\ jobs[j] \in JobRow /\ RowSound(j, jobs[j])
    BY HeldAttempt
  <1>2. attempts[<<j, n>>] \in AttemptRow
    BY <1>1 DEF Rows, StoreTypeOK
  <1>3. jobs[j].lease_expires_at \in Nat
    BY <1>1 DEF RowSound, JobChecks, JobRow
  <1>4. LedgerSound(jobs[j], Logs(j), clock)
    BY DEF RecordsSound
  <1>5. Logs(j)[n] = attempts[<<j, n>>]
    BY <1>1 DEF Logs
  <1>6. n <= n
    BY <1>1, BudgetAssumption DEF AttemptNo
  <1>7. /\ LogSound(attempts[<<j, n>>], clock)
        /\ attempts[<<j, n>>].claimed_at # Null
        /\ LatestSound(jobs[j], attempts[<<j, n>>])
    BY <1>1, <1>4, <1>5, <1>6 DEF LedgerSound
  <1>8. /\ attempts[<<j, n>>].ended_by = NotEnded
        /\ attempts[<<j, n>>].lease_expires_at = jobs[j].lease_expires_at
    BY <1>7 DEF LatestSound
  <1>9. attempts[<<j, n>>].ended_at = Null
    BY <1>7, <1>8 DEF LogSound, AttemptChecks
  <1> QED
    BY <1>1, <1>2, <1>3, <1>7, <1>8, <1>9

\* A transaction that keeps the number of j's attempt.
LEMMA SameAttempt ==
    ASSUME Rows, RecordsSound, NEW t, NEW j \in Job,
           t.rows[j].attempt = jobs[j].attempt,
           \A a \in AttemptNo : <<j, a>> \in DOMAIN t.logs => a = jobs[j].attempt,
           jobs[j].attempt \in AttemptNo =>
               LET k == <<j, jobs[j].attempt>>
                   new == LogsAfter(t, j)[jobs[j].attempt]
               IN  /\ LogSound(new, clock)
                   /\ new.claimed_at = attempts[k].claimed_at
                   /\ LatestSound(t.rows[j], new)
    PROVE  LedgerSound(t.rows[j], LogsAfter(t, j), clock)
  <1>1. LedgerSound(jobs[j], Logs(j), clock)
    BY DEF RecordsSound
  <1>2. jobs[j].attempt \in 0 .. MaxBudget
    BY DEF Rows, StoreTypeOK, JobRow
  <1>3. \A a \in AttemptNo : a # jobs[j].attempt => LogsAfter(t, j)[a] = Logs(j)[a]
    BY DEF LogsAfter, Logs
  <1>4. jobs[j].attempt \in AttemptNo =>
           Logs(j)[jobs[j].attempt] = attempts[<<j, jobs[j].attempt>>]
    BY DEF Logs
  <1> QED
    BY <1>1, <1>2, <1>3, <1>4, LedgerKept

LEMMA ClaimTxnBooked ==
    ASSUME Rows, RecordsSound, NEW w \in Worker, NEW j \in Job, jobs[j].state = "queued"
    PROVE  Booked(ClaimTxn(w, j, clock))
  <1> DEFINE row == jobs[j]
             new == Claimed(row, clock)
             log == Opened(w, clock)
             k   == <<j, row.attempt + 1>>
             t   == ClaimTxn(w, j, clock)
  <1>1. row \in JobRow /\ RowSound(j, row) /\ clock \in Nat
    BY DEF Rows, StoreTypeOK, CommittedSound
  <1>2. /\ new.state = "claimed" /\ new.attempt = row.attempt + 1
        /\ new.attempt \in AttemptNo
    BY <1>1, ClaimedSound
  <1>3. /\ new.cancel_requested_at = row.cancel_requested_at
        /\ new.lease_expires_at = clock + Lease
    BY <1>1 DEF Claimed, JobRow
  <1>4. /\ log.worker_id = w /\ log.claimed_at = clock
        /\ log.lease_expires_at = clock + Lease
        /\ log.ended_at = Null /\ log.ended_by = NotEnded
    BY DEF Opened, NoAttempt
  <1>5. /\ t.rows = One(j, new) /\ t.logs = One(k, log) /\ t.stored = {}
    BY DEF ClaimTxn, Txn
  <1>6. /\ DOMAIN t.rows = {j} /\ t.rows[j] = new
        /\ DOMAIN t.logs = {k} /\ t.logs[k] = log
    BY <1>5 DEF One
  <1>7. LedgerSound(row, Logs(j), clock)
    BY DEF RecordsSound
  <1>8. row.attempt \in 0 .. MaxBudget /\ row.attempt \in Nat /\ new.attempt > row.attempt
    BY <1>1, <1>2, BudgetAssumption DEF JobRow
  <1>9. attempts[k] = NoAttempt
    <2>1. Logs(j)[new.attempt] = attempts[<<j, new.attempt>>]
      BY <1>2 DEF Logs
    <2>2. Logs(j)[new.attempt] = NoAttempt
      BY <1>2, <1>7, <1>8 DEF LedgerSound
    <2> QED
      BY <1>2, <2>1, <2>2
  <1> HIDE DEF new, log, t
  <1>10. Moves(t)
    BY <1>2, <1>3, <1>5, <1>6 DEF Moves, Takes, LeasedStates
  <1>11. WritesLatest(t)
    BY <1>2, <1>6, <1>9, NoAttemptFields DEF WritesLatest
  <1>12. LedgerSound(new, LogsAfter(t, j), clock)
    <2> DEFINE next == LogsAfter(t, j)
    <2>1. \A a \in AttemptNo : a # new.attempt => next[a] = Logs(j)[a]
      BY <1>2, <1>6 DEF LogsAfter, Logs
    <2>2. next[new.attempt] = log
      BY <1>2, <1>6 DEF LogsAfter
    <2>3. LogSound(log, clock)
      BY <1>1, <1>4, NullFacts DEF LogSound, AttemptChecks
    <2>4. LatestSound(new, log)
      BY <1>2, <1>3, <1>4 DEF LatestSound, LeasedStates, ResultStates
    <2> HIDE DEF next
    <2>5. LedgerSound(new, next, clock)
      BY <1>1, <1>2, <1>4, <1>7, <1>8, <2>1, <2>2, <2>3, <2>4, LedgerClaimed
    <2> QED
      BY <2>5 DEF next
  <1>13. EndSound(j, new)
    BY <1>2 DEF EndSound, ResultStates
  <1>14. LeavesRecords(t)
    BY <1>5, <1>6, <1>12, <1>13 DEF LeavesRecords
  <1> QED
    BY <1>10, <1>11, <1>14 DEF Booked, t

\* A transaction of a held job's row that keeps it held, by a start or a
\* heartbeat.
LEMMA StartTxnBooked ==
    ASSUME Rows, RecordsSound, NEW w \in Worker, NEW j \in Job,
           jobs[j].state \in LeasedStates
    PROVE  Booked(StartTxn(w, j))
  <1> DEFINE row == jobs[j]
             new == [row EXCEPT !.state = "running"]
             k   == <<j, row.attempt>>
             t   == StartTxn(w, j)
  <1>1. row \in JobRow /\ row.attempt \in AttemptNo
    BY HeldAttempt
  <1>2. /\ new.state = "running" /\ new.attempt = row.attempt
        /\ new.cancel_requested_at = row.cancel_requested_at
        /\ new.lease_expires_at = row.lease_expires_at
    BY <1>1 DEF JobRow
  <1>3. t.rows = One(j, new) /\ t.logs = NoRows /\ t.stored = {}
    BY DEF StartTxn, Txn
  <1>4. DOMAIN t.rows = {j} /\ t.rows[j] = new /\ DOMAIN t.logs = {}
    BY <1>3 DEF One, NoRows
  <1> HIDE DEF new, t
  <1>5. Moves(t)
    BY <1>2, <1>3, <1>4 DEF Moves, Keeps, LeasedStates
  <1>6. WritesLatest(t)
    BY <1>4 DEF WritesLatest
  <1>7. LogsAfter(t, j)[row.attempt] = attempts[k]
    BY <1>1, <1>4 DEF LogsAfter
  <1>8. LogSound(attempts[k], clock) /\ LatestSound(new, attempts[k])
    <2>1. LogSound(Logs(j)[row.attempt], clock)
      BY <1>1 DEF RecordsSound, LedgerSound
    <2>2. LogSound(attempts[k], clock)
      BY <1>1, <2>1 DEF Logs
    <2> QED
      BY <1>2, <2>2, HeldLedger DEF LatestSound, LeasedStates, ResultStates
  <1>9. LedgerSound(new, LogsAfter(t, j), clock)
    BY <1>2, <1>4, <1>7, <1>8, SameAttempt
  <1>10. EndSound(j, new)
    BY <1>2 DEF EndSound, ResultStates
  <1>11. LeavesRecords(t)
    BY <1>3, <1>4, <1>9, <1>10 DEF LeavesRecords
  <1> QED
    BY <1>5, <1>6, <1>11 DEF Booked, t

LEMMA HeartbeatTxnBooked ==
    ASSUME Rows, RecordsSound, NEW w \in Worker, NEW j \in Job, NEW a,
           Held(jobs[j], a)
    PROVE  Booked(HeartbeatTxn(w, j, a, clock))
  <1> DEFINE row == jobs[j]
             new == [row EXCEPT !.lease_expires_at = clock + Lease]
             k   == <<j, row.attempt>>
             log == [attempts[k] EXCEPT !.lease_expires_at = clock + Lease]
             t   == HeartbeatTxn(w, j, a, clock)
  <1>0. a = row.attempt /\ row.state \in LeasedStates /\ clock \in Nat
    BY DEF Held, Rows, StoreTypeOK
  <1>1. row \in JobRow /\ row.attempt \in AttemptNo
    BY <1>0, HeldAttempt
  <1>2. /\ new.state = row.state /\ new.attempt = row.attempt
        /\ new.cancel_requested_at = row.cancel_requested_at
        /\ new.lease_expires_at = clock + Lease
    BY <1>1 DEF JobRow
  <1>3. /\ log.worker_id = attempts[k].worker_id
        /\ log.claimed_at = attempts[k].claimed_at
        /\ log.lease_expires_at = clock + Lease
        /\ log.ended_at = Null /\ log.ended_by = NotEnded
    BY <1>0, HeldLedger DEF AttemptRow
  <1>4. t.rows = One(j, new) /\ t.logs = One(k, log) /\ t.stored = {}
    BY <1>0 DEF HeartbeatTxn, Txn
  <1>5. /\ DOMAIN t.rows = {j} /\ t.rows[j] = new
        /\ DOMAIN t.logs = {k} /\ t.logs[k] = log
    BY <1>4 DEF One
  <1> HIDE DEF new, log, t
  <1>6. Moves(t)
    BY <1>0, <1>2, <1>4, <1>5 DEF Moves, Keeps
  <1>7. WritesLatest(t)
    BY <1>0, <1>2, <1>3, <1>5, HeldLedger DEF WritesLatest
  <1>8. LogsAfter(t, j)[row.attempt] = log
    BY <1>1, <1>5 DEF LogsAfter
  <1>9. LogSound(log, clock) /\ LatestSound(new, log)
    BY <1>0, <1>2, <1>3, NullFacts DEF LogSound, AttemptChecks, LatestSound, LeasedStates, ResultStates
  <1>10. LedgerSound(new, LogsAfter(t, j), clock)
    BY <1>2, <1>3, <1>5, <1>8, <1>9, SameAttempt
  <1>11. EndSound(j, new)
    BY <1>0, <1>2 DEF EndSound, ResultStates, LeasedStates
  <1>12. LeavesRecords(t)
    BY <1>4, <1>5, <1>10, <1>11 DEF LeavesRecords
  <1> QED
    BY <1>6, <1>7, <1>12 DEF Booked, t

LEMMA CancelTxnBooked ==
    ASSUME Rows, RecordsSound, NEW j \in Job, jobs[j].state \in Unfinished
    PROVE  Booked(CancelTxn(j, clock))
  <1> DEFINE row == jobs[j]
             new == CancelAsked(row, clock)
             t   == CancelTxn(j, clock)
  <1>1. row \in JobRow /\ clock \in Nat
    BY DEF Rows, StoreTypeOK
  <1>2. /\ new.state = IF row.state = "queued" THEN "cancelled" ELSE row.state
        /\ new.attempt = row.attempt
        /\ new.cancel_requested_at # Null
        /\ new.lease_expires_at = row.lease_expires_at
    BY <1>1, NullFacts DEF CancelAsked, JobRow
  <1>3. t.rows = One(j, new) /\ t.logs = NoRows /\ t.stored = {}
    BY DEF CancelTxn, Txn
  <1>4. DOMAIN t.rows = {j} /\ t.rows[j] = new /\ DOMAIN t.logs = {}
    BY <1>3 DEF One, NoRows
  <1> HIDE DEF new, t
  <1>5. Moves(t)
    BY <1>2, <1>3, <1>4 DEF Moves, AsksCancel
  <1>6. WritesLatest(t)
    BY <1>4 DEF WritesLatest
  <1>7. ASSUME row.attempt \in AttemptNo
        PROVE  /\ LogsAfter(t, j)[row.attempt] = attempts[<<j, row.attempt>>]
               /\ LogSound(attempts[<<j, row.attempt>>], clock)
               /\ LatestSound(new, attempts[<<j, row.attempt>>])
    <2>1. LogsAfter(t, j)[row.attempt] = attempts[<<j, row.attempt>>]
      BY <1>4, <1>7 DEF LogsAfter
    <2>2. Logs(j)[row.attempt] = attempts[<<j, row.attempt>>]
      BY <1>7 DEF Logs
    <2>3. LogSound(Logs(j)[row.attempt], clock) /\ LatestSound(row, Logs(j)[row.attempt])
      BY <1>7 DEF RecordsSound, LedgerSound
    <2>4. LatestSound(new, attempts[<<j, row.attempt>>])
      BY <1>2, <2>2, <2>3 DEF LatestSound, Unfinished, LeasedStates, ResultStates
    <2> QED
      BY <2>1, <2>2, <2>3, <2>4
  <1>8. LedgerSound(new, LogsAfter(t, j), clock)
    BY <1>2, <1>4, <1>7, SameAttempt
  <1>9. EndSound(j, new)
    BY <1>2 DEF EndSound, Unfinished, LeasedStates, ResultStates
  <1>10. LeavesRecords(t)
    BY <1>3, <1>4, <1>8, <1>9 DEF LeavesRecords
  <1> QED
    BY <1>5, <1>6, <1>10 DEF Booked, t

\* What ending an attempt leaves of its row.
LEMMA EndedFields ==
    ASSUME NEW log \in AttemptRow, NEW at, NEW ending
    PROVE  LET new == Ended(log, at, ending)
           IN  /\ new.worker_id = log.worker_id
               /\ new.claimed_at = log.claimed_at
               /\ new.lease_expires_at = log.lease_expires_at
               /\ new.ended_at = at /\ new.ended_by = ending
  BY DEF Ended, AttemptRow

LEMMA FinishCancelledTxnBooked ==
    ASSUME Rows, RecordsSound, NEW w \in Worker, NEW j \in Job, NEW a,
           NEW at \in Nat, at <= clock, CancelDue(jobs[j], a, at)
    PROVE  Booked(FinishCancelledTxn(w, j, a, at))
  <1> DEFINE row == jobs[j]
             new == CancelDone(row)
             k   == <<j, row.attempt>>
             log == Ended(attempts[k], at, "cancelled")
             t   == FinishCancelledTxn(w, j, a, at)
  <1>0. /\ a = row.attempt /\ row.state \in LeasedStates
        /\ row.lease_expires_at > at /\ row.cancel_requested_at # Null
    BY DEF CancelDue, HeldLive, Held
  <1>1. row \in JobRow /\ row.attempt \in AttemptNo
    BY <1>0, HeldAttempt
  <1>2. /\ new.state = "cancelled" /\ new.attempt = row.attempt
        /\ new.cancel_requested_at = row.cancel_requested_at
    BY <1>1 DEF CancelDone, JobRow
  <1>3. /\ log.worker_id = attempts[k].worker_id
        /\ log.claimed_at = attempts[k].claimed_at
        /\ log.lease_expires_at = row.lease_expires_at
        /\ log.ended_at = at /\ log.ended_by = "cancelled"
    BY <1>0, HeldLedger, EndedFields
  <1>4. t.rows = One(j, new) /\ t.logs = One(k, log) /\ t.stored = {}
    BY <1>0 DEF FinishCancelledTxn, Txn
  <1>5. /\ DOMAIN t.rows = {j} /\ t.rows[j] = new
        /\ DOMAIN t.logs = {k} /\ t.logs[k] = log
    BY <1>4 DEF One
  <1> HIDE DEF new, log, t
  <1>6. Moves(t)
    BY <1>0, <1>2, <1>4, <1>5 DEF Moves, GivesBack
  <1>7. WritesLatest(t)
    BY <1>0, <1>2, <1>3, <1>5, HeldLedger DEF WritesLatest
  <1>8. LogsAfter(t, j)[row.attempt] = log
    BY <1>1, <1>5 DEF LogsAfter
  <1>9. "cancelled" # NotEnded /\ at # Null
    BY NullFacts, NotEndedFacts DEF Endings
  <1>10. row.lease_expires_at \in Nat
    BY <1>0, HeldLedger
  <1>11. LogSound(log, clock)
    BY <1>0, <1>3, <1>9, <1>10 DEF LogSound, AttemptChecks, EndedInTime
  <1>12. LatestSound(new, log)
    BY <1>2, <1>3 DEF LatestSound, LeasedStates, ResultStates
  <1>13. LedgerSound(new, LogsAfter(t, j), clock)
    BY <1>2, <1>3, <1>5, <1>8, <1>11, <1>12, SameAttempt
  <1>14. EndSound(j, new)
    BY <1>0, <1>2 DEF EndSound, ResultStates
  <1>15. LeavesRecords(t)
    BY <1>4, <1>5, <1>13, <1>14 DEF LeavesRecords
  <1> QED
    BY <1>6, <1>7, <1>15 DEF Booked, t

LEMMA PublishTxnBooked ==
    ASSUME Rows, RecordsSound, NEW w \in Worker, NEW j \in Job, NEW a,
           NEW outcome \in Outcomes,
           HeldLive(jobs[j], a, clock), jobs[j].cancel_requested_at = Null,
           attempts[<<j, a>>].worker_id = w
    PROVE  Booked(PublishTxn(w, j, a, clock, outcome))
  <1> DEFINE row == jobs[j]
             new == Published(row, outcome)
             k   == <<j, row.attempt>>
             log == Ended(attempts[k], clock, "published")
             res == Result(j, row.attempt, w, clock, outcome)
             t   == PublishTxn(w, j, a, clock, outcome)
  <1>0. /\ a = row.attempt /\ row.state \in LeasedStates
        /\ row.lease_expires_at > clock /\ clock \in Nat
    BY DEF HeldLive, Held, Rows, StoreTypeOK
  <1>1. row \in JobRow /\ row.attempt \in AttemptNo
    BY <1>0, HeldAttempt
  <1>2. /\ new.state = outcome /\ new.attempt = row.attempt
        /\ new.cancel_requested_at = row.cancel_requested_at
        /\ new.result_id = row.attempt
    BY <1>1 DEF Published, JobRow
  <1>3. /\ log.worker_id = w
        /\ log.claimed_at = attempts[k].claimed_at
        /\ log.lease_expires_at = row.lease_expires_at
        /\ log.ended_at = clock /\ log.ended_by = "published"
    BY <1>0, HeldLedger, EndedFields
  <1>4. t.rows = One(j, new) /\ t.logs = One(k, log) /\ t.stored = {res}
    BY <1>0 DEF PublishTxn, Txn
  <1>5. /\ DOMAIN t.rows = {j} /\ t.rows[j] = new
        /\ DOMAIN t.logs = {k} /\ t.logs[k] = log
    BY <1>4 DEF One
  <1>6. /\ res.job_id = j /\ res.attempt = row.attempt /\ res.worker_id = w
        /\ res.published_at = clock /\ res.outcome = outcome
    BY DEF Result
  <1> HIDE DEF new, log, t, res
  <1>7. Moves(t)
    BY <1>0, <1>2, <1>4, <1>5, <1>6 DEF Moves, Finishes
  <1>8. WritesLatest(t)
    BY <1>0, <1>2, <1>3, <1>5, HeldLedger DEF WritesLatest
  <1>9. LogsAfter(t, j)[row.attempt] = log
    BY <1>1, <1>5 DEF LogsAfter
  <1>10. "published" # NotEnded /\ clock # Null
    BY <1>0, NullFacts, NotEndedFacts DEF Endings
  <1>11. LogSound(log, clock)
    BY <1>0, <1>3, <1>10 DEF LogSound, AttemptChecks, EndedInTime, LiveEndings
  <1>12. outcome \in ResultStates
    BY OutcomeAssumption DEF ResultStates
  <1>13. LatestSound(new, log)
    BY <1>2, <1>3, <1>12 DEF LatestSound, LeasedStates, ResultStates
  <1>14. LedgerSound(new, LogsAfter(t, j), clock)
    BY <1>2, <1>3, <1>5, <1>9, <1>11, <1>13, SameAttempt
  <1>15. EndSound(j, new)
    BY <1>2, <1>12 DEF EndSound, ResultStates
  <1>16. ResultSound(res, LogsAfter(t, j))
    BY <1>0, <1>3, <1>6, <1>9 DEF ResultSound
  <1>17. LeavesRecords(t)
    BY <1>4, <1>5, <1>6, <1>14, <1>15, <1>16 DEF LeavesRecords
  <1> QED
    BY <1>7, <1>8, <1>17 DEF Booked, t

\* What giving a job back leaves of its row.
LEMMA GivenBackFields ==
    ASSUME NEW j \in Job, NEW row \in JobRow, NEW at \in Nat
    PROVE  LET new == GivenBack(j, row, at)
           IN  /\ new.state = IF row.cancel_requested_at # Null THEN "cancelled"
                              ELSE IF row.attempt < MaxAttempts[j] THEN "queued"
                              ELSE "dead_lettered"
               /\ new.attempt = row.attempt
               /\ new.cancel_requested_at = row.cancel_requested_at
  BY DEF GivenBack, Retried, JobRow

LEMMA EndAttemptsTxnBooked ==
    ASSUME Rows, RecordsSound, NEW w \in Worker, NEW S \in SUBSET Job,
           NEW at \in Nat, at <= clock, NEW ending \in RetryEndings,
           \A j \in S : jobs[j].state \in LeasedStates,
           ending = "lease_expired" => \A j \in S : jobs[j].lease_expires_at <= at,
           ending = "released" => \A j \in S : jobs[j].lease_expires_at > at
    PROVE  Booked(EndAttemptsTxn(w, S, at, ending))
  <1> DEFINE K == {<<j, jobs[j].attempt>> : j \in S}
             t == EndAttemptsTxn(w, S, at, ending)
  <1>1. /\ t.rows = [j \in S |-> GivenBack(j, jobs[j], at)]
        /\ t.logs = [k \in K |-> Ended(attempts[k], at, ending)]
        /\ t.stored = {}
    BY DEF EndAttemptsTxn, Txn
  <1>2. clock \in Nat /\ at # Null /\ ending # NotEnded
    BY NullFacts, NotEndedFacts DEF Rows, StoreTypeOK, RetryEndings, Endings
  <1> HIDE DEF t
  <1>3. ASSUME NEW j \in S
        PROVE  /\ GivesBack(j, jobs[j], t.rows[j])
               /\ LedgerSound(t.rows[j], LogsAfter(t, j), clock)
               /\ EndSound(j, t.rows[j])
               /\ t.rows[j].attempt = jobs[j].attempt
               /\ attempts[<<j, jobs[j].attempt>>].ended_by = NotEnded
               /\ t.logs[<<j, jobs[j].attempt>>].worker_id
                    = attempts[<<j, jobs[j].attempt>>].worker_id
    <2> DEFINE row == jobs[j]
               new == t.rows[j]
               k   == <<j, row.attempt>>
               log == Ended(attempts[k], at, ending)
    <2>1. row \in JobRow /\ row.attempt \in AttemptNo /\ row.attempt \in Nat
      BY HeldAttempt, BudgetAssumption DEF AttemptNo
    <2>2. /\ new.state = IF row.cancel_requested_at # Null THEN "cancelled"
                         ELSE IF row.attempt < MaxAttempts[j] THEN "queued"
                         ELSE "dead_lettered"
          /\ new.attempt = row.attempt
          /\ new.cancel_requested_at = row.cancel_requested_at
      <3>1. new = GivenBack(j, row, at)
        BY <1>1
      <3>2. LET given == GivenBack(j, jobs[j], at)
            IN  /\ given.state = IF jobs[j].cancel_requested_at # Null THEN "cancelled"
                                ELSE IF jobs[j].attempt < MaxAttempts[j] THEN "queued"
                                ELSE "dead_lettered"
                /\ given.attempt = jobs[j].attempt
                /\ given.cancel_requested_at = jobs[j].cancel_requested_at
        BY <2>1, GivenBackFields
      <3> QED
        BY <3>1, <3>2
    <2>3. /\ attempts[k].ended_by = NotEnded
          /\ attempts[k] \in AttemptRow
          /\ attempts[k].lease_expires_at = row.lease_expires_at
          /\ row.lease_expires_at \in Nat
      BY HeldLedger
    <2>4. /\ log.worker_id = attempts[k].worker_id
          /\ log.claimed_at = attempts[k].claimed_at
          /\ log.lease_expires_at = row.lease_expires_at
          /\ log.ended_at = at /\ log.ended_by = ending
      BY <2>3, EndedFields
    <2>5. k \in DOMAIN t.logs /\ t.logs[k] = log
      BY <1>1
    <2>6. LogsAfter(t, j)[row.attempt] = log
      BY <2>1, <2>5 DEF LogsAfter
    <2>7. \A a \in AttemptNo : <<j, a>> \in DOMAIN t.logs => a = row.attempt
      BY <1>1
    <2> HIDE DEF log
    <2>8. LogSound(log, clock)
      BY <1>2, <2>3, <2>4 DEF LogSound, AttemptChecks, EndedInTime, LiveEndings, RetryEndings
    <2>9. LatestSound(new, log)
      <3>1. new.state \in {"cancelled", "queued", "dead_lettered"}
        BY <2>2
      <3> QED
        BY <2>4, <3>1 DEF LatestSound, LeasedStates, ResultStates
    <2>10. LedgerSound(new, LogsAfter(t, j), clock)
      BY <2>2, <2>4, <2>6, <2>7, <2>8, <2>9, SameAttempt
    <2>11. MaxAttempts[j] \in Nat
      BY BudgetAssumption
    <2>12. EndSound(j, new)
      BY <2>1, <2>2, <2>11 DEF EndSound, ResultStates
    <2>13. GivesBack(j, row, new)
      BY <2>2 DEF GivesBack
    <2> QED
      BY <2>2, <2>3, <2>4, <2>5, <2>10, <2>12, <2>13
  <1>4. Moves(t)
    BY <1>1, <1>3 DEF Moves
  <1>5. WritesLatest(t)
    <2> SUFFICES ASSUME NEW k \in DOMAIN t.logs
                 PROVE  /\ k[1] \in DOMAIN t.rows
                        /\ k[2] = t.rows[k[1]].attempt
                        /\ attempts[k].ended_by = NotEnded
                        /\ t.logs[k].worker_id = attempts[k].worker_id
      BY DEF WritesLatest
    <2>1. PICK j \in S : k = <<j, jobs[j].attempt>>
      BY <1>1
    <2> QED
      BY <1>1, <1>3, <2>1
  <1>6. LeavesRecords(t)
    BY <1>1, <1>3 DEF LeavesRecords
  <1> QED
    BY <1>4, <1>5, <1>6 DEF Booked, t

-----------------------------------------------------------------------------
(* What each kind of step on the store does to the records.                *)

Books == RecordsSound /\ TxnsSound

\* No step on the store rewrites history, and none but a publish adds a
\* result to those stored or about to be.
Onward ==
    /\ \A j \in Job : /\ jobs'[j].attempt >= jobs[j].attempt
                      /\ jobs[j].state \in FinalStates => jobs'[j] = jobs[j]
    /\ \A k \in Job \X AttemptNo :
         /\ attempts[k].ended_by # NotEnded =>
              [attempts'[k] EXCEPT !.execution = FALSE]
                  = [attempts[k] EXCEPT !.execution = FALSE]
         /\ attempts[k].claimed_at # Null =>
              attempts'[k].worker_id = attempts[k].worker_id
    /\ results \subseteq results'

\* A step that leaves the committed rows alone.
LEMMA SameOnward ==
    ASSUME StoreTypeOK, UNCHANGED <<jobs, attempts, results>>
    PROVE  Onward
  <1>1. \A j \in Job : jobs[j].attempt \in Int
    BY BudgetAssumption DEF StoreTypeOK, JobRow
  <1> QED
    BY <1>1 DEF Onward

LEMMA BeginBooks ==
    ASSUME Stored, Books, NEW t, Booked(t), Begin(t)
    PROVE  Books' /\ Onward
  <1>1. /\ jobs' = jobs /\ attempts' = attempts /\ results' = results /\ clock' = clock
        /\ open' = open \union {t}
    BY DEF Begin
  <1>2. RecordsSound'
    BY <1>1 DEF Books, RecordsSound, Logs
  <1>3. \A u \in open' : Booked(u)
    BY <1>1 DEF Books, TxnsSound, Booked
  <1>4. \A u \in open' : Booked(u)'
    BY <1>1, <1>3 DEF Booked, Moves, WritesLatest, LeavesRecords, LogsAfter
  <1> QED
    BY <1>1, <1>2, <1>4, SameOnward DEF Books, TxnsSound, Booked, Stored

\* What is known of a transaction that may commit.
LEMMA GoodFacts ==
    ASSUME Stored, Books, NEW t, Good(t), Booked(t)
    PROVE  /\ TxnOK(t) /\ TxnSound(t) /\ Booked(t)
           /\ Rows /\ clock \in Nat
           /\ \A j \in DOMAIN t.rows :
                /\ j \in Job /\ jobs[j] \in JobRow /\ t.rows[j] \in JobRow
                /\ jobs[j].state \in Unfinished
                /\ t.rows[j].attempt >= jobs[j].attempt
                /\ ResultsOf(j) = {}
  <1>1. TxnOK(t) /\ TxnSound(t) /\ Booked(t) /\ Rows /\ clock \in Nat
    BY DEF Stored, Rows, StoreTypeOK, Good
  <1>2. ASSUME NEW j \in DOMAIN t.rows
        PROVE  /\ j \in Job /\ jobs[j] \in JobRow /\ t.rows[j] \in JobRow
               /\ jobs[j].state \in Unfinished
               /\ t.rows[j].attempt >= jobs[j].attempt
               /\ ResultsOf(j) = {}
    <2>1. j \in Job /\ t.rows[j] \in JobRow
      BY <1>1 DEF TxnOK
    <2>2. jobs[j] \in JobRow
      BY <1>1, <2>1 DEF Rows, StoreTypeOK
    <2>3. jobs[j].attempt \in Nat
      BY <2>2, BudgetAssumption DEF JobRow
    <2>4. t.rows[j].attempt = jobs[j].attempt \/ t.rows[j].attempt = jobs[j].attempt + 1
      BY <1>1 DEF Booked, Moves, Takes, Keeps, AsksCancel, Finishes, GivesBack
    <2>5. jobs[j].state \in Unfinished
      BY <1>1 DEF TxnSound
    <2>6. ResultsOf(j) = {}
      BY <2>1, <2>5 DEF Stored, OneResultPerJob, OneResult, Unfinished, LeasedStates,
         ResultStates
    <2> QED
      BY <2>1, <2>2, <2>3, <2>4, <2>5, <2>6
  <1> QED
    BY <1>1, <1>2

\* And of an open one.
LEMMA OpenFacts ==
    ASSUME Stored, Books, NEW t \in open
    PROVE  /\ TxnOK(t) /\ TxnSound(t) /\ Booked(t)
           /\ Rows /\ clock \in Nat
           /\ \A j \in DOMAIN t.rows :
                /\ j \in Job /\ jobs[j] \in JobRow /\ t.rows[j] \in JobRow
                /\ jobs[j].state \in Unfinished
                /\ t.rows[j].attempt >= jobs[j].attempt
                /\ ResultsOf(j) = {}
  <1>1. Good(t) /\ Booked(t)
    BY DEF Stored, StoreTypeOK, PendingSound, Good, Books, TxnsSound, Booked
  <1> QED
    BY <1>1, GoodFacts

LEMMA LandBooks ==
    ASSUME Stored, Books, NEW t, Good(t), Booked(t), Lands(t), LeavesApart(t)
    PROVE  Books' /\ Onward
  <1>1. /\ TxnOK(t) /\ TxnSound(t) /\ Booked(t) /\ Rows
        /\ \A j \in DOMAIN t.rows : /\ j \in Job
                                    /\ jobs[j].state \in Unfinished
                                    /\ t.rows[j].attempt >= jobs[j].attempt
                                    /\ ResultsOf(j) = {}
    BY GoodFacts DEF Good
  <1>2. /\ jobs' = [j \in Job |-> IF j \in DOMAIN t.rows THEN t.rows[j] ELSE jobs[j]]
        /\ attempts' = [k \in Job \X AttemptNo |->
                          IF k \in DOMAIN t.logs THEN t.logs[k] ELSE attempts[k]]
        /\ results' = results \union t.stored
        /\ open' \subseteq open
        /\ clock' = clock
    BY DEF Lands, LeavesApart
  <1>3. \A k \in DOMAIN t.logs : /\ k \in Job \X AttemptNo
                                 /\ k[1] \in DOMAIN t.rows
                                 /\ attempts[k].ended_by = NotEnded
                                 /\ attempts[k].claimed_at # Null =>
                                      t.logs[k].worker_id = attempts[k].worker_id
    BY <1>1 DEF Booked, WritesLatest, TxnOK
  <1>4. Onward
    <2>1. ASSUME NEW j \in Job
          PROVE  /\ jobs'[j].attempt >= jobs[j].attempt
                 /\ jobs[j].state \in FinalStates => jobs'[j] = jobs[j]
      <3>1. jobs[j].attempt \in Nat
        BY <1>1, BudgetAssumption DEF Rows, StoreTypeOK, JobRow
      <3>2. CASE j \in DOMAIN t.rows
        BY <1>1, <1>2, <3>2 DEF Unfinished, LeasedStates, FinalStates, ResultStates
      <3>3. CASE j \notin DOMAIN t.rows
        BY <1>2, <3>1, <3>3
      <3> QED
        BY <3>2, <3>3
    <2>2. ASSUME NEW k \in Job \X AttemptNo
          PROVE  /\ attempts[k].ended_by # NotEnded => attempts'[k] = attempts[k]
                 /\ attempts[k].claimed_at # Null =>
                      attempts'[k].worker_id = attempts[k].worker_id
      BY <1>2, <1>3
    <2> QED
      BY <1>2, <2>1, <2>2 DEF Onward
  <1>5. ASSUME NEW j \in Job, j \notin DOMAIN t.rows
        PROVE  /\ jobs'[j] = jobs[j]
               /\ \A a \in AttemptNo : attempts'[<<j, a>>] = attempts[<<j, a>>]
               /\ Logs(j)' = Logs(j)
    <2>1. \A a \in AttemptNo : <<j, a>> \notin DOMAIN t.logs
      BY <1>3, <1>5
    <2>2. \A a \in AttemptNo : attempts'[<<j, a>>] = attempts[<<j, a>>]
      BY <1>2, <2>1
    <2>3. Logs(j)' = Logs(j)
      BY <2>2 DEF Logs
    <2> QED
      BY <1>2, <1>5, <2>2, <2>3
  <1>6. ASSUME NEW j \in DOMAIN t.rows
        PROVE  jobs'[j] = t.rows[j] /\ Logs(j)' = LogsAfter(t, j)
    <2>1. \A a \in AttemptNo : attempts'[<<j, a>>] = LogsAfter(t, j)[a]
      BY <1>1, <1>2 DEF LogsAfter
    <2>2. Logs(j)' = LogsAfter(t, j)
      BY <2>1 DEF Logs, LogsAfter
    <2> QED
      BY <1>1, <1>2, <2>2
  <1>7. RecordsSound'
    <2>1. ASSUME NEW j \in Job
          PROVE  LedgerSound(jobs'[j], Logs(j)', clock') /\ EndSound(j, jobs'[j])
      <3>1. CASE j \in DOMAIN t.rows
        BY <1>1, <1>2, <1>6, <3>1 DEF Booked, LeavesRecords
      <3>2. CASE j \notin DOMAIN t.rows
        BY <1>2, <1>5, <3>2 DEF Books, RecordsSound
      <3> QED
        BY <3>1, <3>2
    <2>2. ASSUME NEW r \in results' PROVE ResultSound(r, Logs(r.job_id)')
      <3>1. CASE r \in t.stored
        <4>1. r.job_id \in DOMAIN t.rows
          BY <1>1, <3>1 DEF TxnSound
        <4> QED
          BY <1>1, <1>6, <3>1, <4>1 DEF Booked, LeavesRecords
      <3>2. CASE r \in results
        <4>1. r.job_id \in Job
          BY <1>1, <3>2 DEF Rows, StoreTypeOK, ResultRow
        <4>2. r.job_id \notin DOMAIN t.rows
          BY <1>1, <3>2 DEF ResultsOf
        <4> QED
          BY <1>5, <3>2, <4>1, <4>2 DEF Books, RecordsSound
      <3> QED
        BY <1>2, <3>1, <3>2
    <2> QED
      BY <2>1, <2>2 DEF RecordsSound
  <1>8. TxnsSound'
    <2> SUFFICES ASSUME NEW u \in open' PROVE Booked(u)'
      BY DEF TxnsSound, Booked
    <2>1. u \in open
      BY <1>2
    <2>2. TxnOK(u) /\ TxnSound(u) /\ Booked(u)
      BY <2>1, OpenFacts
    <2>3. \A j \in DOMAIN u.rows : j \in Job /\ j \notin DOMAIN t.rows
      BY <2>2 DEF LeavesApart, TxnOK
    <2>4. \A j \in DOMAIN u.rows : jobs'[j] = jobs[j] /\ LogsAfter(u, j)' = LogsAfter(u, j)
      BY <1>5, <2>3 DEF LogsAfter
    <2>5. \A k \in DOMAIN u.logs : attempts'[k] = attempts[k]
      <3> TAKE k \in DOMAIN u.logs
      <3>1. k[1] \in DOMAIN u.rows /\ k \in Job \X AttemptNo
        BY <2>2 DEF Booked, WritesLatest, TxnOK
      <3>2. k \notin DOMAIN t.logs
        BY <1>3, <2>3, <3>1
      <3> QED
        BY <1>2, <3>1, <3>2
    <2>6. Moves(u)'
      BY <2>2, <2>4 DEF Booked, Moves
    <2>7. WritesLatest(u)'
      BY <2>2, <2>5 DEF Booked, WritesLatest
    <2>8. \A r \in u.stored : r.job_id \in DOMAIN u.rows
      BY <2>2 DEF TxnSound
    <2>9. LeavesRecords(u)'
      BY <1>2, <2>2, <2>4, <2>8 DEF Booked, LeavesRecords
    <2> QED
      BY <2>6, <2>7, <2>9 DEF Booked
  <1> QED
    BY <1>4, <1>7, <1>8 DEF Books

LEMMA InstallBooks ==
    ASSUME Stored, Books, NEW t \in open, Install(t)
    PROVE  Books' /\ Onward
  <1>1. Booked(t)
    BY OpenFacts
  <1> QED
    BY <1>1, InstallLands, LandBooks

\* A rollback, or a session abandoned by its worker.
LEMMA FewerOpenBooks ==
    ASSUME Stored, Books, UNCHANGED <<clock, jobs, attempts, results>>,
           \A u \in open' : \E t \in open :
               u.rows = t.rows /\ u.logs = t.logs /\ u.stored = t.stored
    PROVE  Books' /\ Onward
  <1>1. RecordsSound'
    BY DEF Books, RecordsSound, Logs
  <1>2. \A t \in open : Booked(t)
    BY DEF Books, TxnsSound, Booked
  <1>3. ASSUME NEW u \in open' PROVE Booked(u)
    <2>1. PICK t \in open : u.rows = t.rows /\ u.logs = t.logs /\ u.stored = t.stored
      BY <1>3
    <2>2. Booked(t)
      BY <1>2
    <2>3. \A j : LogsAfter(u, j) = LogsAfter(t, j)
      BY <2>1 DEF LogsAfter
    <2> QED
      BY <2>1, <2>2, <2>3 DEF Booked, Moves, WritesLatest, LeavesRecords
  <1>4. \A u \in open' : Booked(u)'
    BY <1>3 DEF Booked, Moves, WritesLatest, LeavesRecords, LogsAfter
  <1> QED
    BY <1>1, <1>4, SameOnward DEF Books, TxnsSound, Booked, Stored

LEMMA SameBooks ==
    ASSUME Stored, Books, UNCHANGED storeVars
    PROVE  Books' /\ Onward
  BY FewerOpenBooks DEF storeVars

LEMMA TickBooks ==
    ASSUME Stored, Books, Tick
    PROVE  Books' /\ Onward
  <1>1. /\ clock \in Nat /\ clock' \in Nat /\ clock <= clock'
        /\ UNCHANGED <<jobs, attempts, results, open>>
    BY DEF Tick, Stored, StoreTypeOK
  <1>2. RecordsSound'
    <2>1. \A j \in Job : \A a \in AttemptNo : Logs(j)[a] \in AttemptRow
      BY DEF Stored, StoreTypeOK, Logs
    <2>2. \A j \in Job : LedgerSound(jobs[j], Logs(j), clock')
      BY <1>1, <2>1, LedgerLater DEF Books, RecordsSound
    <2> QED
      BY <1>1, <2>2 DEF Books, RecordsSound, Logs
  <1>3. ASSUME NEW u \in open PROVE Booked(u)'
    <2>1. Booked(u) /\ TxnOK(u)
      BY OpenFacts
    <2>2. \A j \in DOMAIN u.rows : \A a \in AttemptNo : LogsAfter(u, j)[a] \in AttemptRow
      BY <2>1 DEF Stored, StoreTypeOK, TxnOK, LogsAfter
    <2>3. \A j \in DOMAIN u.rows : LedgerSound(u.rows[j], LogsAfter(u, j), clock')
      BY <1>1, <2>1, <2>2, LedgerLater DEF Booked, LeavesRecords
    <2> QED
      BY <1>1, <2>1, <2>3 DEF Booked, Moves, WritesLatest, LeavesRecords, LogsAfter
  <1> QED
    BY <1>1, <1>2, <1>3, SameOnward DEF Books, TxnsSound, Booked, Stored

\* What recording an execution leaves of an attempt's row.
LEMMA RecordedFields ==
    ASSUME NEW log \in AttemptRow
    PROVE  LET new == [log EXCEPT !.execution = TRUE]
           IN  /\ new.worker_id = log.worker_id
               /\ new.claimed_at = log.claimed_at
               /\ new.lease_expires_at = log.lease_expires_at
               /\ new.ended_at = log.ended_at
               /\ new.ended_by = log.ended_by
               /\ [new EXCEPT !.execution = FALSE] = [log EXCEPT !.execution = FALSE]
  BY DEF AttemptRow

\* record_execution marks an attempt that was claimed and nobody is writing.
LEMMA RecordedBooks ==
    ASSUME Stored, Books, NEW i \in Job, NEW n \in AttemptNo,
           n <= jobs[i].attempt, LogUnlocked(<<i, n>>),
           attempts' = [attempts EXCEPT ![<<i, n>>].execution = TRUE],
           UNCHANGED <<clock, jobs, results, open>>
    PROVE  Books' /\ Onward
  <1>1. /\ attempts \in [Job \X AttemptNo -> AttemptRow]
        /\ jobs \in [Job -> JobRow] /\ results \subseteq ResultRow
    BY DEF Stored, StoreTypeOK
  <1>2. <<i, n>> \in Job \X AttemptNo
    OBVIOUS
  <1>3. /\ attempts'[<<i, n>>] = [attempts[<<i, n>>] EXCEPT !.execution = TRUE]
        /\ \A k \in Job \X AttemptNo : k # <<i, n>> => attempts'[k] = attempts[k]
    BY <1>1, <1>2
  <1>4. \A k \in Job \X AttemptNo :
          /\ attempts'[k].worker_id = attempts[k].worker_id
          /\ attempts'[k].claimed_at = attempts[k].claimed_at
          /\ attempts'[k].lease_expires_at = attempts[k].lease_expires_at
          /\ attempts'[k].ended_at = attempts[k].ended_at
          /\ attempts'[k].ended_by = attempts[k].ended_by
          /\ [attempts'[k] EXCEPT !.execution = FALSE] = [attempts[k] EXCEPT !.execution = FALSE]
    <2> TAKE k \in Job \X AttemptNo
    <2>1. CASE k = <<i, n>>
      <3>1. attempts[k] \in AttemptRow
        BY <1>1
      <3>2. attempts'[k] = [attempts[k] EXCEPT !.execution = TRUE]
        BY <1>3, <2>1
      <3> QED
        BY <3>1, <3>2, RecordedFields
    <2>2. CASE k # <<i, n>>
      BY <1>3, <2>2
    <2> QED
      BY <2>1, <2>2
  <1>5. Onward
    <2>1. \A j \in Job : jobs[j].attempt \in Int
      BY <1>1, BudgetAssumption DEF JobRow
    <2> QED
      BY <1>4, <2>1, SMTT(30) DEF Onward
  <1>6. \A j \in Job : jobs[j].attempt \in 0 .. MaxBudget
    BY <1>1 DEF JobRow
  <1>7. ASSUME NEW j \in Job PROVE LedgerSound(jobs[j], Logs(j)', clock)
    <2>1. LedgerSound(jobs[j], Logs(j), clock)
      BY DEF Books, RecordsSound
    <2>2. \A a \in AttemptNo : Logs(j)[a] \in AttemptRow
      BY <1>1 DEF Logs
    <2>3. CASE j = i
      <3>1. \A a \in AttemptNo \ {n} : Logs(j)'[a] = Logs(j)[a]
        BY <1>3 DEF Logs
      <3>2. Logs(j)'[n] = [Logs(j)[n] EXCEPT !.execution = TRUE]
        BY <1>3, <2>3 DEF Logs
      <3> QED
        BY <1>6, <2>1, <2>2, <2>3, <3>1, <3>2, LedgerRecorded
    <2>4. CASE j # i
      <3>1. Logs(j)' = Logs(j)
        BY <1>3, <2>4 DEF Logs
      <3> QED
        BY <2>1, <3>1
    <2> QED
      BY <2>3, <2>4
  <1>8. RecordsSound'
    <2>1. ASSUME NEW r \in results PROVE ResultSound(r, Logs(r.job_id)')
      <3>1. r.job_id \in Job /\ r.attempt \in AttemptNo
        BY <1>1 DEF ResultRow
      <3>2. ResultSound(r, Logs(r.job_id))
        BY DEF Books, RecordsSound
      <3> QED
        BY <1>4, <3>1, <3>2 DEF ResultSound, Logs
    <2> QED
      BY <1>7, <2>1 DEF Books, RecordsSound
  <1>9. ASSUME NEW u \in open PROVE Booked(u)'
    <2>1. Booked(u) /\ TxnOK(u) /\ TxnSound(u)
      BY OpenFacts
    <2>2. <<i, n>> \notin DOMAIN u.logs
      BY DEF LogUnlocked
    <2>3. \A k \in DOMAIN u.logs : k \in Job \X AttemptNo /\ attempts'[k] = attempts[k]
      BY <1>3, <2>1, <2>2 DEF TxnOK
    <2>4. Moves(u)' /\ WritesLatest(u)'
      BY <2>1, <2>3 DEF Booked, Moves, WritesLatest
    <2>5. ASSUME NEW j \in DOMAIN u.rows PROVE LedgerSound(u.rows[j], LogsAfter(u, j)', clock)
      <3>1. /\ j \in Job /\ u.rows[j] \in JobRow /\ jobs[j] \in JobRow
            /\ u.rows[j].attempt >= jobs[j].attempt
        BY OpenFacts
      <3>2. /\ u.rows[j].attempt \in 0 .. MaxBudget /\ u.rows[j].attempt \in Nat
            /\ jobs[j].attempt \in Nat /\ n \in Nat
        BY <3>1, BudgetAssumption DEF JobRow, AttemptNo
      <3>3. LedgerSound(u.rows[j], LogsAfter(u, j), clock)
        BY <2>1 DEF Booked, LeavesRecords
      <3>4. \A a \in AttemptNo : LogsAfter(u, j)[a] \in AttemptRow
        BY <1>1, <2>1, <3>1 DEF TxnOK, LogsAfter
      <3>5. CASE j = i
        <4>1. \A a \in AttemptNo \ {n} : LogsAfter(u, j)'[a] = LogsAfter(u, j)[a]
          BY <1>3, <3>1 DEF LogsAfter
        <4>2. LogsAfter(u, j)'[n] = [LogsAfter(u, j)[n] EXCEPT !.execution = TRUE]
          BY <1>3, <2>2, <3>5 DEF LogsAfter
        <4>3. n <= u.rows[j].attempt
          BY <3>1, <3>2, <3>5
        <4> QED
          BY <3>2, <3>3, <3>4, <4>1, <4>2, <4>3, LedgerRecorded
      <3>6. CASE j # i
        <4>1. LogsAfter(u, j)' = LogsAfter(u, j)
          BY <1>3, <3>1, <3>6 DEF LogsAfter
        <4> QED
          BY <3>3, <4>1
      <3> QED
        BY <3>5, <3>6
    <2>6. ASSUME NEW r \in u.stored PROVE ResultSound(r, LogsAfter(u, r.job_id)')
      <3>1. r.job_id \in Job /\ r.attempt \in AttemptNo
        BY <2>1 DEF TxnOK, ResultRow
      <3>2. ResultSound(r, LogsAfter(u, r.job_id))
        BY <2>1 DEF Booked, LeavesRecords
      <3> DEFINE k   == <<r.job_id, r.attempt>>
                 log == LogsAfter(u, r.job_id)[r.attempt]
                 new == LogsAfter(u, r.job_id)'[r.attempt]
      <3>3. /\ log = IF k \in DOMAIN u.logs THEN u.logs[k] ELSE attempts[k]
            /\ new = IF k \in DOMAIN u.logs THEN u.logs[k] ELSE attempts'[k]
        BY <3>1 DEF LogsAfter
      <3>4. /\ new.worker_id = log.worker_id /\ new.ended_by = log.ended_by
            /\ new.ended_at = log.ended_at /\ new.lease_expires_at = log.lease_expires_at
        BY <1>4, <3>1, <3>3
      <3> QED
        BY <3>2, <3>4 DEF ResultSound
    <2>7. LeavesRecords(u)'
      BY <2>1, <2>5, <2>6 DEF Booked, LeavesRecords
    <2> QED
      BY <2>4, <2>7 DEF Booked
  <1> QED
    BY <1>5, <1>8, <1>9 DEF Books, TxnsSound, Booked

-----------------------------------------------------------------------------
(* What the steps do to the workers' side of the invariant.                *)

\* ReportsAreTrue, worker by worker.
ReportTrue(w) ==
    LET j == JobOf(w)
        a == AttemptOf(w)
    IN  /\ workers[w].report = "published" =>
             \E r \in results : r.job_id = j /\ r.attempt = a /\ r.worker_id = w
        /\ workers[w].report = "rejected" =>
             ~ \E r \in results : r.job_id = j /\ r.attempt = a
        /\ workers[w].report = "cancelled" => jobs[j].state = "cancelled"
        /\ workers[w].report = "released" => EndedBy(j, a, "released")

Desks == CallsSound /\ \A w \in Worker : WorkerLedger(w) /\ ReportTrue(w)

LEMMA ReportsSplit == ReportsAreTrue <=> \A w \in Worker : ReportTrue(w)
  <1> SUFFICES ASSUME NEW w \in Worker
               PROVE  ReportTrue(w) <=>
                        LET j == JobOf(w)
                            a == AttemptOf(w)
                            mine == {r \in results : r.job_id = j /\ r.attempt = a}
                        IN  CASE workers[w].report = "published" -> \E r \in mine : r.worker_id = w
                              [] workers[w].report = "rejected"  -> mine = {}
                              [] workers[w].report = "cancelled" -> jobs[j].state = "cancelled"
                              [] workers[w].report = "released"  -> EndedBy(j, a, "released")
                              [] OTHER -> TRUE
    BY DEF ReportsAreTrue
  <1>1. CASE workers[w].report = "published"
    BY <1>1 DEF ReportTrue
  <1>2. CASE workers[w].report = "rejected"
    BY <1>2 DEF ReportTrue
  <1>3. CASE workers[w].report = "cancelled"
    BY <1>3 DEF ReportTrue
  <1>4. CASE workers[w].report = "released"
    BY <1>4 DEF ReportTrue
  <1>5. CASE workers[w].report \notin {"published", "rejected", "cancelled", "released"}
    BY <1>5 DEF ReportTrue
  <1> QED
    BY <1>1, <1>2, <1>3, <1>4, <1>5

\* Results of w's latest claim, stored or about to be.
Mine(w) == {r \in Written : r.job_id = JobOf(w) /\ r.attempt = AttemptOf(w)}

\* A claim that was made stays made, by the worker that made it.
LEMMA ClaimKept ==
    ASSUME Stored, Stored', RecordsSound, Onward, NEW w \in Worker, WorkerLedger(w),
           JobOf(w) \in Job
    PROVE  /\ AttemptOf(w) \in AttemptNo /\ AttemptOf(w) <= jobs'[JobOf(w)].attempt
           /\ attempts'[<<JobOf(w), AttemptOf(w)>>].worker_id = w
  <1> DEFINE j == JobOf(w)
             a == AttemptOf(w)
  <1>1. a \in AttemptNo /\ a <= jobs[j].attempt /\ attempts[<<j, a>>].worker_id = w
    BY DEF WorkerLedger
  <1>2. attempts[<<j, a>>].claimed_at # Null
    <2>1. LedgerSound(jobs[j], Logs(j), clock)
      BY DEF RecordsSound
    <2> QED
      BY <1>1, <2>1 DEF LedgerSound, Logs
  <1>3. attempts'[<<j, a>>].worker_id = w
    BY <1>1, <1>2 DEF Onward
  <1>4. /\ jobs[j].attempt \in Nat /\ jobs'[j].attempt \in Nat
        /\ a \in Nat /\ jobs'[j].attempt >= jobs[j].attempt
    BY <1>1, BudgetAssumption DEF Stored, StoreTypeOK, JobRow, AttemptNo, Onward
  <1>5. a <= jobs'[j].attempt
    BY <1>1, <1>4
  <1> QED
    BY <1>1, <1>3, <1>5

\* A worker with the same claim and the same report.
LEMMA DeskMoved ==
    ASSUME Stored, Stored', RecordsSound, Onward, NEW w \in Worker,
           WorkerLedger(w), ReportTrue(w),
           workers'[w].job = workers[w].job,
           workers'[w].attempt = workers[w].attempt,
           workers'[w].report = workers[w].report,
           workers'[w].asked <= clock',
           workers'[w].pc \in HoldsJob => workers[w].report = "none",
           JobOf(w) \in Job /\ workers'[w].pc # "publish" /\ workers[w].report # "published"
               => Mine(w)' = {},
           JobOf(w) \in Job /\ workers'[w].pc = "publish"
               => \A r \in Mine(w)' : r.outcome = workers'[w].result
    PROVE  WorkerLedger(w)' /\ ReportTrue(w)'
  <1> DEFINE j == JobOf(w)
             a == AttemptOf(w)
  <1>1. JobOf(w)' = j /\ AttemptOf(w)' = a
    BY DEF JobOf, AttemptOf
  <1>2. jobs \in [Job -> JobRow] /\ attempts \in [Job \X AttemptNo -> AttemptRow]
    BY DEF Stored, StoreTypeOK
  <1>3. j \in Job => /\ a \in AttemptNo /\ a <= jobs'[j].attempt
                     /\ attempts'[<<j, a>>].worker_id = w
    BY ClaimKept
  <1>4. WorkerLedger(w)'
    BY <1>1, <1>3 DEF WorkerLedger, Mine
  <1>5. workers[w].report # "none" => j \in Job
    BY DEF WorkerLedger
  <1>6. workers[w].report = "rejected" => ~ \E r \in results' : r.job_id = j /\ r.attempt = a
    <2> SUFFICES ASSUME workers[w].report = "rejected" PROVE Mine(w)' = {}
      BY <1>1 DEF Mine, Written
    <2>1. workers'[w].pc # "publish"
      BY DEF HoldsJob
    <2> QED
      BY <1>5, <2>1
  <1>7. workers[w].report = "released" => attempts'[<<j, a>>].ended_by = "released"
    <2> SUFFICES ASSUME workers[w].report = "released"
                 PROVE  attempts'[<<j, a>>].ended_by = "released"
      OBVIOUS
    <2>1. <<j, a>> \in Job \X AttemptNo /\ attempts[<<j, a>>].ended_by = "released"
      BY <1>3, <1>5 DEF ReportTrue, EndedBy
    <2>2. [attempts'[<<j, a>>] EXCEPT !.execution = FALSE]
            = [attempts[<<j, a>>] EXCEPT !.execution = FALSE]
      BY <2>1, NotEndedFacts DEF Onward, Endings
    <2>3. attempts'[<<j, a>>] \in AttemptRow /\ attempts[<<j, a>>] \in AttemptRow
      BY <1>2, <2>1 DEF Stored, StoreTypeOK
    <2> DEFINE new == attempts'[<<j, a>>]
               log == attempts[<<j, a>>]
    <2>4. /\ [new EXCEPT !.execution = FALSE].ended_by = new.ended_by
          /\ [log EXCEPT !.execution = FALSE].ended_by = log.ended_by
      BY <2>3 DEF AttemptRow
    <2> QED
      BY <2>1, <2>2, <2>4
  <1>8. workers[w].report = "cancelled" => jobs'[j].state = "cancelled"
    BY <1>5 DEF ReportTrue, Onward, FinalStates
  <1>9. workers[w].report = "published" =>
          \E r \in results' : r.job_id = j /\ r.attempt = a /\ r.worker_id = w
    BY DEF ReportTrue, Onward
  <1>10. ReportTrue(w)'
    BY <1>1, <1>6, <1>7, <1>8, <1>9 DEF ReportTrue, EndedBy
  <1> QED
    BY <1>4, <1>10

\* A worker whose step ends, and what it reports.
LEMMA DeskReported ==
    ASSUME Stored, Stored', Manned, RecordsSound, Onward, NEW w \in Worker,
           WorkerLedger(w), JobOf(w) \in Job, NEW what, Report(w, what),
           what # "published" => Mine(w)' = {},
           what = "published" =>
               \E r \in results' : /\ r.job_id = JobOf(w) /\ r.attempt = AttemptOf(w)
                                   /\ r.worker_id = w,
           what = "cancelled" => jobs'[JobOf(w)].state = "cancelled",
           what = "released" => EndedBy(JobOf(w), AttemptOf(w), "released")'
    PROVE  WorkerLedger(w)' /\ ReportTrue(w)'
  <1>1. /\ workers'[w].pc = "step" /\ workers'[w].asked = Null
        /\ workers'[w].report = what
        /\ workers'[w].job = workers[w].job /\ workers'[w].attempt = workers[w].attempt
    BY DEF Report, Manned, WorkerState
  <1>2. JobOf(w)' = JobOf(w) /\ AttemptOf(w)' = AttemptOf(w)
    BY <1>1 DEF JobOf, AttemptOf
  <1>3. /\ AttemptOf(w) \in AttemptNo /\ AttemptOf(w) <= jobs'[JobOf(w)].attempt
        /\ attempts'[<<JobOf(w), AttemptOf(w)>>].worker_id = w
    BY ClaimKept
  <1>4. workers'[w].asked <= clock'
    BY <1>1, NullFacts DEF Stored, StoreTypeOK
  <1>5. WorkerLedger(w)'
    BY <1>1, <1>2, <1>3, <1>4 DEF WorkerLedger, Mine, HoldsJob
  <1>6. what = "rejected" =>
          ~ \E r \in results' : r.job_id = JobOf(w) /\ r.attempt = AttemptOf(w)
    BY <1>2 DEF Mine, Written
  <1>7. ReportTrue(w)'
    BY <1>1, <1>2, <1>6 DEF ReportTrue, EndedBy
  <1> QED
    BY <1>5, <1>7

\* A worker that others' steps leave where it is.
LEMMA DeskStill ==
    ASSUME Stored, Stored', RecordsSound, Onward, clock <= clock', NEW w \in Worker,
           Manned, WorkerLedger(w), ReportTrue(w),
           workers'[w] = workers[w], Mine(w)' \subseteq Mine(w)
    PROVE  WorkerLedger(w)' /\ ReportTrue(w)'
  <1>1. workers[w].asked \in Int /\ clock \in Int /\ clock' \in Int
    BY NullFacts DEF Manned, WorkerState, Stored, StoreTypeOK
  <1>2. workers'[w].asked <= clock'
    BY <1>1 DEF WorkerLedger
  <1> QED
    BY <1>2, DeskMoved DEF WorkerLedger, Mine

-----------------------------------------------------------------------------
\* What each worker awaits is unchanged, or it awaits nothing any more.
LEMMA CallsKept ==
    ASSUME CallsSound,
           \A u \in open' : u.owner \in Worker =>
               u \in open /\ workers'[u.owner] = workers[u.owner]
    PROVE  CallsSound'
  <1>1. ASSUME NEW u \in open', u.owner \in Worker
        PROVE  AwaitedSound(u.owner, u)'
    <2>1. AwaitedSound(u.owner, u) /\ workers'[u.owner] = workers[u.owner]
      BY <1>1 DEF CallsSound
    <2> QED
      BY <2>1 DEF AwaitedSound, JobOf, AttemptOf
  <1>2. \A t, u \in open' : t.owner = u.owner /\ t.owner \in Worker => t = u
    BY DEF CallsSound
  <1> QED
    BY <1>1, <1>2 DEF CallsSound

\* A worker makes a call of its own.
LEMMA CallsBegun ==
    ASSUME CallsSound, NEW w \in Worker, NEW t, t.owner = w,
           \A u \in open : u.owner # w, open' = open \union {t},
           \A v \in Worker \ {w} : workers'[v] = workers[v],
           AwaitedSound(w, t)'
    PROVE  CallsSound'
  <1>1. ASSUME NEW u \in open, u.owner \in Worker
        PROVE  AwaitedSound(u.owner, u)'
    <2>1. AwaitedSound(u.owner, u) /\ workers'[u.owner] = workers[u.owner]
      BY <1>1 DEF CallsSound
    <2> QED
      BY <2>1 DEF AwaitedSound, JobOf, AttemptOf
  <1>2. \A s, u \in open' : s.owner = u.owner /\ s.owner \in Worker => s = u
    BY DEF CallsSound
  <1> QED
    BY <1>1, <1>2 DEF CallsSound

\* The workers' side, from the acting worker w to the others.
LEMMA DesksKept ==
    ASSUME Stored, Stored', Manned, RecordsSound, Desks, Onward, clock <= clock',
           CallsSound',
           \A v \in Worker :
               \/ WorkerLedger(v)' /\ ReportTrue(v)'
               \/ workers'[v] = workers[v] /\ Mine(v)' \subseteq Mine(v)
    PROVE  Desks'
  <1>1. ASSUME NEW v \in Worker PROVE WorkerLedger(v)' /\ ReportTrue(v)'
    <2>1. WorkerLedger(v) /\ ReportTrue(v)
      BY DEF Desks
    <2> QED
      BY <2>1, DeskStill
  <1> QED
    BY <1>1 DEF Desks

\* Nothing is written but by a commit's or a publish's leave.
LEMMA MineShrinks ==
    ASSUME Written' \subseteq Written, NEW v, workers'[v] = workers[v]
    PROVE  Mine(v)' \subseteq Mine(v)
  BY DEF Mine, JobOf, AttemptOf

LEMMA SameWritten ==
    ASSUME UNCHANGED <<results, open>>
    PROVE  Written' = Written
  BY DEF Written

LEMMA BeginWritten ==
    ASSUME NEW t, Begin(t)
    PROVE  Written' = Written \union t.stored
  BY DEF Begin, Written

LEMMA InstallWritten ==
    ASSUME NEW t \in open, Install(t)
    PROVE  Written' \subseteq Written
  BY DEF Install, Written

-----------------------------------------------------------------------------
(* Steps of a worker: one that leaves the tables alone, and one that makes *)
(* a call.                                                                 *)

Whole == Stored /\ Manned /\ Books /\ Desks

LEMMA WholeSplit == LedgerInv <=> Whole
  BY IndInvSplit, ReportsSplit DEF LedgerInv, Whole, Books, Desks

LEMMA WholePrimed == Stored' /\ Manned' /\ Books' /\ Desks' => LedgerInv'
  <1>1. Stored /\ Manned /\ Books /\ Desks => LedgerInv
    BY WholeSplit DEF Whole
  <1> QED
    BY <1>1, PTL

\* w awaits no answer.
Free(w) == \A t \in open : t.owner # w

LEMMA GoFields ==
    ASSUME Manned, NEW w \in Worker, NEW pc, Go(w, pc)
    PROVE  /\ workers'[w].pc = pc
           /\ workers'[w].job = workers[w].job /\ workers'[w].attempt = workers[w].attempt
           /\ workers'[w].result = workers[w].result
           /\ workers'[w].asked = workers[w].asked
           /\ workers'[w].report = workers[w].report
           /\ \A v \in Worker \ {w} : workers'[v] = workers[v]
  BY DEF Go, Manned, WorkerState

LEMMA ClockKept ==
    ASSUME Stored, clock' = clock
    PROVE  clock <= clock'
  BY DEF Stored, StoreTypeOK

\* What is known of a worker at a call for its job.
LEMMA AtDesk ==
    ASSUME Whole, NEW w \in Worker
    PROVE  /\ WorkerLedger(w) /\ ReportTrue(w) /\ WorkerSound(w)
           /\ workers[w] \in WorkerState
           /\ workers[w].asked <= clock
           /\ workers[w].pc \in HoldsJob =>
                /\ JobOf(w) \in Job /\ AttemptOf(w) \in AttemptNo
                /\ workers[w].report = "none"
                /\ attempts[<<JobOf(w), AttemptOf(w)>>].worker_id = w
                /\ AttemptOf(w) <= jobs[JobOf(w)].attempt
                /\ workers[w].pc # "publish" => Mine(w) = {}
                /\ workers[w].pc = "publish" =>
                     \A r \in Mine(w) : r.outcome = workers[w].result
  BY DEF Whole, Desks, Manned, WorkersSound, WorkerSound, WorkerLedger, Mine, JobOf, AttemptOf

LEMMA QuietStep ==
    ASSUME Whole, Stored', NEW w \in Worker, Free(w), UNCHANGED storeVars,
           \A v \in Worker \ {w} : workers'[v] = workers[v],
           WorkerLedger(w)', ReportTrue(w)'
    PROVE  Books' /\ Desks' /\ Onward
  <1>1. Books' /\ Onward
    BY SameBooks DEF Whole
  <1>2. CallsSound'
    BY CallsKept DEF Whole, Desks, Free, storeVars
  <1>3. \A v \in Worker \ {w} : Mine(v)' \subseteq Mine(v)
    BY SameWritten, MineShrinks DEF storeVars
  <1>4. clock <= clock'
    BY ClockKept DEF Whole, storeVars
  <1> QED
    BY <1>1, <1>2, <1>3, <1>4, DesksKept DEF Whole, Books

LEMMA QuietGo ==
    ASSUME Whole, Stored', NEW w \in Worker, Free(w), UNCHANGED storeVars,
           NEW pc, Go(w, pc), pc # "publish",
           pc \in HoldsJob => workers[w].pc \in HoldsJob,
           workers[w].pc = "publish" => Mine(w) = {}
    PROVE  Books' /\ Desks' /\ Onward
  <1>1. WorkerLedger(w) /\ ReportTrue(w) /\ workers[w].asked <= clock
        /\ (workers[w].pc \in HoldsJob => workers[w].report = "none")
    BY AtDesk
  <1>2. /\ workers'[w].pc = pc
        /\ workers'[w].job = workers[w].job /\ workers'[w].attempt = workers[w].attempt
        /\ workers'[w].asked = workers[w].asked
        /\ workers'[w].report = workers[w].report
        /\ \A v \in Worker \ {w} : workers'[v] = workers[v]
    BY GoFields DEF Whole
  <1>3. Mine(w)' = Mine(w)
    BY <1>2, SameWritten DEF storeVars, Mine, JobOf, AttemptOf
  <1>4. JobOf(w) \in Job /\ workers[w].report # "published" => Mine(w) = {}
    BY <1>1 DEF WorkerLedger, Mine
  <1>5. Onward /\ clock' = clock
    BY SameBooks DEF Whole, storeVars
  <1>6. WorkerLedger(w)' /\ ReportTrue(w)'
    BY <1>1, <1>2, <1>3, <1>4, <1>5, DeskMoved DEF Whole, Books
  <1> QED
    BY <1>2, <1>6, QuietStep

LEMMA QuietReport ==
    ASSUME Whole, Stored', NEW w \in Worker, Free(w), UNCHANGED storeVars,
           workers[w].pc \in HoldsJob, NEW what, Report(w, what),
           what # "published" => Mine(w) = {},
           what = "published" =>
               \E r \in results : /\ r.job_id = JobOf(w) /\ r.attempt = AttemptOf(w)
                                  /\ r.worker_id = w,
           what = "cancelled" => jobs[JobOf(w)].state = "cancelled",
           what = "released" => EndedBy(JobOf(w), AttemptOf(w), "released")
    PROVE  Books' /\ Desks' /\ Onward
  <1>1. WorkerLedger(w) /\ JobOf(w) \in Job
    BY AtDesk
  <1>2. /\ workers'[w].job = workers[w].job /\ workers'[w].attempt = workers[w].attempt
        /\ \A v \in Worker \ {w} : workers'[v] = workers[v]
    BY DEF Report, Whole, Manned, WorkerState
  <1>3. Mine(w)' = Mine(w)
    BY <1>2, SameWritten DEF storeVars, Mine, JobOf, AttemptOf
  <1>4. Onward
    BY SameBooks DEF Whole
  <1>5. /\ jobs' = jobs /\ results' = results
        /\ EndedBy(JobOf(w), AttemptOf(w), "released")'
             = EndedBy(JobOf(w), AttemptOf(w), "released")
    BY <1>2 DEF storeVars, EndedBy, JobOf, AttemptOf
  <1>6. WorkerLedger(w)' /\ ReportTrue(w)'
    BY <1>1, <1>3, <1>4, <1>5, DeskReported DEF Whole, Books
  <1> QED
    BY <1>2, <1>6, QuietStep

LEMMA BeginCall ==
    ASSUME Whole, Stored', NEW w \in Worker, Free(w), NEW t, Booked(t), Begin(t),
           t.owner = w, t.stored = {}, UNCHANGED workers, AwaitedSound(w, t)
    PROVE  Books' /\ Desks' /\ Onward
  <1>1. Books' /\ Onward
    BY BeginBooks DEF Whole
  <1>2. open' = open \union {t} /\ clock' = clock
    BY DEF Begin
  <1>3. AwaitedSound(w, t)'
    BY DEF AwaitedSound, JobOf, AttemptOf
  <1>4. CallsSound'
    BY <1>2, <1>3, CallsBegun DEF Whole, Desks, Free
  <1>5. \A v \in Worker : workers'[v] = workers[v] /\ Mine(v)' \subseteq Mine(v)
    BY BeginWritten, MineShrinks
  <1>6. clock <= clock'
    BY <1>2, ClockKept DEF Whole
  <1> QED
    BY <1>1, <1>4, <1>5, <1>6, DesksKept DEF Whole, Books

-----------------------------------------------------------------------------
(* One step of the invariant per action.                                   *)

LEMMA ReapBooked ==
    ASSUME Whole, Stored', NEW w \in Worker, Reap(w)
    PROVE  Books' /\ Desks' /\ Onward
  <1> DEFINE lapsed == {j \in Job : Unlocked(j) /\ Lapsed(jobs[j], clock)}
  <1>1. workers[w].pc \in {"timer_reap", "idle_reap"} /\ Free(w)
    BY DEF Reap, At, Free
  <1>2. CASE Go(w, AfterReap(w)) /\ UNCHANGED storeVars
    BY <1>1, <1>2, QuietGo DEF AfterReap, HoldsJob
  <1>3. CASE /\ Begin(EndAttemptsTxn(w, lapsed, clock, "lease_expired"))
             /\ UNCHANGED workers
    <2> DEFINE t == EndAttemptsTxn(w, lapsed, clock, "lease_expired")
    <2>1. \A j \in lapsed : jobs[j].state \in LeasedStates /\ jobs[j].lease_expires_at <= clock
      BY DEF Lapsed
    <2>2. Rows /\ RecordsSound /\ clock \in Nat /\ clock <= clock
      BY DEF Whole, Books, Rows, Stored, StoreTypeOK
    <2>3. Booked(t)
      BY <2>1, <2>2, EndAttemptsTxnBooked DEF RetryEndings
    <2>4. t.owner = w /\ t.stored = {}
      BY DEF EndAttemptsTxn, Txn
    <2> HIDE DEF t
    <2>5. AwaitedSound(w, t)
      BY <1>1, <2>4 DEF AwaitedSound
    <2> QED
      BY <1>1, <1>3, <2>3, <2>4, <2>5, BeginCall DEF t
  <1> QED
    BY <1>2, <1>3 DEF Reap

LEMMA ClaimBooked ==
    ASSUME Whole, Stored', NEW w \in Worker, Claim(w)
    PROVE  Books' /\ Desks' /\ Onward
  <1> DEFINE ready == {j \in Job : Unlocked(j) /\ Claimable(jobs[j], clock)}
  <1>1. workers[w].pc \in {"claim", "reclaim"} /\ Free(w)
    BY DEF Claim, At, Free
  <1>2. CASE Go(w, AfterNoClaim(w)) /\ UNCHANGED storeVars
    BY <1>1, <1>2, QuietGo DEF AfterNoClaim, HoldsJob
  <1>3. ASSUME NEW j \in ready, Begin(ClaimTxn(w, j, clock)), UNCHANGED workers
        PROVE  Books' /\ Desks' /\ Onward
    <2> DEFINE t   == ClaimTxn(w, j, clock)
               new == Claimed(jobs[j], clock)
               k   == <<j, jobs[j].attempt + 1>>
    <2>1. /\ Rows /\ RecordsSound /\ j \in Job /\ jobs[j].state = "queued"
          /\ jobs[j] \in JobRow
      BY DEF Whole, Books, Rows, Stored, StoreTypeOK, Claimable
    <2>2. Booked(t)
      BY <2>1, ClaimTxnBooked
    <2>3. /\ t.owner = w /\ t.stored = {}
          /\ t.rows = One(j, new) /\ t.logs = One(k, Opened(w, clock))
      BY DEF ClaimTxn, Txn
    <2>4. new.attempt = jobs[j].attempt + 1
      BY <2>1 DEF Claimed, JobRow
    <2>5. Opened(w, clock).worker_id = w
      BY DEF Opened, NoAttempt
    <2> HIDE DEF t, new
    <2>6. /\ DOMAIN t.rows = {j} /\ t.rows[j].attempt = jobs[j].attempt + 1
          /\ k \in DOMAIN t.logs /\ t.logs[k].worker_id = w
      BY <2>3, <2>4, <2>5 DEF One
    <2>7. AwaitedSound(w, t)
      BY <1>1, <2>3, <2>6 DEF AwaitedSound
    <2> QED
      BY <1>1, <1>3, <2>2, <2>3, <2>7, BeginCall DEF t
  <1> QED
    BY <1>2, <1>3 DEF Claim

LEMMA StartBooked ==
    ASSUME Whole, Stored', NEW w \in Worker, Start(w)
    PROVE  Books' /\ Desks' /\ Onward
  <1>1. workers[w].pc = "start" /\ workers[w].pc \in HoldsJob /\ Free(w)
    BY DEF Start, At, Free, HoldsJob
  <1>2. CASE /\ StartDue(RowOf(w), AttemptOf(w), clock)
             /\ Begin(StartTxn(w, JobOf(w)))
             /\ UNCHANGED workers
    <2> DEFINE t == StartTxn(w, JobOf(w))
    <2>1. /\ JobOf(w) \in Job /\ Rows /\ RecordsSound
          /\ jobs[JobOf(w)].state \in LeasedStates
      BY <1>1, <1>2, AtDesk DEF Whole, Books, Rows, Stored, StartDue, HeldLive, Held, RowOf
    <2>2. Booked(t)
      BY <2>1, StartTxnBooked
    <2>3. t.owner = w /\ t.stored = {}
      BY DEF StartTxn, Txn
    <2> HIDE DEF t
    <2>4. AwaitedSound(w, t)
      BY <1>1, <2>3 DEF AwaitedSound
    <2> QED
      BY <1>1, <1>2, <2>2, <2>3, <2>4, BeginCall DEF t
  <1>3. CASE /\ Go(w, IF AlreadyStarted(RowOf(w), AttemptOf(w), clock)
                      THEN "running" ELSE "finish_cancelled")
             /\ UNCHANGED storeVars
    BY <1>1, <1>3, QuietGo
  <1> QED
    BY <1>2, <1>3 DEF Start

LEMMA HeartbeatBooked ==
    ASSUME Whole, Stored', NEW w \in Worker, Heartbeat(w)
    PROVE  Books' /\ Desks' /\ Onward
  <1>1. /\ workers[w].pc \in {"running", "heartbeat"} /\ workers[w].pc \in HoldsJob
        /\ Free(w)
    BY DEF Heartbeat, At, Free, HoldsJob
  <1>2. /\ JobOf(w) \in Job /\ Mine(w) = {} /\ WorkerLedger(w) /\ ReportTrue(w)
        /\ workers[w].asked <= clock /\ workers[w].report = "none"
    BY <1>1, AtDesk
  <1>3. CASE /\ HeldLive(RowOf(w), AttemptOf(w), clock)
             /\ Begin(HeartbeatTxn(w, JobOf(w), AttemptOf(w), clock))
             /\ Go(w, "heartbeat")
    <2>1. Rows /\ RecordsSound /\ Held(jobs[JobOf(w)], AttemptOf(w))
      BY <1>3 DEF Whole, Books, Rows, Stored, HeldLive, RowOf
    <2>2. PICK t : t = HeartbeatTxn(w, JobOf(w), AttemptOf(w), clock)
      OBVIOUS
    <2>3. Booked(t) /\ t.owner = w /\ t.stored = {}
      BY <1>2, <2>1, <2>2, HeartbeatTxnBooked DEF HeartbeatTxn, Txn
    <2>4. /\ workers'[w].pc = "heartbeat"
          /\ workers'[w].job = workers[w].job /\ workers'[w].attempt = workers[w].attempt
          /\ workers'[w].asked = workers[w].asked
          /\ workers'[w].report = workers[w].report
          /\ \A v \in Worker \ {w} : workers'[v] = workers[v]
      BY <1>3, GoFields DEF Whole
    <2>5. Begin(t)
      BY <1>3, <2>2
    <2>6. Books' /\ Onward
      BY <2>3, <2>5, BeginBooks DEF Whole
    <2>7. open' = open \union {t} /\ clock' = clock
      BY <2>5 DEF Begin
    <2>8. AwaitedSound(w, t)'
      BY <2>3, <2>4 DEF AwaitedSound
    <2>9. CallsSound'
      BY <1>1, <2>3, <2>4, <2>7, <2>8, CallsBegun DEF Whole, Desks, Free
    <2>10. Written' \subseteq Written
      BY <2>3, <2>5, BeginWritten
    <2>11. Mine(w)' = {}
      BY <1>2, <2>4, <2>10 DEF Mine, JobOf, AttemptOf
    <2>12. WorkerLedger(w)' /\ ReportTrue(w)'
      BY <1>2, <2>4, <2>6, <2>7, <2>11, DeskMoved DEF Whole, Books
    <2>13. clock <= clock'
      BY <2>7, ClockKept DEF Whole
    <2>14. \A v \in Worker \ {w} : Mine(v)' \subseteq Mine(v)
      BY <2>4, <2>10, MineShrinks
    <2> QED
      BY <2>4, <2>6, <2>9, <2>12, <2>13, <2>14, DesksKept DEF Whole, Books
  <1>4. CASE Report(w, "lost") /\ UNCHANGED storeVars
    BY <1>1, <1>2, <1>4, QuietReport
  <1> QED
    BY <1>3, <1>4 DEF Heartbeat

\* A worker that ends its run has stored nothing, and will publish what it
\* came to.
LEMMA RunEndsBooked ==
    ASSUME Whole, Stored', NEW w \in Worker, RunEnds(w)
    PROVE  Books' /\ Desks' /\ Onward
  <1>1. /\ workers[w].pc = "running" /\ workers[w].pc \in HoldsJob
        /\ Free(w) /\ UNCHANGED storeVars
    BY DEF RunEnds, At, Free, HoldsJob
  <1>2. /\ Mine(w) = {} /\ WorkerLedger(w) /\ ReportTrue(w)
        /\ workers[w].asked <= clock /\ workers[w].report = "none"
    BY <1>1, AtDesk
  <1>3. /\ workers'[w].job = workers[w].job /\ workers'[w].attempt = workers[w].attempt
        /\ workers'[w].asked = workers[w].asked
        /\ workers'[w].report = workers[w].report
        /\ \A v \in Worker \ {w} : workers'[v] = workers[v]
    BY DEF RunEnds, Whole, Manned, WorkerState
  <1>4. Mine(w)' = {} /\ clock' = clock
    BY <1>1, <1>2, <1>3, SameWritten DEF storeVars, Mine, JobOf, AttemptOf
  <1>5. Onward
    BY <1>1, SameBooks DEF Whole
  <1>6. WorkerLedger(w)' /\ ReportTrue(w)'
    BY <1>2, <1>3, <1>4, <1>5, DeskMoved DEF Whole, Books
  <1> QED
    BY <1>1, <1>3, <1>6, QuietStep

LEMMA RecordExecutionBooked ==
    ASSUME Whole, Stored', NEW w \in Worker, RecordExecution(w)
    PROVE  Books' /\ Desks' /\ Onward
  <1>1. workers[w].pc = "record" /\ workers[w].pc \in HoldsJob /\ Free(w)
    BY DEF RecordExecution, At, Free, HoldsJob
  <1>2. /\ JobOf(w) \in Job /\ AttemptOf(w) \in AttemptNo
        /\ AttemptOf(w) <= jobs[JobOf(w)].attempt
        /\ Mine(w) = {} /\ WorkerLedger(w) /\ ReportTrue(w)
        /\ workers[w].asked <= clock /\ workers[w].report = "none"
    BY <1>1, AtDesk
  <1>3. /\ UNCHANGED <<clock, jobs, results, open>>
        /\ Go(w, AfterRun(workers[w].result))
    BY DEF RecordExecution
  <1>4. Books' /\ Onward
    BY <1>2, <1>3, RecordedBooks DEF Whole, RecordExecution
  <1>5. /\ workers'[w].job = workers[w].job /\ workers'[w].attempt = workers[w].attempt
        /\ workers'[w].asked = workers[w].asked
        /\ workers'[w].report = workers[w].report
        /\ \A v \in Worker \ {w} : workers'[v] = workers[v]
    BY <1>3, GoFields DEF Whole
  <1>6. Written' = Written
    BY <1>3, SameWritten
  <1>7. Mine(w)' = {}
    BY <1>2, <1>5, <1>6 DEF Mine, JobOf, AttemptOf
  <1>8. WorkerLedger(w)' /\ ReportTrue(w)'
    BY <1>2, <1>3, <1>4, <1>5, <1>7, DeskMoved DEF Whole, Books
  <1>9. CallsSound'
    BY <1>1, <1>3, <1>5, CallsKept DEF Whole, Desks, Free
  <1>10. \A v \in Worker \ {w} : Mine(v)' \subseteq Mine(v)
    BY <1>5, <1>6, MineShrinks
  <1>11. clock <= clock'
    BY <1>3, ClockKept DEF Whole
  <1> QED
    BY <1>4, <1>5, <1>8, <1>9, <1>10, <1>11, DesksKept DEF Whole, Books

\* A result about to be stored is of a job still held by its attempt, whose
\* row its transaction has locked.
LEMMA PendingHeld ==
    ASSUME Whole, NEW t \in open, NEW r \in t.stored
    PROVE  /\ r.job_id \in DOMAIN t.rows
           /\ Held(jobs[r.job_id], r.attempt)
  <1>1. Moves(t)
    BY OpenFacts DEF Whole, Booked
  <1>2. PICK j \in Job :
          /\ DOMAIN t.rows = {j}
          /\ Finishes(jobs[j], t.rows[j])
          /\ \E s \in t.stored : /\ t.stored = {s} /\ s.job_id = j
                                 /\ s.attempt = t.rows[j].attempt
    BY <1>1 DEF Moves
  <1> QED
    BY <1>2 DEF Finishes, Held

\* A held job has no result, and an unlocked one none about to be stored.
LEMMA HeldUnpublished ==
    ASSUME Whole, NEW w \in Worker, JobOf(w) \in Job,
           jobs[JobOf(w)].state \in LeasedStates, Unlocked(JobOf(w))
    PROVE  Mine(w) = {}
  <1>1. \A r \in results : r.job_id # JobOf(w)
    BY DEF Whole, Stored, OneResultPerJob, OneResult, ResultsOf, LeasedStates, ResultStates
  <1>2. \A t \in open : \A r \in t.stored : r.job_id # JobOf(w)
    BY PendingHeld DEF Unlocked
  <1> QED
    BY <1>1, <1>2 DEF Mine, Written

\* A publish that finds its job no longer held, and not its own result, has
\* stored nothing.
LEMMA RefusedUnpublished ==
    ASSUME Whole, NEW w \in Worker, workers[w].pc = "publish",
           ~Held(jobs[JobOf(w)], AttemptOf(w)), StoredBefore(w) = {}
    PROVE  Mine(w) = {}
  <1> SUFFICES ASSUME NEW r \in Mine(w) PROVE FALSE
    OBVIOUS
  <1>1. /\ JobOf(w) \in Job /\ AttemptOf(w) \in AttemptNo
        /\ attempts[<<JobOf(w), AttemptOf(w)>>].worker_id = w
        /\ r.outcome = workers[w].result
    BY AtDesk DEF HoldsJob
  <1>2. r.job_id = JobOf(w) /\ r.attempt = AttemptOf(w) /\ r \in Written
    BY DEF Mine
  <1>3. CASE r \in results
    <2>1. ResultSound(r, Logs(r.job_id))
      BY <1>3 DEF Whole, Books, RecordsSound
    <2>2. r.worker_id = w
      BY <1>1, <1>2, <2>1 DEF ResultSound, Logs
    <2> QED
      BY <1>1, <1>2, <1>3, <2>2 DEF StoredBefore
  <1>4. ASSUME NEW t \in open, r \in t.stored PROVE FALSE
    BY <1>2, <1>4, PendingHeld
  <1> QED
    BY <1>2, <1>3, <1>4 DEF Written

LEMMA PublishBooked ==
    ASSUME Whole, Stored', NEW w \in Worker, Publish(w)
    PROVE  Books' /\ Desks' /\ Onward
  <1> DEFINE j == JobOf(w)
             a == AttemptOf(w)
             live == jobs[j].lease_expires_at > clock
  <1>1. workers[w].pc = "publish" /\ workers[w].pc \in HoldsJob /\ Free(w)
    BY DEF Publish, At, Free, HoldsJob
  <1>2. /\ j \in Job /\ a \in AttemptNo /\ WorkerLedger(w) /\ ReportTrue(w)
        /\ attempts[<<j, a>>].worker_id = w /\ WorkerSound(w)
        /\ workers[w].asked <= clock /\ workers[w].report = "none"
        /\ \A r \in Mine(w) : r.outcome = workers[w].result
    BY <1>1, AtDesk
  <1>3. Rows /\ RecordsSound /\ clock \in Nat /\ clock <= clock
    BY DEF Whole, Books, Rows, Stored, StoreTypeOK
  <1>4. CASE StoredBefore(w) # {} /\ Report(w, "published") /\ UNCHANGED storeVars
    <2>1. \E r \in results : r.job_id = j /\ r.attempt = a /\ r.worker_id = w
      BY <1>4 DEF StoredBefore
    <2> QED
      BY <1>1, <1>4, <2>1, QuietReport
  <1>5. CASE /\ \/ ~Held(jobs[j], a) /\ StoredBefore(w) = {}
                \/ Held(jobs[j], a) /\ Unlocked(j)
             /\ Go(w, "job_status") /\ UNCHANGED storeVars
    <2>1. Mine(w) = {}
      BY <1>1, <1>2, <1>5, RefusedUnpublished, HeldUnpublished DEF Held
    <2> QED
      BY <1>1, <1>5, <2>1, QuietGo
  <1>6. CASE /\ Held(jobs[j], a) /\ jobs[j].cancel_requested_at # Null /\ live
             /\ Begin(FinishCancelledTxn(w, j, a, clock))
             /\ UNCHANGED workers
    <2> DEFINE t == FinishCancelledTxn(w, j, a, clock)
    <2>1. CancelDue(jobs[j], a, clock)
      BY <1>6 DEF CancelDue, HeldLive
    <2>2. Booked(t)
      BY <1>2, <1>3, <2>1, FinishCancelledTxnBooked
    <2>3. t.owner = w /\ t.stored = {} /\ DOMAIN t.rows = {j}
      BY DEF FinishCancelledTxn, Txn, One
    <2> HIDE DEF t
    <2>4. AwaitedSound(w, t)
      BY <1>1, <2>3 DEF AwaitedSound
    <2> QED
      BY <1>1, <1>6, <2>2, <2>3, <2>4, BeginCall DEF t
  <1>7. CASE /\ Held(jobs[j], a) /\ jobs[j].cancel_requested_at = Null /\ live
             /\ Begin(PublishTxn(w, j, a, clock, workers[w].result))
             /\ UNCHANGED workers
    <2>1. PICK t : t = PublishTxn(w, j, a, clock, workers[w].result)
      OBVIOUS
    <2>2. HeldLive(jobs[j], a, clock) /\ workers[w].result \in Outcomes
      BY <1>1, <1>2, <1>7 DEF HeldLive, WorkerSound
    <2>3. Booked(t)
      BY <1>2, <1>3, <1>7, <2>1, <2>2, PublishTxnBooked
    <2>4. PICK r : r = Result(j, a, w, clock, workers[w].result)
      OBVIOUS
    <2>5. /\ t.owner = w /\ t.stored = {r} /\ DOMAIN t.rows = {j}
          /\ r.job_id = j /\ r.attempt = a /\ r.worker_id = w
          /\ r.outcome = workers[w].result
      BY <2>1, <2>4 DEF PublishTxn, Txn, One, Result
    <2>6. Begin(t)
      BY <1>7, <2>1
    <2>7. Books' /\ Onward
      BY <2>3, <2>6, BeginBooks DEF Whole
    <2>8. open' = open \union {t} /\ clock' = clock
      BY <2>6 DEF Begin
    <2>9. AwaitedSound(w, t)'
      BY <1>1, <1>7, <2>5 DEF AwaitedSound, JobOf, AttemptOf
    <2>10. CallsSound'
      BY <1>1, <1>7, <2>5, <2>8, <2>9, CallsBegun DEF Whole, Desks, Free
    <2>11. Written' = Written \union {r}
      BY <2>5, <2>6, BeginWritten
    <2>12. \A s \in Mine(w)' : s.outcome = workers'[w].result
      BY <1>2, <1>7, <2>5, <2>11 DEF Mine, JobOf, AttemptOf
    <2>13. WorkerLedger(w)' /\ ReportTrue(w)'
      BY <1>1, <1>2, <1>7, <2>7, <2>8, <2>12, DeskMoved DEF Whole, Books
    <2>14. ASSUME NEW v \in Worker \ {w}
           PROVE  (WorkerLedger(v)' /\ ReportTrue(v)') \/ Mine(v)' \subseteq Mine(v)
      <3>1. WorkerLedger(v) /\ ReportTrue(v)
        BY AtDesk
      <3>2. CASE JobOf(v) = j /\ AttemptOf(v) = a
        BY <1>2, <3>1, <3>2 DEF WorkerLedger
      <3>3. CASE ~(JobOf(v) = j /\ AttemptOf(v) = a)
        BY <1>7, <2>5, <2>11, <3>3 DEF Mine, JobOf, AttemptOf
      <3> QED
        BY <3>2, <3>3
    <2>15. clock <= clock'
      BY <2>8, ClockKept DEF Whole
    <2> QED
      BY <1>7, <2>7, <2>10, <2>13, <2>14, <2>15, DesksKept DEF Whole, Books
  <1> QED
    BY <1>4, <1>5, <1>6, <1>7 DEF Publish

LEMMA JobStatusBooked ==
    ASSUME Whole, Stored', NEW w \in Worker, JobStatus(w)
    PROVE  Books' /\ Desks' /\ Onward
  <1>1. workers[w].pc = "job_status" /\ workers[w].pc \in HoldsJob /\ Free(w)
    BY DEF JobStatus, At, Free, HoldsJob
  <1>2. Mine(w) = {}
    BY <1>1, AtDesk
  <1>3. UNCHANGED storeVars
    BY DEF JobStatus
  <1>4. CASE RowOf(w).state = "cancelled" /\ Report(w, "cancelled")
    BY <1>1, <1>2, <1>3, <1>4, QuietReport DEF RowOf
  <1>5. CASE Report(w, "rejected")
    BY <1>1, <1>2, <1>3, <1>5, QuietReport
  <1> QED
    BY <1>4, <1>5 DEF JobStatus

\* Only a cancelled job has an attempt that was cancelled.
LEMMA CancelledAttempt ==
    ASSUME Whole, NEW j \in Job, NEW a \in AttemptNo, EndedBy(j, a, "cancelled")
    PROVE  jobs[j].state = "cancelled"
  <1>1. jobs[j] \in JobRow /\ jobs[j].attempt \in Nat /\ a \in Nat
    BY BudgetAssumption DEF Whole, Stored, StoreTypeOK, JobRow, AttemptNo
  <1>2. LedgerSound(jobs[j], Logs(j), clock) /\ Logs(j)[a].ended_by = "cancelled"
    BY DEF Whole, Books, RecordsSound, Logs, EndedBy
  <1>3. a <= jobs[j].attempt
    BY <1>1, <1>2, NoAttemptFields, NotEndedFacts DEF LedgerSound, Endings
  <1>4. ~(a < jobs[j].attempt)
    BY <1>2 DEF LedgerSound, RetryEndings
  <1>5. LatestSound(jobs[j], Logs(j)[a])
    BY <1>1, <1>2, <1>3, <1>4 DEF LedgerSound
  <1>6. "cancelled" # NotEnded
    BY NotEndedFacts DEF Endings
  <1> QED
    BY <1>1, <1>2, <1>5, <1>6 DEF LatestSound, RetryEndings, JobRow, Unfinished,
       FinalStates, LeasedStates, ResultStates

LEMMA EndAttemptBooked ==
    ASSUME Whole, Stored', NEW w \in Worker, Free(w), NEW at \in Nat, at <= clock,
           workers[w].pc \in {"release", "finish_cancelled"}, EndAttempt(w, at)
    PROVE  Books' /\ Desks' /\ Onward
  <1> DEFINE j == JobOf(w)
             a == AttemptOf(w)
  <1>1. workers[w].pc \in HoldsJob
    BY DEF HoldsJob
  <1>2. j \in Job /\ a \in AttemptNo /\ Mine(w) = {}
    BY <1>1, AtDesk
  <1>3. Rows /\ RecordsSound
    BY DEF Whole, Books, Rows, Stored
  <1>4. CASE /\ ReleaseDue(w, at)
             /\ Begin(EndAttemptsTxn(w, {JobOf(w)}, at, "released"))
             /\ UNCHANGED workers
    <2> DEFINE t == EndAttemptsTxn(w, {JobOf(w)}, at, "released")
               k == <<j, a>>
    <2>1. /\ workers[w].pc = "release"
          /\ jobs[j].state \in LeasedStates /\ jobs[j].attempt = a
          /\ jobs[j].lease_expires_at > at
      BY <1>4 DEF ReleaseDue, HeldLive, Held, RowOf
    <2>2. Booked(t)
      BY <1>2, <1>3, <2>1, EndAttemptsTxnBooked DEF RetryEndings
    <2>3. /\ t.owner = w /\ t.stored = {}
          /\ t.logs = [x \in {<<i, jobs[i].attempt>> : i \in {j}} |->
                         Ended(attempts[x], at, "released")]
      BY DEF EndAttemptsTxn, Txn
    <2>4. attempts[k] \in AttemptRow
      BY <1>2, <1>3 DEF Rows, StoreTypeOK
    <2>5. Ended(attempts[k], at, "released").ended_by = "released"
      BY <2>4, EndedFields
    <2>6. k \in DOMAIN t.logs /\ t.logs[k].ended_by = "released"
      BY <2>1, <2>3, <2>5
    <2> HIDE DEF t
    <2>7. AwaitedSound(w, t)
      BY <2>1, <2>3, <2>6 DEF AwaitedSound
    <2> QED
      BY <1>4, <2>2, <2>3, <2>7, BeginCall DEF t
  <1>5. CASE /\ FinishDue(w, at)
             /\ Begin(FinishCancelledTxn(w, JobOf(w), AttemptOf(w), at))
             /\ UNCHANGED workers
    <2> DEFINE t == FinishCancelledTxn(w, JobOf(w), AttemptOf(w), at)
    <2>1. workers[w].pc = "finish_cancelled" /\ CancelDue(jobs[j], a, at)
      BY <1>5 DEF FinishDue, RowOf
    <2>2. Booked(t)
      BY <1>2, <1>3, <2>1, FinishCancelledTxnBooked
    <2>3. jobs[j] \in JobRow
      BY <1>2, <1>3 DEF Rows, StoreTypeOK
    <2>4. CancelDone(jobs[j]).state = "cancelled"
      BY <2>3 DEF CancelDone, JobRow
    <2>5. t.owner = w /\ t.stored = {} /\ t.rows = One(j, CancelDone(jobs[j]))
      BY DEF FinishCancelledTxn, Txn
    <2>6. j \in DOMAIN t.rows /\ t.rows[j].state = "cancelled"
      BY <2>4, <2>5 DEF One
    <2> HIDE DEF t
    <2>7. AwaitedSound(w, t)
      BY <2>1, <2>5, <2>6 DEF AwaitedSound
    <2> QED
      BY <1>5, <2>2, <2>5, <2>7, BeginCall DEF t
  <1>6. CASE EarlierAsk(w)
    <2>1. UNCHANGED storeVars
      BY <1>6 DEF EarlierAsk
    <2>2. CASE Report(w, "lost")
      BY <1>1, <1>2, <2>1, <2>2, QuietReport
    <2>3. CASE EndedBy(j, a, "released") /\ Report(w, "released")
      BY <1>1, <1>2, <2>1, <2>3, QuietReport
    <2>4. CASE EndedBy(j, a, "cancelled") /\ Report(w, "cancelled")
      BY <1>1, <1>2, <2>1, <2>4, CancelledAttempt, QuietReport
    <2> QED
      BY <1>6, <2>2, <2>3, <2>4 DEF EarlierAsk
  <1> QED
    BY <1>4, <1>5, <1>6 DEF EndAttempt

\* A worker that starts to wait for a row lock.
LEMMA AskToEndBooked ==
    ASSUME Whole, Stored', NEW w \in Worker, AskToEnd(w)
    PROVE  Books' /\ Desks' /\ Onward
  <1>1. /\ workers[w].pc \in {"release", "finish_cancelled"} /\ Free(w)
        /\ clock \in Nat /\ clock <= clock
    BY DEF AskToEnd, At, Free, Whole, Stored, StoreTypeOK
  <1>2. CASE EndAttempt(w, clock)
    BY <1>1, <1>2, EndAttemptBooked
  <1>3. CASE workers' = [workers EXCEPT ![w].asked = clock] /\ UNCHANGED storeVars
    <2>1. /\ workers'[w].pc = workers[w].pc
          /\ workers'[w].job = workers[w].job /\ workers'[w].attempt = workers[w].attempt
          /\ workers'[w].asked = clock
          /\ workers'[w].report = workers[w].report
          /\ \A v \in Worker \ {w} : workers'[v] = workers[v]
      BY <1>3 DEF Whole, Manned, WorkerState
    <2>2. /\ Mine(w) = {} /\ WorkerLedger(w) /\ ReportTrue(w)
          /\ workers[w].report = "none"
      BY <1>1, AtDesk DEF HoldsJob
    <2>3. Mine(w)' = {} /\ clock' = clock
      BY <1>3, <2>1, <2>2, SameWritten DEF storeVars, Mine, JobOf, AttemptOf
    <2>4. Onward
      BY <1>3, SameBooks DEF Whole
    <2>5. WorkerLedger(w)' /\ ReportTrue(w)'
      BY <1>1, <2>1, <2>2, <2>3, <2>4, DeskMoved DEF Whole, Books
    <2> QED
      BY <1>1, <1>3, <2>1, <2>5, QuietStep
  <1> QED
    BY <1>2, <1>3 DEF AskToEnd

LEMMA EndWaitedBooked ==
    ASSUME Whole, Stored', NEW w \in Worker, EndWaited(w)
    PROVE  Books' /\ Desks' /\ Onward
  <1>1. /\ workers[w].pc \in {"release", "finish_cancelled"} /\ Free(w)
        /\ workers[w].asked # Null /\ EndAttempt(w, workers[w].asked)
    BY DEF EndWaited, At, Free
  <1>2. workers[w].asked \in Nat /\ workers[w].asked <= clock
    BY <1>1, AtDesk DEF WorkerState
  <1> QED
    BY <1>1, <1>2, EndAttemptBooked

\* Once a transaction that stores no result has committed, its jobs have none,
\* neither stored nor about to be.
LEMMA InstallClears ==
    ASSUME Whole, NEW t \in open, Install(t), t.stored = {}, NEW j \in DOMAIN t.rows
    PROVE  \A r \in Written' : r.job_id # j
  <1>1. results' = results /\ open' = open \ {t}
    BY DEF Install
  <1>2. j \in Job /\ ResultsOf(j) = {}
    BY OpenFacts DEF Whole
  <1>3. \A r \in results : r.job_id # j
    BY <1>2 DEF ResultsOf
  <1>4. ASSUME NEW u \in open \ {t}, NEW r \in u.stored PROVE r.job_id # j
    <2>1. r.job_id \in DOMAIN u.rows
      BY PendingHeld
    <2> QED
      BY <1>2, <2>1 DEF Whole, Stored, LocksExclude
  <1> QED
    BY <1>1, <1>3, <1>4 DEF Written

LEMMA InstallStep ==
    ASSUME Whole, Stored', NEW w \in Worker, NEW t \in open, t.owner = w, Install(t),
           \A v \in Worker \ {w} : workers'[v] = workers[v],
           WorkerLedger(w)', ReportTrue(w)'
    PROVE  Books' /\ Desks' /\ Onward
  <1>1. Books' /\ Onward
    BY InstallBooks DEF Whole
  <1>2. open' = open \ {t} /\ clock' = clock
    BY DEF Install
  <1>3. \A u \in open' : u.owner # w
    BY <1>2 DEF Whole, Desks, CallsSound
  <1>4. CallsSound'
    BY <1>2, <1>3, CallsKept DEF Whole, Desks
  <1>5. \A v \in Worker \ {w} : Mine(v)' \subseteq Mine(v)
    BY InstallWritten, MineShrinks
  <1>6. clock <= clock'
    BY <1>2, ClockKept DEF Whole
  <1> QED
    BY <1>1, <1>4, <1>5, <1>6, DesksKept DEF Whole, Books

\* An answered commit after which the worker goes on with the same claim.
LEMMA InstallGo ==
    ASSUME Whole, Stored', NEW w \in Worker, NEW t \in open, t.owner = w, Install(t),
           NEW pc, Go(w, pc), pc # "publish",
           pc \in HoldsJob => workers[w].pc \in HoldsJob,
           workers[w].pc = "publish" => Mine(w)' = {}
    PROVE  Books' /\ Desks' /\ Onward
  <1>1. WorkerLedger(w) /\ ReportTrue(w) /\ workers[w].asked <= clock
        /\ (workers[w].pc \in HoldsJob => workers[w].report = "none")
    BY AtDesk
  <1>2. /\ workers'[w].pc = pc
        /\ workers'[w].job = workers[w].job /\ workers'[w].attempt = workers[w].attempt
        /\ workers'[w].asked = workers[w].asked
        /\ workers'[w].report = workers[w].report
        /\ \A v \in Worker \ {w} : workers'[v] = workers[v]
    BY GoFields DEF Whole
  <1>3. Mine(w)' \subseteq Mine(w)
    BY <1>2, InstallWritten DEF Mine, JobOf, AttemptOf
  <1>4. JobOf(w) \in Job /\ workers[w].report # "published" => Mine(w)' = {}
    BY <1>1, <1>3 DEF WorkerLedger, Mine
  <1>5. Onward /\ clock' = clock
    BY InstallBooks DEF Whole, Install
  <1>6. WorkerLedger(w)' /\ ReportTrue(w)'
    BY <1>1, <1>2, <1>4, <1>5, DeskMoved DEF Whole, Books
  <1> QED
    BY <1>2, <1>6, InstallStep

\* An answered commit that ends the worker's step.
LEMMA InstallReport ==
    ASSUME Whole, Stored', NEW w \in Worker, NEW t \in open, t.owner = w, Install(t),
           workers[w].pc \in HoldsJob, NEW what, Report(w, what),
           what # "published" => Mine(w)' = {},
           what = "published" =>
               \E r \in results' : /\ r.job_id = JobOf(w) /\ r.attempt = AttemptOf(w)
                                   /\ r.worker_id = w,
           what = "cancelled" => jobs'[JobOf(w)].state = "cancelled",
           what = "released" =>
               attempts'[<<JobOf(w), AttemptOf(w)>>].ended_by = "released"
    PROVE  Books' /\ Desks' /\ Onward
  <1>1. WorkerLedger(w) /\ JobOf(w) \in Job
    BY AtDesk
  <1>2. /\ workers'[w].job = workers[w].job /\ workers'[w].attempt = workers[w].attempt
        /\ \A v \in Worker \ {w} : workers'[v] = workers[v]
    BY DEF Report, Whole, Manned, WorkerState
  <1>3. what = "released" => EndedBy(JobOf(w), AttemptOf(w), "released")'
    BY <1>2 DEF EndedBy, JobOf, AttemptOf
  <1>4. Onward
    BY InstallBooks DEF Whole
  <1>5. WorkerLedger(w)' /\ ReportTrue(w)'
    BY <1>1, <1>3, <1>4, DeskReported DEF Whole, Books
  <1> QED
    BY <1>2, <1>5, InstallStep

LEMMA CommitBooked ==
    ASSUME Whole, Stored', NEW w \in Worker, NEW t \in open, Commit(w, t)
    PROVE  Books' /\ Desks' /\ Onward
  <1> DEFINE pc == workers[w].pc
             j  == JobOf(w)
             k  == <<JobOf(w), AttemptOf(w)>>
  <1>1. t.owner = w /\ Install(t) /\ Answer(w, t)
    BY DEF Commit
  <1>2. AwaitedSound(w, t)
    BY <1>1 DEF Whole, Desks, CallsSound
  <1>3. /\ jobs' = [i \in Job |-> IF i \in DOMAIN t.rows THEN t.rows[i] ELSE jobs[i]]
        /\ attempts' = [x \in Job \X AttemptNo |->
                          IF x \in DOMAIN t.logs THEN t.logs[x] ELSE attempts[x]]
        /\ results' = results \union t.stored
    BY <1>1 DEF Install
  <1>4. TxnOK(t) /\ TxnSound(t) /\ Booked(t)
    BY OpenFacts DEF Whole
  <1>5. CASE pc \in {"timer_reap", "idle_reap"} /\ Go(w, AfterReap(w))
    BY <1>1, <1>5, InstallGo DEF AfterReap, HoldsJob
  <1>6. CASE /\ pc \in {"claim", "reclaim"}
             /\ \E i \in DOMAIN t.rows :
                  workers' = [workers EXCEPT
                      ![w] = [Fresh("start") EXCEPT !.job = i,
                                                    !.attempt = t.rows[i].attempt]]
    <2>1. PICK i \in DOMAIN t.rows :
                  workers' = [workers EXCEPT
                      ![w] = [Fresh("start") EXCEPT !.job = i,
                                                    !.attempt = t.rows[i].attempt]]
      BY <1>6
    <2> DEFINE a == t.rows[i].attempt
    <2>2. /\ workers'[w].pc = "start" /\ workers'[w].job = i /\ workers'[w].attempt = a
          /\ workers'[w].asked = Null /\ workers'[w].report = "none"
          /\ \A v \in Worker \ {w} : workers'[v] = workers[v]
      BY <2>1 DEF Fresh, Whole, Manned
    <2>3. i \in Job /\ a \in AttemptNo /\ a \in Nat
      BY <1>1, <1>4, BudgetAssumption DEF TxnOK, TxnSound, AttemptNo
    <2>4. t.stored = {} /\ <<i, a>> \in DOMAIN t.logs /\ t.logs[<<i, a>>].worker_id = w
      BY <1>2, <1>6 DEF AwaitedSound
    <2>5. jobs'[i].attempt = a /\ attempts'[<<i, a>>].worker_id = w
      BY <1>3, <2>3, <2>4
    <2>6. JobOf(w)' = i /\ AttemptOf(w)' = a
      BY <2>2 DEF JobOf, AttemptOf
    <2>7. \A r \in Written' : r.job_id # i
      BY <1>1, <2>4, InstallClears
    <2>8. workers'[w].asked <= clock'
      BY <2>2, NullFacts DEF Stored, StoreTypeOK
    <2>9. a <= jobs'[i].attempt
      BY <2>3, <2>5
    <2> HIDE DEF a
    <2>10. WorkerLedger(w)'
      BY <2>2, <2>3, <2>5, <2>6, <2>7, <2>8, <2>9 DEF WorkerLedger
    <2>11. ReportTrue(w)'
      BY <2>2 DEF ReportTrue
    <2> QED
      BY <1>1, <2>2, <2>10, <2>11, InstallStep
  <1>7. CASE pc = "start" /\ Go(w, "running")
    BY <1>1, <1>7, InstallGo DEF HoldsJob
  <1>8. CASE pc = "heartbeat" /\ Go(w, IF t.rows[JobOf(w)].cancel_requested_at # Null
                                       THEN "finish_cancelled" ELSE "running")
    BY <1>1, <1>8, InstallGo DEF HoldsJob
  <1>9. CASE pc = "publish" /\ t.stored # {} /\ Report(w, "published")
    <2>1. PICK r \in t.stored : TRUE
      BY <1>9
    <2>2. r.job_id = j /\ r.attempt = AttemptOf(w) /\ r.worker_id = w
      BY <1>2, <1>9 DEF AwaitedSound
    <2> QED
      BY <1>1, <1>3, <1>9, <2>2, InstallReport DEF HoldsJob
  <1>10. CASE pc = "publish" /\ t.stored = {} /\ Go(w, "job_status")
    <2>1. j \in DOMAIN t.rows
      BY <1>2, <1>10 DEF AwaitedSound
    <2>2. \A r \in Written' : r.job_id # j
      BY <1>1, <1>10, <2>1, InstallClears
    <2>3. JobOf(w)' = j
      BY <1>10, GoFields DEF Whole, JobOf
    <2>4. Mine(w)' = {}
      BY <2>2, <2>3 DEF Mine
    <2> QED
      BY <1>1, <1>10, <2>4, InstallGo DEF HoldsJob
  <1>11. ASSUME NEW what, Report(w, what), pc \in HoldsJob, pc # "publish"
         PROVE  Mine(w)' = {}
    <2>1. Mine(w) = {}
      BY <1>11, AtDesk
    <2>2. workers'[w].job = workers[w].job /\ workers'[w].attempt = workers[w].attempt
      BY <1>11 DEF Report, Whole, Manned, WorkerState
    <2> QED
      BY <1>1, <2>1, <2>2, InstallWritten DEF Mine, JobOf, AttemptOf
  <1>12. CASE pc = "release" /\ Report(w, "released")
    <2>1. k \in DOMAIN t.logs /\ t.logs[k].ended_by = "released"
      BY <1>2, <1>12 DEF AwaitedSound
    <2>2. attempts'[k].ended_by = "released"
      BY <1>3, <1>4, <2>1 DEF TxnOK
    <2> QED
      BY <1>1, <1>11, <1>12, <2>2, InstallReport DEF HoldsJob
  <1>13. CASE pc = "finish_cancelled" /\ Report(w, "cancelled")
    <2>1. j \in DOMAIN t.rows /\ t.rows[j].state = "cancelled"
      BY <1>2, <1>13 DEF AwaitedSound
    <2>2. jobs'[j].state = "cancelled"
      BY <1>3, <1>4, <2>1 DEF TxnOK
    <2> QED
      BY <1>1, <1>11, <1>13, <2>2, InstallReport DEF HoldsJob
  <1> QED
    BY <1>1, <1>5, <1>6, <1>7, <1>8, <1>9, <1>10, <1>12, <1>13 DEF Answer

LEMMA BeginStepBooked ==
    ASSUME Whole, Stored', NEW w \in Worker, BeginStep(w)
    PROVE  Books' /\ Desks' /\ Onward
  <1>1. workers[w].pc = "step" /\ Free(w) /\ UNCHANGED storeVars
    BY DEF BeginStep, At, Free
  <1>2. CASE Go(w, "timer_reap")
    BY <1>1, <1>2, QuietGo DEF HoldsJob
  <1>3. CASE Go(w, "claim")
    BY <1>1, <1>3, QuietGo DEF HoldsJob
  <1> QED
    BY <1>2, <1>3 DEF BeginStep

\* A session that nobody awaits any more is as it was, and its worker is free.
LEMMA AbandonBooked ==
    ASSUME Whole, NEW w \in Worker, Abandon(w), UNCHANGED <<clock, jobs, attempts, results>>,
           \A v \in Worker \ {w} : workers'[v] = workers[v]
    PROVE  Books' /\ Onward /\ CallsSound' /\ Written' = Written
  <1> DEFINE Left(t) == IF t.owner = w THEN [t EXCEPT !.owner = NoWorker] ELSE t
  <1>1. open' = {Left(t) : t \in open}
    BY DEF Abandon
  <1>2. ASSUME NEW t \in open
        PROVE  /\ Left(t).rows = t.rows /\ Left(t).logs = t.logs /\ Left(t).stored = t.stored
               /\ Left(t).owner \in Worker => Left(t) = t /\ t.owner # w
    <2>1. TxnOK(t)
      BY DEF Whole, Stored, StoreTypeOK
    <2> QED
      BY <2>1, WorkerAssumption DEF TxnOK
  <1>3. Books' /\ Onward
    BY <1>1, <1>2, FewerOpenBooks DEF Whole
  <1>4. \A u \in open' : u.owner \in Worker => u \in open /\ u.owner # w
    BY <1>1, <1>2
  <1>5. CallsSound'
    BY <1>4, CallsKept DEF Whole, Desks
  <1>6. Written' = Written
    <2> HIDE DEF Left
    <2>1. \A t \in open : \E u \in open' : u.stored = t.stored
      BY <1>1, <1>2
    <2>2. \A u \in open' : \E t \in open : u.stored = t.stored
      BY <1>1, <1>2
    <2> QED
      BY <2>1, <2>2 DEF Written
  <1> QED
    BY <1>3, <1>5, <1>6

LEMMA DropBooked ==
    ASSUME Whole, Stored', NEW w \in Worker, Drop(w)
    PROVE  Books' /\ Desks' /\ Onward
  <1>1. /\ WorkerLedger(w) /\ ReportTrue(w)
        /\ workers[w].pc \in HoldsJob => workers[w].report = "none"
    BY AtDesk
  <1>2. /\ workers'[w].pc = workers[w].pc /\ workers'[w].result = workers[w].result
        /\ workers'[w].job = workers[w].job /\ workers'[w].attempt = workers[w].attempt
        /\ workers'[w].asked = Null /\ workers'[w].report = workers[w].report
        /\ \A v \in Worker \ {w} : workers'[v] = workers[v]
    BY DEF Drop, Whole, Manned, WorkerState
  <1>3. Books' /\ Onward /\ CallsSound' /\ Written' = Written
    BY <1>2, AbandonBooked DEF Drop
  <1>4. Mine(w)' = Mine(w)
    BY <1>2, <1>3 DEF Mine, JobOf, AttemptOf
  <1>5. clock' = clock /\ clock <= clock'
    BY ClockKept DEF Drop, Whole
  <1>6. workers'[w].asked <= clock'
    BY <1>2, NullFacts DEF Stored, StoreTypeOK
  <1>7. JobOf(w) \in Job =>
          /\ workers[w].pc # "publish" /\ workers[w].report # "published" => Mine(w) = {}
          /\ workers[w].pc = "publish" => \A r \in Mine(w) : r.outcome = workers[w].result
    BY <1>1 DEF WorkerLedger, Mine
  <1>8. WorkerLedger(w)' /\ ReportTrue(w)'
    BY <1>1, <1>2, <1>3, <1>4, <1>6, <1>7, DeskMoved DEF Whole, Books
  <1>9. \A v \in Worker \ {w} : Mine(v)' \subseteq Mine(v)
    BY <1>2, <1>3, MineShrinks
  <1> QED
    BY <1>2, <1>3, <1>5, <1>8, <1>9, DesksKept DEF Whole, Books

\* A worker that is down, or has just come up, holds nothing.
LEMMA EmptyDesk ==
    ASSUME Stored', NEW w \in Worker, workers'[w].job = Null, workers'[w].asked = Null,
           workers'[w].report = "none"
    PROVE  WorkerLedger(w)' /\ ReportTrue(w)'
  <1>1. JobOf(w)' \notin Job
    BY NullFacts, JobAssumption DEF JobOf
  <1>2. workers'[w].asked <= clock'
    BY NullFacts DEF Stored, StoreTypeOK
  <1> QED
    BY <1>1, <1>2 DEF WorkerLedger, ReportTrue

LEMMA CrashBooked ==
    ASSUME Whole, Stored', NEW w \in Worker, Crash(w)
    PROVE  Books' /\ Desks' /\ Onward
  <1>1. /\ workers'[w].job = Null /\ workers'[w].asked = Null /\ workers'[w].report = "none"
        /\ \A v \in Worker \ {w} : workers'[v] = workers[v]
    BY DEF Crash, Fresh, Whole, Manned
  <1>2. Books' /\ Onward /\ CallsSound' /\ Written' = Written
    BY <1>1, AbandonBooked DEF Crash
  <1>3. WorkerLedger(w)' /\ ReportTrue(w)'
    BY <1>1, EmptyDesk
  <1>4. clock <= clock'
    BY ClockKept DEF Crash, Whole
  <1>5. \A v \in Worker \ {w} : Mine(v)' \subseteq Mine(v)
    BY <1>1, <1>2, MineShrinks
  <1> QED
    BY <1>1, <1>2, <1>3, <1>4, <1>5, DesksKept DEF Whole, Books

LEMMA RestartBooked ==
    ASSUME Whole, Stored', NEW w \in Worker, Restart(w)
    PROVE  Books' /\ Desks' /\ Onward
  <1>1. workers[w].pc = "down" /\ Go(w, "step") /\ UNCHANGED storeVars
    BY DEF Restart
  <1>2. /\ workers'[w].pc = "step"
        /\ workers'[w].job = workers[w].job /\ workers'[w].attempt = workers[w].attempt
        /\ workers'[w].asked = workers[w].asked /\ workers'[w].report = workers[w].report
        /\ \A v \in Worker \ {w} : workers'[v] = workers[v]
    BY <1>1, GoFields DEF Whole
  <1>3. Books' /\ Onward
    BY <1>1, SameBooks DEF Whole
  <1>4. Written' = Written /\ open' = open /\ clock' = clock
    BY <1>1, SameWritten DEF storeVars
  <1>5. Mine(w)' = Mine(w)
    BY <1>2, <1>4 DEF Mine, JobOf, AttemptOf
  <1>6. /\ WorkerLedger(w) /\ ReportTrue(w) /\ workers[w].asked <= clock
        /\ JobOf(w) \in Job /\ workers[w].report # "published" => Mine(w) = {}
    BY <1>1, AtDesk DEF WorkerLedger, Mine
  <1>7. WorkerLedger(w)' /\ ReportTrue(w)'
    BY <1>2, <1>3, <1>4, <1>5, <1>6, DeskMoved DEF Whole, Books, HoldsJob
  <1>8. CallsSound'
    <2>1. ASSUME NEW t \in open, t.owner \in Worker PROVE AwaitedSound(t.owner, t)'
      <3>1. AwaitedSound(t.owner, t)
        BY <2>1 DEF Whole, Desks, CallsSound
      <3>2. CASE t.owner = w
        BY <1>1, <1>2, <3>1, <3>2 DEF AwaitedSound
      <3>3. CASE t.owner # w
        BY <1>2, <2>1, <3>1, <3>3 DEF AwaitedSound, JobOf, AttemptOf
      <3> QED
        BY <3>2, <3>3
    <2> QED
      BY <1>4, <2>1 DEF Whole, Desks, CallsSound
  <1>9. \A v \in Worker \ {w} : Mine(v)' \subseteq Mine(v)
    BY <1>2, <1>4, MineShrinks
  <1>10. clock <= clock'
    BY <1>4, ClockKept DEF Whole
  <1> QED
    BY <1>2, <1>3, <1>7, <1>8, <1>9, <1>10, DesksKept DEF Whole, Books

-----------------------------------------------------------------------------
(* Steps of no worker: the tables move and every desk stays as it is.      *)

LEMMA ElsewhereBooked ==
    ASSUME Whole, Stored', UNCHANGED workers, Books', Onward, clock <= clock',
           \A u \in open' : u.owner \in Worker => u \in open,
           Written' \subseteq Written
    PROVE  Desks'
  <1>1. CallsSound'
    BY CallsKept DEF Whole, Desks
  <1>2. \A v \in Worker : workers'[v] = workers[v] /\ Mine(v)' \subseteq Mine(v)
    BY MineShrinks
  <1> QED
    BY <1>1, <1>2, DesksKept DEF Whole, Books

LEMMA LateCommitBooked ==
    ASSUME Whole, Stored', NEW t \in open, LateCommit(t)
    PROVE  Books' /\ Desks' /\ Onward
  <1>1. Install(t) /\ UNCHANGED workers
    BY DEF LateCommit
  <1>2. Books' /\ Onward
    BY <1>1, InstallBooks DEF Whole
  <1>3. open' \subseteq open /\ clock' = clock /\ clock <= clock'
    BY <1>1, ClockKept DEF Install, Whole
  <1> QED
    BY <1>1, <1>2, <1>3, InstallWritten, ElsewhereBooked

LEMMA RollbackBooked ==
    ASSUME Whole, Stored', NEW t \in open, Rollback(t)
    PROVE  Books' /\ Desks' /\ Onward
  <1>1. open' \subseteq open /\ UNCHANGED <<clock, jobs, attempts, results, workers>>
    BY DEF Rollback
  <1>2. Books' /\ Onward
    BY <1>1, FewerOpenBooks DEF Whole
  <1>3. Written' \subseteq Written
    BY <1>1 DEF Written
  <1>4. clock <= clock'
    BY <1>1, ClockKept DEF Whole
  <1> QED
    BY <1>1, <1>2, <1>3, <1>4, ElsewhereBooked

LEMMA CancelBooked ==
    ASSUME Whole, Stored', NEW j \in Job, Cancel(j)
    PROVE  Books' /\ Desks' /\ Onward
  <1>1. PICK t : t = CancelTxn(j, clock)
    OBVIOUS
  <1>2. Rows /\ RecordsSound
    BY DEF Whole, Books, Rows, Stored
  <1>3. Booked(t) /\ t.owner = NoWorker /\ t.stored = {}
    BY <1>1, <1>2, CancelTxnBooked DEF Cancel, CancelTxn, Txn
  <1>4. Begin(t) /\ UNCHANGED workers
    BY <1>1 DEF Cancel
  <1>5. Books' /\ Onward
    BY <1>3, <1>4, BeginBooks DEF Whole
  <1>6. Written' \subseteq Written
    BY <1>3, <1>4, BeginWritten
  <1>7. /\ \A u \in open' : u.owner \in Worker => u \in open
        /\ clock <= clock'
    BY <1>3, <1>4, WorkerAssumption, ClockKept DEF Begin, Whole
  <1> QED
    BY <1>4, <1>5, <1>6, <1>7, ElsewhereBooked

LEMMA TickBooked ==
    ASSUME Whole, Stored', Tick
    PROVE  Books' /\ Desks' /\ Onward
  <1>1. Books' /\ Onward
    BY TickBooks DEF Whole
  <1>2. UNCHANGED <<results, open, workers>> /\ clock <= clock'
    BY DEF Tick, Whole, Stored, StoreTypeOK
  <1>3. Written' = Written
    BY <1>2, SameWritten
  <1> QED
    BY <1>1, <1>2, <1>3, ElsewhereBooked

LEMMA StutterBooked ==
    ASSUME Whole, Stored', UNCHANGED vars
    PROVE  Books' /\ Desks' /\ Onward
  <1>1. UNCHANGED storeVars /\ UNCHANGED workers
    BY DEF vars
  <1>2. Books' /\ Onward
    BY <1>1, SameBooks DEF Whole
  <1>3. Written' = Written /\ open' = open /\ clock <= clock'
    BY <1>1, SameWritten, ClockKept DEF storeVars, Whole
  <1> QED
    BY <1>1, <1>2, <1>3, ElsewhereBooked

-----------------------------------------------------------------------------
(* The invariant.                                                          *)

LEMMA WorkerStepBooked ==
    ASSUME Whole, Stored', NEW w \in Worker, WorkerStep(w)
    PROVE  Books' /\ Desks' /\ Onward
  <1>1. CASE BeginStep(w)
    BY <1>1, BeginStepBooked
  <1>2. CASE Reap(w) \/ Claim(w)
    BY <1>2, ReapBooked, ClaimBooked
  <1>3. CASE Start(w) \/ Heartbeat(w)
    BY <1>3, StartBooked, HeartbeatBooked
  <1>4. CASE RunEnds(w) \/ RecordExecution(w)
    BY <1>4, RunEndsBooked, RecordExecutionBooked
  <1>5. CASE Publish(w) \/ JobStatus(w)
    BY <1>5, PublishBooked, JobStatusBooked
  <1>6. CASE AskToEnd(w) \/ EndWaited(w)
    BY <1>6, AskToEndBooked, EndWaitedBooked
  <1>7. ASSUME NEW t \in open, Commit(w, t) PROVE Books' /\ Desks' /\ Onward
    BY <1>7, CommitBooked
  <1> QED
    BY <1>1, <1>2, <1>3, <1>4, <1>5, <1>6, <1>7 DEF WorkerStep

LEMMA NextBooked == LedgerInv /\ [Next]_vars => LedgerInv' /\ Onward
  <1> SUFFICES ASSUME LedgerInv, [Next]_vars
               PROVE  LedgerInv' /\ Onward
    OBVIOUS
  <1>1. Whole /\ IndInv'
    BY WholeSplit, NextSafe DEF LedgerInv
  <1>2. Stored' /\ Manned'
    BY <1>1 DEF IndInv, Stored, Manned, TypeOK
  <1>3. CASE UNCHANGED vars
    BY <1>1, <1>2, <1>3, StutterBooked, WholePrimed
  <1>4. ASSUME NEW w \in Worker, WorkerStep(w) \/ Fault(w) PROVE LedgerInv' /\ Onward
    BY <1>1, <1>2, <1>4, WorkerStepBooked, DropBooked, CrashBooked, RestartBooked,
       WholePrimed DEF Fault
  <1>5. ASSUME NEW t \in open, LateCommit(t) \/ Rollback(t) PROVE LedgerInv' /\ Onward
    BY <1>1, <1>2, <1>5, LateCommitBooked, RollbackBooked, WholePrimed
  <1>6. ASSUME NEW j \in Cancellable, Cancel(j) PROVE LedgerInv' /\ Onward
    BY <1>1, <1>2, <1>6, CancelAssumption, CancelBooked, WholePrimed
  <1>7. CASE Tick
    BY <1>1, <1>2, <1>7, TickBooked, WholePrimed
  <1> QED
    BY <1>3, <1>4, <1>5, <1>6, <1>7 DEF Next

LEMMA RestBooked == AtRest => LedgerInv
  <1> SUFFICES ASSUME AtRest PROVE LedgerInv
    OBVIOUS
  <1>1. IndInv
    BY RestSafe
  <1>2. /\ clock = 0 /\ results = {} /\ open = {}
        /\ \A k \in Job \X AttemptNo : attempts[k] = NoAttempt
        /\ \A j \in Job : jobs[j].state = "queued" /\ jobs[j].attempt = 0
        /\ \A w \in Worker : workers[w] \in {Fresh("step"), Fresh("down")}
    BY DEF AtRest, StoreInit
  <1>3. ASSUME NEW j \in Job PROVE LedgerSound(jobs[j], Logs(j), clock) /\ EndSound(j, jobs[j])
    <2>1. LogSound(NoAttempt, 0)
      BY NullFacts DEF LogSound, AttemptChecks, NoAttempt
    <2>2. \A a \in AttemptNo : Logs(j)[a] = NoAttempt /\ a \in Nat /\ a > 0
      BY <1>2, BudgetAssumption DEF Logs, AttemptNo
    <2>3. LedgerSound(jobs[j], Logs(j), clock)
      BY <1>2, <2>1, <2>2 DEF LedgerSound
    <2> QED
      BY <1>2, <2>3 DEF EndSound, ResultStates
  <1>4. RecordsSound /\ TxnsSound /\ CallsSound
    BY <1>2, <1>3 DEF RecordsSound, TxnsSound, CallsSound
  <1>5. ASSUME NEW w \in Worker PROVE WorkerLedger(w) /\ ReportTrue(w)
    <2>1. /\ workers[w].pc \in {"step", "down"}
          /\ workers[w].job = Null /\ workers[w].asked = Null
          /\ workers[w].report = "none"
      BY <1>2 DEF Fresh
    <2>2. JobOf(w) \notin Job
      BY <2>1, NullFacts, JobAssumption DEF JobOf
    <2> QED
      BY <1>2, <2>1, <2>2, NullFacts DEF WorkerLedger, ReportTrue, HoldsJob
  <1> QED
    BY <1>1, <1>4, <1>5, ReportsSplit DEF LedgerInv

LEMMA InitBooked == Init => LedgerInv
  BY InitAtRest, RestBooked

\* LedgerInv holds of every reachable state of the fleet (store.py, worker.py).
THEOREM LedgerInductive == Spec => []LedgerInv
  BY InitBooked, NextBooked, PTL DEF Spec

-----------------------------------------------------------------------------
(* What the records say.                                                   *)

\* The attempts of a job, in the checker's words.
LEMMA JobLedger ==
    ASSUME LedgerInv, NEW j \in Job
    PROVE  LET n == jobs[j].attempt
               log == [a \in AttemptNo |-> attempts[<<j, a>>]]
           IN  /\ n \in Nat /\ Log(j) = 1 .. n /\ n <= MaxAttempts[j]
               /\ \A a \in Log(j) :
                    /\ a \in AttemptNo /\ a \in Nat
                    /\ LogSound(log[a], clock)
                    /\ a < n => /\ log[a].ended_by \in RetryEndings
                                /\ log[a].ended_at <= log[a + 1].claimed_at
                    /\ a = n => LatestSound(jobs[j], log[a])
               /\ EndSound(j, jobs[j]) /\ RowSound(j, jobs[j])
  <1> DEFINE n == jobs[j].attempt
             log == [a \in AttemptNo |-> attempts[<<j, a>>]]
  <1>1. LedgerSound(jobs[j], log, clock) /\ EndSound(j, jobs[j])
    BY DEF LedgerInv, RecordsSound, Logs
  <1>2. RowSound(j, jobs[j]) /\ jobs[j] \in JobRow
    BY DEF LedgerInv, IndInv, CommittedSound, TypeOK, StoreTypeOK
  <1>3. n \in Nat /\ n <= MaxBudget /\ MaxBudget \in Nat
    BY <1>2, BudgetAssumption DEF JobRow
  <1>4. n <= MaxAttempts[j]
    BY <1>2 DEF RowSound, JobChecks
  <1>5. \A a \in AttemptNo : a \in Log(j) <=> a <= n
    <2> TAKE a \in AttemptNo
    <2>1. a \in Nat
      BY BudgetAssumption DEF AttemptNo
    <2>2. CASE a <= n
      BY <1>1, <2>2 DEF LedgerSound, Log
    <2>3. CASE a > n
      BY <1>1, <1>3, <2>1, <2>3, NoAttemptFields DEF LedgerSound, Log
    <2> QED
      BY <1>3, <2>1, <2>2, <2>3
  <1>6. Log(j) = 1 .. n
    BY <1>3, <1>5 DEF Log, AttemptNo
  <1>7. \A a \in Log(j) : a \in AttemptNo /\ a \in Nat
    BY BudgetAssumption DEF Log, AttemptNo
  <1> HIDE DEF log
  <1>8. \A a \in Log(j) :
          /\ LogSound(log[a], clock)
          /\ a < n => /\ log[a].ended_by \in RetryEndings
                      /\ log[a].ended_at <= log[a + 1].claimed_at
          /\ a = n => LatestSound(jobs[j], log[a])
    BY <1>1, <1>7 DEF LedgerSound
  <1> QED
    BY <1>1, <1>2, <1>3, <1>4, <1>6, <1>7, <1>8 DEF log

\* Every attempt but the latest was given back, in time, before the next.
LEMMA GivenBackBefore ==
    ASSUME LedgerInv, NEW j \in Job, NEW a \in Log(j), a < jobs[j].attempt
    PROVE  /\ attempts[<<j, a>>].ended_by \in RetryEndings
           /\ EndedInTime(attempts[<<j, a>>])
           /\ attempts[<<j, a>>].ended_at <= attempts[<<j, a + 1>>].claimed_at
  <1>1. /\ a \in AttemptNo /\ a \in Nat /\ jobs[j].attempt \in Nat
        /\ LogSound(attempts[<<j, a>>], clock)
        /\ attempts[<<j, a>>].ended_by \in RetryEndings
    BY JobLedger
  <1>2. a + 1 \in AttemptNo
    <2>1. jobs[j].attempt <= MaxAttempts[j] /\ MaxAttempts[j] \in 1 .. MaxBudget
      BY JobLedger, BudgetAssumption
    <2> QED
      BY <1>1, <2>1, BudgetAssumption DEF AttemptNo
  <1>3. attempts[<<j, a>>].ended_at <= attempts[<<j, a + 1>>].claimed_at
    BY <1>1, <1>2, JobLedger
  <1>4. EndedInTime(attempts[<<j, a>>])
    BY <1>1 DEF LogSound, RetryEndings, NotEnded
  <1> QED
    BY <1>1, <1>3, <1>4

LEMMA NeverOverlap ==
    ASSUME LedgerInv, NEW j \in Job
    PROVE  NoOverlap(j)
  <1> SUFFICES ASSUME NEW a \in Log(j), NEW b \in Log(j), a + 1 = b
               PROVE  /\ attempts[<<j, a>>].ended_at # Null
                      /\ attempts[<<j, a>>].ended_at <= attempts[<<j, b>>].claimed_at
    BY DEF NoOverlap
  <1>1. a < jobs[j].attempt
    BY JobLedger
  <1> QED
    BY <1>1, GivenBackBefore DEF EndedInTime

\* Mid-run, too, a job's attempts are gapless, never overlap, and all but the
\* latest were given back (store.py's claim, release and reap).
THEOREM AttemptsAreSerial == Spec => []UnfinishedJobsAreClean
  <1>1. LedgerInv => UnfinishedJobsAreClean
    <2> SUFFICES ASSUME LedgerInv, NEW j \in Job
                 PROVE  /\ NoOverlap(j)
                        /\ Log(j) = 1 .. jobs[j].attempt
                        /\ \A a \in Log(j) :
                             a < jobs[j].attempt =>
                                 attempts[<<j, a>>].ended_by \in RetryEndings
      BY DEF UnfinishedJobsAreClean
    <2>1. Log(j) = 1 .. jobs[j].attempt
      BY JobLedger
    <2> QED
      BY <2>1, NeverOverlap, GivenBackBefore
  <1> QED
    BY <1>1, LedgerInductive, PTL

\* Whatever a worker's counters say of its latest job is so, and stays so though
\* sessions it gave up on still commit (worker.py, step).
THEOREM CountersTellTheTruth == Spec => []ReportsAreTrue
  <1>1. LedgerInv => ReportsAreTrue
    BY DEF LedgerInv
  <1> QED
    BY <1>1, LedgerInductive, PTL

\* No commit breaks a row check, the attempts' key or the one result per job of
\* the migrations, however late it comes.
THEOREM NoConstraintFires == Spec => []ConstraintsNeverFire
  <1>1. ASSUME LedgerInv, NEW t \in open
        PROVE  /\ \A j \in DOMAIN t.rows : JobChecks(j, t.rows[j])
               /\ \A k \in DOMAIN t.logs : AttemptChecks(t.logs[k])
               /\ \A j \in DOMAIN t.rows :
                    t.rows[j].attempt > jobs[j].attempt =>
                       attempts[<<j, t.rows[j].attempt>>] = NoAttempt
               /\ \A r \in t.stored : ResultsOf(r.job_id) = {}
    <2>1. Whole
      BY <1>1, WholeSplit
    <2>2. /\ TxnOK(t) /\ TxnSound(t) /\ Booked(t)
          /\ \A j \in DOMAIN t.rows :
               /\ j \in Job /\ jobs[j] \in JobRow /\ t.rows[j] \in JobRow
               /\ ResultsOf(j) = {}
      BY <2>1, OpenFacts DEF Whole
    <2>3. \A j \in DOMAIN t.rows : JobChecks(j, t.rows[j])
      BY <2>2 DEF TxnSound, RowSound
    <2>4. ASSUME NEW k \in DOMAIN t.logs PROVE AttemptChecks(t.logs[k])
      <3>1. PICK j \in Job, a \in AttemptNo : k = <<j, a>>
        BY <2>2, <2>4 DEF TxnOK
      <3>2. j \in DOMAIN t.rows
        BY <2>2, <2>4, <3>1 DEF Booked, WritesLatest
      <3>3. LedgerSound(t.rows[j], LogsAfter(t, j), clock)
        BY <2>2, <3>2 DEF Booked, LeavesRecords
      <3>4. LogsAfter(t, j)[a] = t.logs[k]
        BY <2>4, <3>1 DEF LogsAfter
      <3> QED
        BY <3>3, <3>4 DEF LedgerSound, LogSound
    <2>5. ASSUME NEW j \in DOMAIN t.rows, t.rows[j].attempt > jobs[j].attempt
          PROVE  attempts[<<j, t.rows[j].attempt>>] = NoAttempt
      <3>1. /\ j \in Job /\ t.rows[j].attempt \in 0 .. MaxBudget
            /\ jobs[j].attempt \in 0 .. MaxBudget
        BY <2>2 DEF JobRow
      <3>2. t.rows[j].attempt \in AttemptNo
        BY <2>5, <3>1, BudgetAssumption DEF AttemptNo
      <3>3. LedgerSound(jobs[j], Logs(j), clock)
        BY <1>1, <3>1 DEF LedgerInv, RecordsSound
      <3> QED
        BY <2>5, <3>2, <3>3 DEF LedgerSound, Logs
    <2>6. \A r \in t.stored : ResultsOf(r.job_id) = {}
      BY <2>2 DEF TxnSound
    <2> QED
      BY <2>3, <2>4, <2>5, <2>6
  <1>2. LedgerInv => ConstraintsNeverFire
    BY <1>1 DEF ConstraintsNeverFire
  <1> QED
    BY <1>2, LedgerInductive, PTL

\* A final job, a result and an ended attempt are never written again, whatever
\* commits late (store.py; the attempt log of design.md).
THEOREM StoreIsAppendOnly == Spec => HistoryIsKept
  <1>1. LedgerInv /\ [Next]_vars =>
          [ /\ \A j \in Job : jobs[j].state \in FinalStates => jobs'[j] = jobs[j]
            /\ \A k \in Job \X AttemptNo :
                 attempts[k].ended_by # NotEnded =>
                    [attempts'[k] EXCEPT !.execution = FALSE]
                        = [attempts[k] EXCEPT !.execution = FALSE]
            /\ results \subseteq results' ]_vars
    BY NextBooked DEF Onward
  <1> QED
    BY <1>1, LedgerInductive, PTL DEF Spec, HistoryIsKept

\* Of a job's attempts, the latest is the one its row numbers.
LEMMA LastIsLatest ==
    ASSUME LedgerInv, NEW j \in Job, NEW a \in Log(j)
    PROVE  IsLast(j, a) <=> a = jobs[j].attempt
  <1>1. jobs[j].attempt \in Nat /\ Log(j) = 1 .. jobs[j].attempt
    BY JobLedger
  <1> QED
    BY <1>1 DEF IsLast

\* The checker finds the attempts of a final job ended in time, each as it
\* should be, and within its budget.
LEMMA FinalAccounting ==
    ASSUME LedgerInv, NEW j \in Job, jobs[j].state \in FinalStates
    PROVE  Accounting(j)
  <1> DEFINE row == jobs[j]
  <1>1. /\ row.attempt \in Nat /\ Log(j) = 1 .. row.attempt
        /\ row.attempt <= MaxAttempts[j]
        /\ EndSound(j, row) /\ RowSound(j, row)
    BY JobLedger
  <1>2. ASSUME NEW a \in Log(j)
        PROVE  LET log == attempts[<<j, a>>]
                   final(s) == row.state = s /\ IsLast(j, a)
               IN  /\ EndedInTime(log)
                   /\ ~IsLast(j, a) => log.ended_by \in RetryEndings
                   /\ (\E s \in ResultStates : final(s)) => log.ended_by = "published"
                   /\ final("dead_lettered") => log.ended_by \in RetryEndings
                   /\ final("cancelled") => log.ended_by \in RetryEndings \union {"cancelled"}
                   /\ log.ended_by = "cancelled" => row.state = "cancelled"
    <2> DEFINE log == attempts[<<j, a>>]
    <2>1. CASE a < row.attempt
      <3>1. ~IsLast(j, a)
        BY <1>1, <2>1, LastIsLatest
      <3>2. log.ended_by \in RetryEndings /\ EndedInTime(log)
        BY <2>1, GivenBackBefore
      <3> QED
        BY <3>1, <3>2 DEF RetryEndings
    <2>2. CASE a = row.attempt
      <3>1. IsLast(j, a)
        BY <2>2, LastIsLatest
      <3>2. LogSound(log, clock) /\ LatestSound(row, log)
        BY <2>2, JobLedger
      <3>3. /\ row.state = "dead_lettered" => log.ended_by \in RetryEndings
            /\ row.state \in ResultStates => log.ended_by = "published"
            /\ row.state = "cancelled" => log.ended_by \in RetryEndings \union {"cancelled"}
        BY <3>2 DEF LatestSound
      <3>4. log.ended_by # NotEnded
        BY <3>3 DEF FinalStates, RetryEndings, NotEnded
      <3>5. EndedInTime(log)
        BY <3>2, <3>4 DEF LogSound
      <3>6. log.ended_by = "cancelled" => row.state = "cancelled"
        BY <3>3 DEF FinalStates, RetryEndings
      <3> QED
        BY <3>1, <3>3, <3>5, <3>6
    <2> QED
      BY <1>1, <2>1, <2>2
  <1>3. row.state \in ResultStates \union {"dead_lettered"} => Log(j) # {}
    <2>1. row.state \in ResultStates \union {"dead_lettered"} => row.attempt >= 1
      BY <1>1 DEF RowSound, ResultStates
    <2> QED
      BY <1>1, <2>1
  <1>4. /\ row.state = "dead_lettered" => /\ row.attempt >= MaxAttempts[j]
                                          /\ row.cancel_requested_at = Null
        /\ row.state = "cancelled" => row.cancel_requested_at # Null
    BY <1>1 DEF EndSound
  <1> QED
    BY <1>1, <1>2, <1>3, <1>4 DEF Accounting

\* The one result of a job is from its latest attempt, by its holder, inside
\* its lease.
LEMMA ResultsEntitled ==
    ASSUME LedgerInv, NEW j \in Job, NEW r \in ResultsOf(j)
    PROVE  Entitled(j, r)
  <1>1. r \in results /\ r.job_id = j
    BY DEF ResultsOf
  <1>2. OneResult(j)
    BY DEF LedgerInv, IndInv, OneResultPerJob
  <1>3. jobs[j].state \in ResultStates /\ r.attempt = jobs[j].result_id
    BY <1>2 DEF OneResult
  <1>4. EndSound(j, jobs[j]) /\ RowSound(j, jobs[j]) /\ Log(j) = 1 .. jobs[j].attempt
        /\ jobs[j].attempt \in Nat
    BY JobLedger
  <1>5. r.attempt = jobs[j].attempt
    BY <1>3, <1>4 DEF EndSound
  <1>6. r.attempt \in Log(j) /\ r.attempt \in AttemptNo
    <2>1. jobs[j].attempt >= 1
      BY <1>3, <1>4 DEF RowSound, ResultStates
    <2> QED
      BY <1>4, <1>5, <2>1 DEF Log
  <1>7. ResultSound(r, Logs(j))
    BY <1>1 DEF LedgerInv, RecordsSound
  <1>8. jobs[j].cancel_requested_at = Null
    BY <1>3, <1>4 DEF RowSound, ResultStates, LeasedStates
  <1> QED
    BY <1>5, <1>6, <1>7, <1>8 DEF Entitled, ResultSound, Logs

\* Final jobs pass the checker wherever the invariant holds.
LEMMA FinalChecked == LedgerInv => FinalJobsPassCheck
  <1>1. ASSUME LedgerInv, NEW j \in Job, jobs[j].state \in FinalStates
        PROVE  OneResult(j) /\ NoStaleWrite(j) /\ Accounting(j)
    <2>1. OneResult(j)
      BY <1>1 DEF LedgerInv, IndInv, OneResultPerJob
    <2>2. NoStaleWrite(j)
      BY <1>1, ResultsEntitled, NeverOverlap DEF NoStaleWrite
    <2> QED
      BY <1>1, <2>1, <2>2, FinalAccounting
  <1> QED
    BY <1>1 DEF FinalJobsPassCheck, CheckJobs

\* The fleet's own checker (invariants.py, check) passes every final job, in
\* every run, whatever drops, dies or commits late.
THEOREM CheckerAlwaysPasses == Spec => []FinalJobsPassCheck
  BY FinalChecked, LedgerInductive, PTL

-----------------------------------------------------------------------------
(* The refinement.  Only an install changes the rows the queue is seen in. *)

LEMMA CommitOrNothing ==
    ASSUME [Next]_vars
    PROVE  UNCHANGED <<jobs, results>> \/ \E t \in open : Install(t)
  <1>1. ASSUME NEW w \in Worker, WorkerStep(w)
        PROVE  UNCHANGED <<jobs, results>> \/ \E t \in open : Install(t)
    BY <1>1 DEF WorkerStep, BeginStep, Reap, Claim, Start, Heartbeat, RunEnds,
       RecordExecution, Publish, JobStatus, AskToEnd, EndWaited, EndAttempt, EarlierAsk,
       Commit, Begin, storeVars
  <1>2. ASSUME NEW w \in Worker, Fault(w) PROVE UNCHANGED <<jobs, results>>
    BY <1>2 DEF Fault, Drop, Crash, Restart, storeVars
  <1>3. ASSUME NEW t \in open, LateCommit(t) \/ Rollback(t)
        PROVE  UNCHANGED <<jobs, results>> \/ Install(t)
    BY <1>3 DEF LateCommit, Rollback
  <1>4. ASSUME NEW j \in Cancellable, Cancel(j) PROVE UNCHANGED <<jobs, results>>
    BY <1>4 DEF Cancel, Begin
  <1>5. Tick \/ UNCHANGED vars => UNCHANGED <<jobs, results>>
    BY DEF Tick, vars, storeVars
  <1> QED
    BY <1>1, <1>2, <1>3, <1>4, <1>5 DEF Next

\* A committed row as the queue sees it.
StatusOf(row) == IF row.state \in LeasedStates THEN "held" ELSE row.state
WantedOf(row) == row.cancel_requested_at # Null
AnswersOf(rs) == {[job |-> r.job_id, try |-> r.attempt, outcome |-> r.outcome] : r \in rs}

\* A reap or a release gives back every job whose row it wrote.
LEMMA GiveBackRefines ==
    ASSUME NEW S \in SUBSET Job,
           \A j \in Job \ S : jobs'[j] = jobs[j],
           \A j \in S : GivesBack(j, jobs[j], jobs'[j]),
           results' = results
    PROVE  Queue!GiveBack(S)
  <1>1. ASSUME NEW j \in S
        PROVE  /\ StatusOf(jobs[j]) = "held"
               /\ StatusOf(jobs'[j]) = IF WantedOf(jobs[j]) THEN "cancelled"
                                       ELSE IF jobs[j].attempt < MaxAttempts[j]
                                            THEN "queued" ELSE "dead_lettered"
               /\ jobs'[j].attempt = jobs[j].attempt
               /\ WantedOf(jobs'[j]) = WantedOf(jobs[j])
    BY <1>1 DEF GivesBack, StatusOf, WantedOf, LeasedStates
  <1> QED
    BY <1>1 DEF Queue!GiveBack, Queue!Leftover, StatusOf, WantedOf

\* The other commits move one row, and leave the others as they were: a claim
\* takes it from the queue,
LEMMA TakeRefines ==
    ASSUME NEW j \in Job, \A i \in Job \ {j} : jobs'[i] = jobs[i],
           RowSound(j, jobs[j]), Takes(jobs[j], jobs'[j]), results' = results
    PROVE  Queue!Take(j)
  <1>1. jobs[j].attempt < MaxAttempts[j]
    BY DEF Takes, RowSound
  <1>2. /\ StatusOf(jobs[j]) = "queued" /\ StatusOf(jobs'[j]) = "held"
        /\ jobs'[j].attempt = jobs[j].attempt + 1
        /\ WantedOf(jobs'[j]) = WantedOf(jobs[j])
    BY DEF Takes, LeasedStates, StatusOf, WantedOf
  <1> QED
    BY <1>1, <1>2 DEF Queue!Take, StatusOf, WantedOf

\* a start or a heartbeat keeps it held,
LEMMA KeepRefines ==
    ASSUME NEW j \in Job, \A i \in Job \ {j} : jobs'[i] = jobs[i],
           Keeps(jobs[j], jobs'[j]), results' = results
    PROVE  UNCHANGED Queue!queueVars
  <1>1. /\ StatusOf(jobs'[j]) = StatusOf(jobs[j])
        /\ jobs'[j].attempt = jobs[j].attempt
        /\ WantedOf(jobs'[j]) = WantedOf(jobs[j])
    BY DEF Keeps, StatusOf, WantedOf
  <1> QED
    BY <1>1 DEF Queue!queueVars, StatusOf, WantedOf

\* a cancel asks for its end,
LEMMA AskCancelRefines ==
    ASSUME NEW j \in Job, \A i \in Job \ {j} : jobs'[i] = jobs[i],
           AsksCancel(jobs[j], jobs'[j]), results' = results
    PROVE  Queue!AskCancel(j)
  <1>1. /\ StatusOf(jobs[j]) \in {"queued", "held"}
        /\ StatusOf(jobs'[j]) = IF StatusOf(jobs[j]) = "queued" THEN "cancelled" ELSE "held"
        /\ jobs'[j].attempt = jobs[j].attempt
        /\ WantedOf(jobs'[j])
    BY DEF AsksCancel, Unfinished, LeasedStates, StatusOf, WantedOf
  <1> QED
    BY <1>1 DEF Queue!AskCancel, StatusOf, WantedOf

\* and a publish ends it with the outcome of the one result it stores.
LEMMA FinishRefines ==
    ASSUME NEW j \in Job, \A i \in Job \ {j} : jobs'[i] = jobs[i],
           Finishes(jobs[j], jobs'[j]), NEW outcome, jobs'[j].state = outcome,
           NEW r, results' = results \union {r}, r.job_id = j,
           r.attempt = jobs'[j].attempt, r.outcome = outcome
    PROVE  Queue!Finish(j, outcome)
  <1>1. /\ StatusOf(jobs[j]) = "held" /\ StatusOf(jobs'[j]) = outcome
        /\ jobs'[j].attempt = jobs[j].attempt
        /\ ~WantedOf(jobs[j]) /\ ~WantedOf(jobs'[j])
    BY OutcomeAssumption DEF Finishes, LeasedStates, StatusOf, WantedOf
  <1>2. AnswersOf(results') = AnswersOf(results)
          \union {[job |-> j, try |-> jobs[j].attempt, outcome |-> outcome]}
    BY <1>1 DEF AnswersOf
  <1> QED
    BY <1>1, <1>2 DEF Queue!Finish, AnswersOf, StatusOf, WantedOf

LEMMA InstallRefines ==
    ASSUME Stored, Books, NEW t \in open, Install(t)
    PROVE  [Queue!Next]_(Queue!queueVars)
  <1>1. /\ \A j \in DOMAIN t.rows : j \in Job /\ jobs[j] \in JobRow
        /\ Moves(t)
    BY OpenFacts DEF Booked
  <1>2. /\ \A j \in DOMAIN t.rows : jobs'[j] = t.rows[j]
        /\ \A j \in Job \ DOMAIN t.rows : jobs'[j] = jobs[j]
        /\ results' = results \union t.stored
    BY <1>1 DEF Install
  <1>3. CASE /\ \A j \in DOMAIN t.rows : GivesBack(j, jobs[j], t.rows[j])
             /\ t.stored = {}
    <2>1. Queue!GiveBack(DOMAIN t.rows)
      BY <1>1, <1>2, <1>3, GiveBackRefines
    <2> QED
      BY <1>1, <2>1 DEF Queue!Next
  <1>4. ASSUME NEW j \in Job, DOMAIN t.rows = {j}, t.stored = {},
               \/ Takes(jobs[j], t.rows[j]) \/ Keeps(jobs[j], t.rows[j])
               \/ AsksCancel(jobs[j], t.rows[j])
        PROVE  [Queue!Next]_(Queue!queueVars)
    <2>1. jobs[j] \in JobRow /\ RowSound(j, jobs[j]) /\ jobs'[j] = t.rows[j]
          /\ (\A i \in Job \ {j} : jobs'[i] = jobs[i]) /\ results' = results
      BY <1>1, <1>2, <1>4 DEF Stored, CommittedSound
    <2>2. Queue!Take(j) \/ Queue!AskCancel(j) \/ UNCHANGED Queue!queueVars
      BY <1>4, <2>1, TakeRefines, KeepRefines, AskCancelRefines
    <2> QED
      BY <2>2 DEF Queue!Next
  <1>5. ASSUME NEW j \in Job, DOMAIN t.rows = {j}, Finishes(jobs[j], t.rows[j]),
               NEW r \in t.stored, t.stored = {r}, r.job_id = j,
               r.attempt = t.rows[j].attempt, r.outcome = t.rows[j].state
        PROVE  [Queue!Next]_(Queue!queueVars)
    <2>1. jobs[j] \in JobRow /\ RowSound(j, jobs[j]) /\ jobs'[j] = t.rows[j]
          /\ (\A i \in Job \ {j} : jobs'[i] = jobs[i]) /\ results' = results \union {r}
      BY <1>1, <1>2, <1>5 DEF Stored, CommittedSound
    <2>2. Queue!Finish(j, r.outcome) /\ r.outcome \in Outcomes
      BY <1>5, <2>1, FinishRefines DEF Finishes
    <2> QED
      BY <2>2 DEF Queue!Next
  <1> QED
    BY <1>1, <1>3, <1>4, <1>5 DEF Moves

\* The fleet implements the queue, for any number of jobs, workers and tries:
\* each commit of a claim, a publish, a release, a reap or a cancel (store.py)
\* is one step of it or none, and no other step is.
THEOREM QueueImplemented == Spec => ImplementsQueue
  <1>1. Init => Queue!Init
    <2> SUFFICES ASSUME Init PROVE Queue!Init
      OBVIOUS
    <2>1. /\ results = {}
          /\ \A j \in Job : /\ jobs[j].state = "queued" /\ jobs[j].attempt = 0
                            /\ jobs[j].cancel_requested_at = Null
      BY DEF Init, StoreInit
    <2> QED
      BY <2>1 DEF Queue!Init, LeasedStates
  <1>2. LedgerInv /\ [Next]_vars => [Queue!Next]_(Queue!queueVars)
    <2> SUFFICES ASSUME LedgerInv, [Next]_vars PROVE [Queue!Next]_(Queue!queueVars)
      OBVIOUS
    <2>1. Stored /\ Books
      BY WholeSplit DEF Whole
    <2>2. CASE UNCHANGED <<jobs, results>>
      BY <2>2 DEF Queue!queueVars
    <2>3. ASSUME NEW t \in open, Install(t) PROVE [Queue!Next]_(Queue!queueVars)
      BY <2>1, <2>3, InstallRefines
    <2> QED
      BY <2>2, <2>3, CommitOrNothing
  <1> QED
    BY <1>1, <1>2, LedgerInductive, PTL DEF Spec, ImplementsQueue, Queue!Spec

=============================================================================
