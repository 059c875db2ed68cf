----------------------------- MODULE ChaosProofs -----------------------------
(***************************************************************************)
(* Proofs about the fault injection harness and its fleet: whatever the    *)
(* scenario and wherever its faults land, the fleet's own invariant holds, *)
(* and every fault leaves its effects.                                     *)
(***************************************************************************)
EXTENDS ChaosInvariant, FleetProofs

-----------------------------------------------------------------------------
(* The fleet's invariant, under the harness's faults.                      *)

\* What every step keeps: the fleet's invariant, and its history.
Kept == LedgerInv' /\ Onward

LEMMA KeptByParts ==
    ASSUME Stored', Manned', Books', Desks', Onward
    PROVE  Kept
  BY WholePrimed DEF Kept

LEMMA FleetKeeps ==
    ASSUME LedgerInv, [Next]_vars
    PROVE  Kept
  BY NextBooked DEF Kept

\* A worker starts a call again from its wait.
LEMMA LeavesWaitKept ==
    ASSUME LedgerInv, NEW w \in Worker, At(w, "running"), Go(w, "heartbeat"),
           UNCHANGED storeVars
    PROVE  Kept
  <1>1. Whole
    BY WholeSplit
  <1>2. Stored' /\ Free(w)
    BY <1>1, SameStored DEF Whole, At, Free
  <1>3. Manned'
    BY <1>1, GoManned DEF Whole, At, PC, Calls, HoldsJob
  <1>4. Books' /\ Desks' /\ Onward
    BY <1>1, <1>2, QuietGo DEF At, HoldsJob
  <1> QED
    BY <1>2, <1>3, <1>4, KeptByParts

\* A session ends without its commit, its owner waiting on.
LEMMA DroppedKept ==
    ASSUME LedgerInv, open' \subseteq open,
           UNCHANGED <<clock, jobs, attempts, results, workers>>
    PROVE  Kept
  <1>1. Whole
    BY WholeSplit
  <1>2. Stored'
    BY <1>1, FewerOpenStored DEF Whole, Stored, LocksExclude
  <1>3. Manned'
    BY <1>1 DEF Whole, Manned, WorkersSound, WorkerSound
  <1>4. Books' /\ Onward
    BY <1>1, FewerOpenBooks DEF Whole
  <1>5. Written' \subseteq Written /\ clock <= clock'
    BY <1>1, ClockKept DEF Written, Whole
  <1>6. Desks'
    BY <1>1, <1>2, <1>4, <1>5, ElsewhereBooked
  <1> QED
    BY <1>2, <1>3, <1>4, <1>6, KeptByParts

\* A commit lands, and its worker never hears of it.
LEMMA UnansweredKept ==
    ASSUME LedgerInv, NEW t \in open, Install(t), UNCHANGED workers
    PROVE  Kept
  <1>1. Whole
    BY WholeSplit
  <1>2. Stored'
    BY <1>1, InstallStored DEF Whole
  <1>3. Manned'
    BY <1>1 DEF Whole, Manned, WorkersSound, WorkerSound
  <1>4. Books' /\ Onward
    BY <1>1, InstallBooks DEF Whole
  <1>5. open' \subseteq open /\ Written' \subseteq Written /\ clock <= clock'
    BY <1>1, ClockKept, InstallWritten DEF Whole, Install
  <1>6. Desks'
    BY <1>1, <1>2, <1>4, <1>5, ElsewhereBooked
  <1> QED
    BY <1>2, <1>3, <1>4, <1>6, KeptByParts

\* A commit lands, and its worker dies.
LEMMA CommittedKilledKept ==
    ASSUME LedgerInv, NEW w \in Worker, NEW t \in open, t.owner = w, Install(t),
           workers' = [workers EXCEPT ![w] = Fresh("down")]
    PROVE  Kept
  <1>1. Whole
    BY WholeSplit
  <1>2. Stored'
    BY <1>1, InstallStored DEF Whole
  <1>3. Fresh("down") \in WorkerState
    BY DEF Fresh, WorkerState, PC, Calls, Reports
  <1>4. Fresh("down").pc = "down"
    BY DEF Fresh
  <1>5. Manned'
    BY <1>1, <1>3, <1>4, OneManned DEF Whole, HoldsJob
  <1>6. /\ workers'[w].job = Null /\ workers'[w].asked = Null /\ workers'[w].report = "none"
        /\ \A v \in Worker \ {w} : workers'[v] = workers[v]
    BY <1>1 DEF Whole, Manned, Fresh
  <1>7. Books' /\ Desks' /\ Onward
    BY <1>1, <1>2, <1>6, EmptyDesk, InstallStep
  <1> QED
    BY <1>2, <1>5, <1>7, KeptByParts

\* A good transaction commits as it begins, nobody awaiting it.
LEMMA LandedKept ==
    ASSUME LedgerInv, NEW t, Good(t), Booked(t), t.stored = {}, Lands(t),
           \A j \in DOMAIN t.rows : Unlocked(j), UNCHANGED <<open, workers>>
    PROVE  Kept
  <1>1. Whole
    BY WholeSplit
  <1>2. LeavesApart(t)
    BY DEF LeavesApart, Unlocked
  <1>3. Stored'
    BY <1>1, <1>2, LandStored DEF Whole
  <1>4. Manned'
    BY <1>1 DEF Whole, Manned, WorkersSound, WorkerSound
  <1>5. Books' /\ Onward
    BY <1>1, <1>2, LandBooks DEF Whole
  <1>6. Written' \subseteq Written /\ clock <= clock'
    BY <1>1, ClockKept DEF Written, Whole, Lands
  <1>7. Desks'
    BY <1>1, <1>3, <1>5, <1>6, ElsewhereBooked
  <1> QED
    BY <1>3, <1>4, <1>5, <1>7, KeptByParts

\* The harness cancels a running job.
LEMMA DriveCancelKept ==
    ASSUME LedgerInv, NEW j \in Job, DriveCancel(j)
    PROVE  Kept
  <1>1. Rows /\ RecordsSound /\ clock \in Nat
    BY WholeSplit DEF Whole, Books, Stored, Rows, StoreTypeOK
  <1> DEFINE t == CancelTxn(j, clock)
  <1>2. jobs[j].state \in Unfinished /\ Unlocked(j)
    BY DEF DriveCancel, Unfinished, LeasedStates
  <1>3. Good(t) /\ DOMAIN t.rows = {j} /\ Booked(t)
    BY <1>1, <1>2, CancelTxnGood, CancelTxnBooked
  <1>4. /\ t.rows = One(j, CancelAsked(jobs[j], clock)) /\ t.logs = NoRows /\ t.stored = {}
    BY DEF CancelTxn, Txn
  <1> HIDE DEF t
  <1>5. Lands(t)
    <2>1. jobs \in [Job -> JobRow] /\ attempts \in [Job \X AttemptNo -> AttemptRow]
      BY <1>1 DEF Rows, StoreTypeOK
    <2>2. jobs' = [i \in Job |-> IF i \in DOMAIN t.rows THEN t.rows[i] ELSE jobs[i]]
      BY <1>3, <1>4, <2>1 DEF DriveCancel, One
    <2>3. DOMAIN t.logs = {}
      BY <1>4 DEF NoRows
    <2>4. attempts = [k \in Job \X AttemptNo |-> attempts[k]]
      BY <2>1
    <2>5. attempts' = [k \in Job \X AttemptNo |->
                         IF k \in DOMAIN t.logs THEN t.logs[k] ELSE attempts[k]]
      BY <2>3, <2>4 DEF DriveCancel
    <2> QED
      BY <1>4, <2>2, <2>5 DEF Lands, DriveCancel
  <1> QED
    BY <1>2, <1>3, <1>4, <1>5, LandedKept DEF DriveCancel

\* The harness claims a job as a worker that never was.
GhostClaim(j) ==
    Txn(NoWorker,
        One(j, [Claimed(jobs[j], clock) EXCEPT !.lease_expires_at = clock + GHOST_LEASE]),
        One(<<j, jobs[j].attempt + 1>>,
            [Opened(Ghost, clock) EXCEPT !.lease_expires_at = clock + GHOST_LEASE]), {})

\* The row and the attempt of a ghost's claim.
LEMMA GhostClaimFields ==
    ASSUME Rows, NEW j \in Job, jobs[j].state = "queued"
    PROVE  LET row == [Claimed(jobs[j], clock) EXCEPT
                          !.lease_expires_at = clock + GHOST_LEASE]
               log == [Opened(Ghost, clock) EXCEPT !.lease_expires_at = clock + GHOST_LEASE]
           IN  /\ clock \in Nat /\ clock + GHOST_LEASE \in Nat
               /\ row \in JobRow /\ RowSound(j, row)
               /\ row.state = "claimed" /\ row.attempt = jobs[j].attempt + 1
               /\ row.attempt \in AttemptNo
               /\ row.cancel_requested_at = jobs[j].cancel_requested_at
               /\ row.lease_expires_at = clock + GHOST_LEASE
               /\ log \in AttemptRow
               /\ log.worker_id = Ghost /\ log.claimed_at = clock
               /\ log.lease_expires_at = clock + GHOST_LEASE
               /\ log.ended_at = Null /\ log.ended_by = NotEnded
  <1> DEFINE was == Claimed(jobs[j], clock)
             row == [was EXCEPT !.lease_expires_at = clock + GHOST_LEASE]
             old == Opened(Ghost, clock)
             log == [old EXCEPT !.lease_expires_at = clock + GHOST_LEASE]
  <1>1. jobs[j] \in JobRow /\ RowSound(j, jobs[j]) /\ clock \in Nat
    BY DEF Rows, StoreTypeOK, CommittedSound
  <1>2. clock + GHOST_LEASE \in Nat
    BY <1>1, PlanAssumption
  <1>3. /\ was \in JobRow /\ RowSound(j, was)
        /\ was.state = "claimed" /\ was.attempt = jobs[j].attempt + 1
        /\ was.attempt \in AttemptNo
    BY <1>1, ClaimedSound
  <1>4. was.cancel_requested_at = jobs[j].cancel_requested_at
    BY <1>1 DEF Claimed, JobRow
  <1>5. /\ old \in AttemptRow
        /\ old.worker_id = Ghost /\ old.claimed_at = clock
        /\ old.ended_at = Null /\ old.ended_by = NotEnded
    BY <1>1, GhostAssumption, OpenedType DEF Opened, NoAttempt
  <1> HIDE DEF was, old
  <1>6. /\ row \in JobRow /\ row.state = was.state /\ row.attempt = was.attempt
        /\ row.cancel_requested_at = was.cancel_requested_at
        /\ row.result_id = was.result_id
        /\ row.lease_expires_at = clock + GHOST_LEASE
    BY <1>2, <1>3 DEF JobRow
  <1>7. RowSound(j, row)
    <2> HIDE DEF row
    <2> QED
      BY <1>2, <1>3, <1>6, NullFacts DEF RowSound, JobChecks, LeasedStates, ResultStates
  <1>8. /\ log \in AttemptRow
        /\ log.worker_id = Ghost /\ log.claimed_at = clock
        /\ log.lease_expires_at = clock + GHOST_LEASE
        /\ log.ended_at = Null /\ log.ended_by = NotEnded
    BY <1>2, <1>5, LogTypes DEF AttemptRow
  <1> QED
    BY <1>1, <1>2, <1>3, <1>4, <1>6, <1>7, <1>8 DEF was, old

LEMMA GhostClaimGood ==
    ASSUME Rows, NEW j \in Job, jobs[j].state = "queued"
    PROVE  Good(GhostClaim(j)) /\ DOMAIN GhostClaim(j).rows = {j}
  <1> DEFINE row == [Claimed(jobs[j], clock) EXCEPT !.lease_expires_at = clock + GHOST_LEASE]
             log == [Opened(Ghost, clock) EXCEPT !.lease_expires_at = clock + GHOST_LEASE]
             entries == One(<<j, jobs[j].attempt + 1>>, log)
  <1>1. /\ row \in JobRow /\ RowSound(j, row) /\ row.state = "claimed"
        /\ row.attempt \in AttemptNo /\ jobs[j].attempt + 1 \in AttemptNo
        /\ log \in AttemptRow
    BY GhostClaimFields
  <1>2. jobs[j].state \in Unfinished /\ row.state \notin ResultStates
    BY <1>1 DEF Unfinished, ResultStates
  <1>3. DOMAIN entries \subseteq Job \X AttemptNo /\ \A k \in DOMAIN entries : entries[k] \in AttemptRow
    BY <1>1 DEF One
  <1> HIDE DEF row, entries
  <1>4. /\ Good(Txn(NoWorker, One(j, row), entries, {}))
        /\ DOMAIN Txn(NoWorker, One(j, row), entries, {}).rows = {j}
    BY <1>1, <1>2, <1>3, OneRowGood
  <1> QED
    BY <1>4 DEF GhostClaim, row, entries

LEMMA GhostClaimBooked ==
    ASSUME Rows, RecordsSound, NEW j \in Job, jobs[j].state = "queued"
    PROVE  Booked(GhostClaim(j))
  <1> DEFINE row == jobs[j]
             new == [Claimed(jobs[j], clock) EXCEPT !.lease_expires_at = clock + GHOST_LEASE]
             log == [Opened(Ghost, clock) EXCEPT !.lease_expires_at = clock + GHOST_LEASE]
             k   == <<j, row.attempt + 1>>
             t   == GhostClaim(j)
  <1>1. row \in JobRow /\ clock \in Nat
    BY DEF Rows, StoreTypeOK
  <1>2. /\ new.state = "claimed" /\ new.attempt = row.attempt + 1
        /\ new.attempt \in AttemptNo
        /\ new.cancel_requested_at = row.cancel_requested_at
        /\ new.lease_expires_at = clock + GHOST_LEASE
        /\ clock + GHOST_LEASE \in Nat
        /\ log.worker_id = Ghost /\ log.claimed_at = clock
        /\ log.lease_expires_at = clock + GHOST_LEASE
        /\ log.ended_at = Null /\ log.ended_by = NotEnded
    BY GhostClaimFields
  <1>3. /\ t.rows = One(j, new) /\ t.logs = One(k, log) /\ t.stored = {}
    BY DEF GhostClaim, Txn
  <1>4. /\ DOMAIN t.rows = {j} /\ t.rows[j] = new
        /\ DOMAIN t.logs = {k} /\ t.logs[k] = log
    BY <1>3 DEF One
  <1>5. LedgerSound(row, Logs(j), clock)
    BY DEF RecordsSound
  <1>6. row.attempt \in 0 .. MaxBudget /\ row.attempt \in Nat /\ new.attempt > row.attempt
    BY <1>1, <1>2, BudgetAssumption DEF JobRow
  <1>7. attempts[k] = NoAttempt
    <2>1. Logs(j)[new.attempt] = attempts[<<j, new.attempt>>]
      BY <1>2 DEF Logs
    <2>2. Logs(j)[new.attempt] = NoAttempt
      BY <1>2, <1>5, <1>6 DEF LedgerSound
    <2> QED
      BY <1>2, <2>1, <2>2
  <1> HIDE DEF new, log, t
  <1>8. Moves(t)
    BY <1>2, <1>3, <1>4 DEF Moves, Takes, LeasedStates
  <1>9. WritesLatest(t)
    BY <1>2, <1>4, <1>7, NoAttemptFields DEF WritesLatest
  <1>10. LedgerSound(new, LogsAfter(t, j), clock)
    <2> DEFINE next == LogsAfter(t, j)
    <2>1. \A a \in AttemptNo : a # new.attempt => next[a] = Logs(j)[a]
      BY <1>2, <1>4 DEF LogsAfter, Logs
    <2>2. next[new.attempt] = log
      BY <1>2, <1>4 DEF LogsAfter
    <2>3. LogSound(log, clock)
      BY <1>1, <1>2, NullFacts DEF LogSound, AttemptChecks
    <2>4. LatestSound(new, log)
      BY <1>2 DEF LatestSound, LeasedStates, ResultStates
    <2> HIDE DEF next
    <2>5. LedgerSound(new, next, clock)
      BY <1>1, <1>2, <1>5, <1>6, <2>1, <2>2, <2>3, <2>4, LedgerClaimed
    <2> QED
      BY <2>5 DEF next
  <1>11. EndSound(j, new)
    BY <1>2 DEF EndSound, ResultStates
  <1>12. LeavesRecords(t)
    BY <1>3, <1>4, <1>10, <1>11 DEF LeavesRecords
  <1> QED
    BY <1>8, <1>9, <1>12 DEF Booked, t

LEMMA DriveGhostKept ==
    ASSUME LedgerInv, DriveGhost
    PROVE  Kept
  <1>1. Rows /\ RecordsSound
    BY WholeSplit DEF Whole, Books, Stored, Rows
  <1>2. PICK j \in Job :
          /\ Unlocked(j) /\ Claimable(jobs[j], clock)
          /\ jobs' = [jobs EXCEPT ![j] = [Claimed(jobs[j], clock) EXCEPT
                                             !.lease_expires_at = clock + GHOST_LEASE]]
          /\ attempts' = [attempts EXCEPT ![<<j, jobs[j].attempt + 1>>] =
                            [Opened(Ghost, clock) EXCEPT
                                !.lease_expires_at = clock + GHOST_LEASE]]
    BY <1>1 DEF DriveGhost, Rows, StoreTypeOK
  <1>3. /\ UNCHANGED <<clock, results, open, workers>>
        /\ jobs[j].state = "queued"
    BY <1>2 DEF DriveGhost, Claimable
  <1> DEFINE t == GhostClaim(j)
  <1>4. Good(t) /\ DOMAIN t.rows = {j} /\ Booked(t)
    BY <1>1, <1>3, GhostClaimGood, GhostClaimBooked
  <1>5. /\ t.rows = One(j, [Claimed(jobs[j], clock) EXCEPT
                               !.lease_expires_at = clock + GHOST_LEASE])
        /\ t.logs = One(<<j, jobs[j].attempt + 1>>,
                        [Opened(Ghost, clock) EXCEPT !.lease_expires_at = clock + GHOST_LEASE])
        /\ t.stored = {}
    BY DEF GhostClaim, Txn
  <1> HIDE DEF t
  <1>6. Lands(t)
    <2>1. jobs \in [Job -> JobRow] /\ attempts \in [Job \X AttemptNo -> AttemptRow]
      BY <1>1 DEF Rows, StoreTypeOK
    <2>2. jobs' = [i \in Job |-> IF i \in DOMAIN t.rows THEN t.rows[i] ELSE jobs[i]]
      BY <1>2, <1>5, <2>1 DEF One
    <2>3. attempts' = [k \in Job \X AttemptNo |->
                         IF k \in DOMAIN t.logs THEN t.logs[k] ELSE attempts[k]]
      BY <1>2, <1>5, <2>1 DEF One
    <2> QED
      BY <1>3, <1>5, <2>2, <2>3 DEF Lands
  <1> QED
    BY <1>2, <1>3, <1>4, <1>5, <1>6, LandedKept

\* Every session goes, and every wait for a lock with it.
LEMMA AllAnewDesks ==
    ASSUME Whole, Stored', Onward, clock' = clock, open' = {}, Written' \subseteq Written,
           workers' = [w \in Worker |-> [workers[w] EXCEPT !.asked = Null]]
    PROVE  Manned' /\ Desks'
  <1>1. ASSUME NEW v \in Worker
        PROVE  /\ workers'[v] \in WorkerState
               /\ workers'[v].pc = workers[v].pc /\ workers'[v].job = workers[v].job
               /\ workers'[v].attempt = workers[v].attempt
               /\ workers'[v].result = workers[v].result
               /\ workers'[v].report = workers[v].report
               /\ workers'[v].asked = Null
    BY DEF Whole, Manned, WorkerState
  <1>2. Manned'
    <2>1. ASSUME NEW v \in Worker PROVE WorkerSound(v)'
      BY <1>1 DEF Whole, Manned, WorkersSound, WorkerSound
    <2> QED
      BY <1>1, <2>1 DEF Manned, WorkersSound
  <1>3. CallsSound'
    BY DEF CallsSound
  <1>4. clock \in Nat /\ clock <= clock'
    BY ClockKept DEF Whole, Stored, StoreTypeOK
  <1>5. ASSUME NEW v \in Worker PROVE WorkerLedger(v)' /\ ReportTrue(v)'
    <2>1. /\ WorkerLedger(v) /\ ReportTrue(v)
          /\ workers[v].pc \in HoldsJob => workers[v].report = "none"
      BY AtDesk
    <2>2. Mine(v)' \subseteq Mine(v)
      BY <1>1 DEF Mine, JobOf, AttemptOf
    <2>3. JobOf(v) \in Job /\ workers'[v].pc # "publish" /\ workers[v].report # "published"
             => Mine(v)' = {}
      BY <1>1, <2>1, <2>2 DEF WorkerLedger, Mine
    <2>4. JobOf(v) \in Job /\ workers'[v].pc = "publish"
             => \A r \in Mine(v)' : r.outcome = workers'[v].result
      BY <1>1, <2>1, <2>2 DEF WorkerLedger, Mine
    <2>5. workers'[v].asked <= clock'
      BY <1>1, <1>4, NullFacts
    <2> QED
      BY <1>1, <2>1, <2>3, <2>4, <2>5, DeskMoved DEF Whole, Books
  <1> QED
    BY <1>2, <1>3, <1>4, <1>5, DesksKept DEF Whole, Books

LEMMA DriveRestartKept ==
    ASSUME LedgerInv, DriveRestart
    PROVE  Kept
  <1>1. Whole
    BY WholeSplit
  <1>2. /\ open' = {} /\ clock' = clock
        /\ workers' = [w \in Worker |-> [workers[w] EXCEPT !.asked = Null]]
    BY DEF DriveRestart
  <1>3. CASE UNCHANGED <<clock, jobs, attempts, results>>
    <2>1. Stored' /\ Books' /\ Onward
      BY <1>1, <1>2, <1>3, FewerOpenStored, FewerOpenBooks DEF Whole
    <2>2. Written' \subseteq Written
      BY <1>2, <1>3 DEF Written
    <2> QED
      BY <1>1, <1>2, <2>1, <2>2, AllAnewDesks, KeptByParts
  <1>4. ASSUME NEW t \in open, Lands(t) PROVE Kept
    <2>1. Good(t) /\ Booked(t) /\ LeavesApart(t)
      BY <1>1, <1>2, OpenFacts DEF Whole, Good, LeavesApart
    <2>2. Stored' /\ Books' /\ Onward
      BY <1>1, <1>4, <2>1, LandStored, LandBooks DEF Whole
    <2>3. Written' \subseteq Written
      BY <1>2, <1>4 DEF Written, Lands
    <2> QED
      BY <1>1, <1>2, <2>2, <2>3, AllAnewDesks, KeptByParts
  <1> QED
    BY <1>3, <1>4 DEF DriveRestart, Lands

LEMMA FireBeforeKept ==
    ASSUME LedgerInv, NEW w \in Worker, FireBefore(w)
    PROVE  Kept
  <1>1. workers \in [Worker -> WorkerState]
    BY WholeSplit DEF Whole, Manned
  <1>2. CASE Crash(w)
    BY <1>2, FleetKeeps DEF Next, Fault
  <1>3. CASE workers[w].pc = "running" /\ Go(w, "heartbeat") /\ UNCHANGED storeVars
    BY <1>3, LeavesWaitKept DEF FireBefore, AtBefore
  <1>4. CASE Go(w, workers[w].pc) /\ UNCHANGED storeVars
    <2>1. UNCHANGED vars
      BY <1>1, <1>4 DEF Go, vars, WorkerState
    <2> QED
      BY <2>1, FleetKeeps
  <1> QED
    BY <1>2, <1>3, <1>4 DEF FireBefore

LEMMA FireBeforeCommitKept ==
    ASSUME LedgerInv, NEW w \in Worker, NEW t \in open, FireBeforeCommit(w, t)
    PROVE  Kept
  <1>1. CASE Crash(w)
    BY <1>1, FleetKeeps DEF Next, Fault
  <1>2. CASE open' = open \ {t} /\ UNCHANGED <<clock, jobs, attempts, results, workers>>
    BY <1>2, DroppedKept
  <1>3. CASE UNCHANGED vars
    BY <1>3, FleetKeeps
  <1> QED
    BY <1>1, <1>2, <1>3 DEF FireBeforeCommit

LEMMA FireAfterCommitKept ==
    ASSUME LedgerInv, NEW w \in Worker, NEW t \in open, FireAfterCommit(w, t)
    PROVE  Kept
  BY UnansweredKept, CommittedKilledKept DEF FireAfterCommit, AtCommit

LEMMA ReplaceKept ==
    ASSUME LedgerInv, HarnessSound, ReplaceTheDead
    PROVE  Kept
  <1>1. PICK w \in Worker \ (started \union {Ghost}) : Go(w, "step")
    BY DEF ReplaceTheDead
  <1>2. workers[w].pc = "down"
    BY <1>1 DEF HarnessSound, WorkerRecorded, Fresh
  <1>3. Restart(w)
    BY <1>1, <1>2 DEF Restart, ReplaceTheDead
  <1> QED
    BY <1>3, FleetKeeps DEF Next, Fault

\* Whatever the harness does, the fleet's invariant is kept, and its history.
LEMMA ChaosKept ==
    ASSUME LedgerInv, HarnessSound, [ChaosNext]_chaosVars
    PROVE  Kept
  <1>1. ASSUME NEW w \in Worker, Work(w) PROVE Kept
    BY <1>1, FleetKeeps DEF Work, Next
  <1>2. ASSUME NEW w \in Worker, FireBefore(w) PROVE Kept
    BY <1>2, FireBeforeKept
  <1>3. ASSUME NEW w \in Worker, Wake(w) PROVE Kept
    BY <1>3, FleetKeeps DEF Wake
  <1>4. ASSUME NEW w \in Worker, NEW t \in open, FireBeforeCommit(w, t) PROVE Kept
    BY <1>4, FireBeforeCommitKept
  <1>5. ASSUME NEW w \in Worker, NEW t \in open, FireAfterCommit(w, t) PROVE Kept
    BY <1>5, FireAfterCommitKept
  <1>6. ASSUME NEW w \in Worker, NEW t \in open, IdleOut(w, t) PROVE Kept
    BY <1>6, DroppedKept DEF IdleOut
  <1>7. ASSUME NEW t \in open, Rollback(t) PROVE Kept
    BY <1>7, FleetKeeps DEF Next
  <1>8. CASE ReplaceTheDead
    BY <1>8, ReplaceKept
  <1>9. CASE DriveGhost
    BY <1>9, DriveGhostKept
  <1>10. CASE DriveRestart
    BY <1>10, DriveRestartKept
  <1>11. CASE StopAll
    BY <1>11, FleetKeeps DEF StopAll
  <1>12. CASE ChaosTick
    BY <1>12, FleetKeeps DEF ChaosTick, Next
  <1>13. ASSUME NEW j \in Job, DriveCancel(j) PROVE Kept
    BY <1>13, DriveCancelKept
  <1>14. CASE UNCHANGED chaosVars
    BY <1>14, FleetKeeps DEF chaosVars
  <1> QED
    BY <1>1, <1>2, <1>3, <1>4, <1>5, <1>6, <1>7, <1>8, <1>9, <1>10, <1>11, <1>12,
       <1>13, <1>14 DEF ChaosNext

-----------------------------------------------------------------------------
(* The scenarios.                                                          *)

\* What a scenario's effects say of where its fault lands, and how.
ScenarioSound(s) ==
    /\ s.hits \subseteq Nat
    /\ s.action \in {"kill", "drop", "stop", "hang", "restart"}
    /\ s.action = "restart" => s.point = <<"postgres", "restart">>
    /\ s.point[1] \in {"claim", "start", "heartbeat", "publish", "release", "reap",
                       "cancel", "postgres"}
    /\ s.workload = "ghost" =>
         s.point = <<"reap", "before_commit">> /\ s.action = "kill"
    /\ s.workload = "cancel" =>
         s.point = <<"cancel", "before_commit">> /\ s.action = "kill"
    /\ s.effects \subseteq {"died", "survived", "claim_undone", "retried", "cancelled",
                           "same_attempt", "stands", "counted", "fenced", "refused",
                           "unblocked", "reaped_once", "all_survived"}
    /\ s.action = "stop" => "retried" \in s.effects
    /\ "died" \in s.effects => s.action = "kill"
    /\ "survived" \in s.effects => s.action = "drop"
    /\ "all_survived" \in s.effects => s.action = "restart"
    /\ "claim_undone" \in s.effects =>
         s.point = <<"claim", "before_commit">> /\ s.action = "kill"
    /\ "retried" \in s.effects =>
         /\ s.workload \in {"sleep", "long", "crash"}
         /\ s.action \in {"kill", "drop", "stop"}
         /\ \/ s.point = <<"claim", "after_commit">> /\ s.action \in {"kill", "drop"}
            \/ s.point \in {<<"start", "after_commit">>, <<"release", "before_commit">>}
               /\ s.action = "kill"
            \/ s.point \in {<<"heartbeat", "before">>, <<"publish", "before">>,
                            <<"publish", "before_commit">>}
               /\ s.action \in {"kill", "stop"} /\ s.workload \in {"sleep", "long"}
    /\ "cancelled" \in s.effects => s.workload = "cancel"
    /\ "same_attempt" \in s.effects =>
         /\ s.point \in {<<"heartbeat", "before">>, <<"publish", "before_commit">>}
         /\ s.action = "drop" /\ s.workload = "sleep"
    /\ "stands" \in s.effects =>
         s.point = <<"publish", "after_commit">> /\ s.action \in {"kill", "drop"}
    /\ "counted" \in s.effects =>
         s.point = <<"publish", "after_commit">> /\ s.action = "drop"
    /\ "fenced" \in s.effects =>
         /\ s.point = <<"heartbeat", "before">> /\ s.action = "stop"
         /\ s.workload = "sleep" /\ "retried" \in s.effects
    /\ "refused" \in s.effects =>
         /\ s.point = <<"publish", "before">> /\ s.action = "stop"
         /\ s.workload = "long" /\ "retried" \in s.effects
    /\ "unblocked" \in s.effects =>
         /\ s.point \in {<<"claim", "before_commit">>, <<"publish", "before_commit">>}
         /\ s.action = "hang"
    /\ "reaped_once" \in s.effects => s.workload = "ghost"

LEMMA PlainScenariosSound ==
    /\ ScenarioSound(SCENARIOS.claim_before_kill)
    /\ ScenarioSound(SCENARIOS.claim_before_commit_kill)
    /\ ScenarioSound(SCENARIOS.claim_before_commit_drop)
    /\ ScenarioSound(SCENARIOS.claim_before_commit_hang)
    /\ ScenarioSound(SCENARIOS.claim_after_commit_kill)
    /\ ScenarioSound(SCENARIOS.claim_after_commit_drop)
    /\ ScenarioSound(SCENARIOS.start_after_commit_kill)
    /\ ScenarioSound(SCENARIOS.heartbeat_before_kill)
    /\ ScenarioSound(SCENARIOS.heartbeat_before_stop)
    /\ ScenarioSound(SCENARIOS.heartbeat_before_drop)
    /\ ScenarioSound(SCENARIOS.publish_before_commit_kill)
    /\ ScenarioSound(SCENARIOS.publish_before_commit_stop)
    /\ ScenarioSound(SCENARIOS.publish_before_commit_hang)
    /\ ScenarioSound(SCENARIOS.publish_before_commit_drop)
    /\ ScenarioSound(SCENARIOS.publish_after_commit_kill)
    /\ ScenarioSound(SCENARIOS.publish_after_commit_drop)
  <1>1. ScenarioSound(SCENARIOS.claim_before_kill)
    BY DEF ScenarioSound, SCENARIOS, Scenario, Kill, Hang
  <1>2. ScenarioSound(SCENARIOS.claim_before_commit_kill)
    BY DEF ScenarioSound, SCENARIOS, Scenario, Kill, Hang
  <1>3. ScenarioSound(SCENARIOS.claim_before_commit_drop)
    BY DEF ScenarioSound, SCENARIOS, Scenario, Kill, Hang
  <1>4. ScenarioSound(SCENARIOS.claim_before_commit_hang)
    BY DEF ScenarioSound, SCENARIOS, Scenario, Kill, Hang
  <1>5. ScenarioSound(SCENARIOS.claim_after_commit_kill)
    BY DEF ScenarioSound, SCENARIOS, Scenario, Kill, Hang
  <1>6. ScenarioSound(SCENARIOS.claim_after_commit_drop)
    BY DEF ScenarioSound, SCENARIOS, Scenario, Kill, Hang
  <1>7. ScenarioSound(SCENARIOS.start_after_commit_kill)
    BY DEF ScenarioSound, SCENARIOS, Scenario, Kill, Hang
  <1>8. ScenarioSound(SCENARIOS.heartbeat_before_kill)
    BY DEF ScenarioSound, SCENARIOS, Scenario, Kill, Hang
  <1>9. ScenarioSound(SCENARIOS.heartbeat_before_stop)
    BY DEF ScenarioSound, SCENARIOS, Scenario, Kill, Hang
  <1>10. ScenarioSound(SCENARIOS.heartbeat_before_drop)
    BY DEF ScenarioSound, SCENARIOS, Scenario, Kill, Hang
  <1>11. ScenarioSound(SCENARIOS.publish_before_commit_kill)
    BY DEF ScenarioSound, SCENARIOS, Scenario, Kill, Hang
  <1>12. ScenarioSound(SCENARIOS.publish_before_commit_stop)
    BY DEF ScenarioSound, SCENARIOS, Scenario, Kill, Hang
  <1>13. ScenarioSound(SCENARIOS.publish_before_commit_hang)
    BY DEF ScenarioSound, SCENARIOS, Scenario, Kill, Hang
  <1>14. ScenarioSound(SCENARIOS.publish_before_commit_drop)
    BY DEF ScenarioSound, SCENARIOS, Scenario, Kill, Hang
  <1>15. ScenarioSound(SCENARIOS.publish_after_commit_kill)
    BY DEF ScenarioSound, SCENARIOS, Scenario, Kill, Hang
  <1>16. ScenarioSound(SCENARIOS.publish_after_commit_drop)
    BY DEF ScenarioSound, SCENARIOS, Scenario, Kill, Hang
  <1> QED
    BY <1>1, <1>2, <1>3, <1>4, <1>5, <1>6, <1>7, <1>8,
       <1>9, <1>10, <1>11, <1>12, <1>13, <1>14, <1>15, <1>16

LEMMA OtherScenariosSound ==
    /\ ScenarioSound(SCENARIOS.publish_before_stop)
    /\ ScenarioSound(SCENARIOS.release_before_commit_kill)
    /\ ScenarioSound(SCENARIOS.reap_before_commit_kill)
    /\ ScenarioSound(SCENARIOS.cancel_before_commit_kill)
    /\ ScenarioSound(SCENARIOS.postgres_restart)
  <1>1. ScenarioSound(SCENARIOS.publish_before_stop)
    <2> DEFINE s == SCENARIOS.publish_before_stop
    <2>1. /\ s.point = <<"publish", "before">> /\ s.action = "stop"
          /\ s.effects = {"retried", "refused"} /\ s.workload = "long" /\ s.hits = 1 .. 2
      BY DEF SCENARIOS, Scenario, Kill, Chore
    <2> HIDE DEF s
    <2>2. s.hits \subseteq Nat
      BY <2>1
    <2>3. ScenarioSound(s)
      BY <2>1, <2>2 DEF ScenarioSound
    <2> QED
      BY <2>3 DEF s
  <1>2. ScenarioSound(SCENARIOS.release_before_commit_kill)
    <2> DEFINE s == SCENARIOS.release_before_commit_kill
    <2>1. /\ s.point = <<"release", "before_commit">> /\ s.action = "kill"
          /\ s.effects = {"died", "retried"} /\ s.workload = "crash" /\ s.hits = 1 .. 2
      BY DEF SCENARIOS, Scenario, Kill, Chore
    <2> HIDE DEF s
    <2>2. s.hits \subseteq Nat
      BY <2>1
    <2>3. ScenarioSound(s)
      BY <2>1, <2>2 DEF ScenarioSound
    <2> QED
      BY <2>3 DEF s
  <1>3. ScenarioSound(SCENARIOS.reap_before_commit_kill)
    <2> DEFINE s == SCENARIOS.reap_before_commit_kill
    <2>1. /\ s.point = <<"reap", "before_commit">> /\ s.action = "kill"
          /\ s.effects = {"died", "reaped_once"} /\ s.workload = "ghost" /\ s.hits = {1}
      BY DEF SCENARIOS, Scenario, Kill, Chore
    <2> HIDE DEF s
    <2>2. s.hits \subseteq Nat
      BY <2>1
    <2>3. ScenarioSound(s)
      BY <2>1, <2>2 DEF ScenarioSound
    <2> QED
      BY <2>3 DEF s
  <1>4. ScenarioSound(SCENARIOS.cancel_before_commit_kill)
    <2> DEFINE s == SCENARIOS.cancel_before_commit_kill
    <2>1. /\ s.point = <<"cancel", "before_commit">> /\ s.action = "kill"
          /\ s.effects = {"died", "cancelled"} /\ s.workload = "cancel" /\ s.hits = {1}
      BY DEF SCENARIOS, Scenario, Kill, Chore
    <2> HIDE DEF s
    <2>2. s.hits \subseteq Nat
      BY <2>1
    <2>3. ScenarioSound(s)
      BY <2>1, <2>2 DEF ScenarioSound
    <2> QED
      BY <2>3 DEF s
  <1>5. ScenarioSound(SCENARIOS.postgres_restart)
    <2> DEFINE s == SCENARIOS.postgres_restart
    <2>1. /\ s.point = <<"postgres", "restart">> /\ s.action = "restart"
          /\ s.effects = {"all_survived"} /\ s.workload = "sleep" /\ s.hits = 1 .. 2
      BY DEF SCENARIOS, Scenario, Kill, Chore
    <2> HIDE DEF s
    <2>2. s.hits \subseteq Nat
      BY <2>1
    <2>3. ScenarioSound(s)
      BY <2>1, <2>2 DEF ScenarioSound
    <2> QED
      BY <2>3 DEF s
  <1> QED
    BY <1>1, <1>2, <1>3, <1>4, <1>5

LEMMA ScenariosSound == \A name \in DOMAIN SCENARIOS : ScenarioSound(SCENARIOS[name])
  <1>1. DOMAIN SCENARIOS =
          {"claim_before_kill",
           "claim_before_commit_kill",
           "claim_before_commit_drop",
           "claim_before_commit_hang",
           "claim_after_commit_kill",
           "claim_after_commit_drop",
           "start_after_commit_kill",
           "heartbeat_before_kill",
           "heartbeat_before_stop",
           "heartbeat_before_drop",
           "publish_before_commit_kill",
           "publish_before_commit_stop",
           "publish_before_commit_hang",
           "publish_before_commit_drop",
           "publish_after_commit_kill",
           "publish_after_commit_drop",
           "publish_before_stop",
           "release_before_commit_kill",
           "reap_before_commit_kill",
           "cancel_before_commit_kill",
           "postgres_restart"}
    BY DEF SCENARIOS
  <1> QED
    BY <1>1, PlainScenariosSound, OtherScenariosSound

\* The one that runs is one of them.
LEMMA RunsScenario ==
    ASSUME HarnessSound
    PROVE  ScenarioSound(scenario)
  BY ScenarioAssumption, ScenariosSound DEF HarnessSound

-----------------------------------------------------------------------------
(* The harness's own records.                                              *)

LEMMA InitRecorded == ChaosInit => LedgerInv /\ HarnessSound
  <1> SUFFICES ASSUME ChaosInit PROVE LedgerInv /\ HarnessSound
    OBVIOUS
  <1>1. PICK name \in Scenarios, W \in SUBSET (Worker \ {Ghost}) :
          LET s == SCENARIOS[name]
              n == IF s.action = "restart" THEN 0 ELSE Faults(s)
          IN  /\ scenario = s
              /\ started = W
              /\ arms \in Armed(s, W, n)
              /\ workers = [w \in Worker |-> Fresh(IF w \in W THEN "step" ELSE "down")]
    BY DEF ChaosInit
  <1>2. AtRest
    BY <1>1 DEF ChaosInit, AtRest
  <1>3. SCENARIOS[name].hits \subseteq Nat
    BY ScenarioAssumption, ScenariosSound DEF ScenarioSound
  <1>4. arms \in [Worker -> Nat]
    BY <1>1, <1>3 DEF Armed
  <1>5. faults = [w \in Worker |-> NoFault] /\ paused = {} /\ stopping = FALSE
    BY DEF ChaosInit
  <1>6. faults = [w \in Worker |-> faults[w]] /\ \A w \in Worker : ~Struck(w)
    BY <1>5 DEF Struck
  <1>7. \A w \in Worker : WorkerRecorded(w)
    BY <1>1, <1>5, <1>6 DEF WorkerRecorded, Fresh
  <1> QED
    BY <1>1, <1>2, <1>4, <1>5, <1>6, <1>7, RestBooked DEF HarnessSound

\* What a report, and what an answer, makes of its worker.
LEMMA ReportFields ==
    ASSUME Manned, NEW w \in Worker, NEW what, Report(w, what)
    PROVE  /\ workers'[w].pc = "step" /\ workers'[w].report = what
           /\ workers'[w].job = workers[w].job /\ workers'[w].attempt = workers[w].attempt
           /\ workers'[w].result = "none"
           /\ \A v \in Worker \ {w} : workers'[v] = workers[v]
  BY DEF Manned, Report, WorkerState

\* The worker goes on with the same claim.
GoesOn(w) ==
    /\ workers'[w].job = workers[w].job /\ workers'[w].attempt = workers[w].attempt
    /\ workers'[w].result = workers[w].result /\ workers'[w].report = workers[w].report

Reported(w, what) ==
    /\ workers'[w].pc = "step" /\ workers'[w].report = what
    /\ workers'[w].job = workers[w].job /\ workers'[w].attempt = workers[w].attempt

LEMMA AnswerFields ==
    ASSUME Manned, NEW w \in Worker, NEW t, Answer(w, t)
    PROVE  /\ \A v \in Worker \ {w} : workers'[v] = workers[v]
           /\ workers[w].pc \in OwnCalls \union ClaimCalls \union ReapCalls
           /\ workers[w].pc \in ReapCalls => GoesOn(w) /\ workers'[w].pc = AfterReap(w)
           /\ workers[w].pc \in ClaimCalls =>
                /\ workers'[w].job \in DOMAIN t.rows
                /\ workers'[w].attempt = t.rows[workers'[w].job].attempt
                /\ workers'[w].pc = "start" /\ workers'[w].report = "none"
                /\ workers'[w].result = "none"
           /\ workers[w].pc = "start" => GoesOn(w) /\ workers'[w].pc = "running"
           /\ workers[w].pc = "heartbeat" =>
                /\ GoesOn(w)
                /\ workers'[w].pc = IF t.rows[JobOf(w)].cancel_requested_at # Null
                                    THEN "finish_cancelled" ELSE "running"
           /\ workers[w].pc = "publish" =>
                IF t.stored # {} THEN Reported(w, "published")
                ELSE GoesOn(w) /\ workers'[w].pc = "job_status"
           /\ workers[w].pc = "release" => Reported(w, "released")
           /\ workers[w].pc = "finish_cancelled" => Reported(w, "cancelled")
  <1> USE DEF OwnCalls, ClaimCalls, ReapCalls
  <1>1. CASE workers[w].pc \in {"timer_reap", "idle_reap"} /\ Go(w, AfterReap(w))
    BY <1>1, GoFields DEF GoesOn
  <1>2. CASE workers[w].pc \in {"claim", "reclaim"}
    <2>1. PICK j \in DOMAIN t.rows :
            workers' = [workers EXCEPT ![w] = [Fresh("start") EXCEPT
                                                  !.job = j, !.attempt = t.rows[j].attempt]]
      BY <1>2 DEF Answer
    <2>2. /\ workers'[w] = [Fresh("start") EXCEPT !.job = j, !.attempt = t.rows[j].attempt]
          /\ \A v \in Worker \ {w} : workers'[v] = workers[v]
      BY <2>1 DEF Manned
    <2>3. /\ workers'[w].pc = "start" /\ workers'[w].job = j
          /\ workers'[w].attempt = t.rows[j].attempt /\ workers'[w].report = "none"
          /\ workers'[w].result = "none"
      BY <2>2 DEF Fresh
    <2> QED
      BY <1>2, <2>2, <2>3
  <1>3. CASE workers[w].pc = "start" /\ Go(w, "running")
    BY <1>3, GoFields DEF GoesOn
  <1>4. CASE /\ workers[w].pc = "heartbeat"
             /\ Go(w, IF t.rows[JobOf(w)].cancel_requested_at # Null
                      THEN "finish_cancelled" ELSE "running")
    BY <1>4, GoFields DEF GoesOn
  <1>5. CASE /\ workers[w].pc = "publish"
             /\ IF t.stored # {} THEN Report(w, "published") ELSE Go(w, "job_status")
    BY <1>5, GoFields, ReportFields DEF GoesOn, Reported
  <1>6. CASE workers[w].pc = "release" /\ Report(w, "released")
    BY <1>6, ReportFields DEF Reported
  <1>7. CASE workers[w].pc = "finish_cancelled" /\ Report(w, "cancelled")
    BY <1>7, ReportFields DEF Reported
  <1> QED
    BY <1>1, <1>2, <1>3, <1>4, <1>5, <1>6, <1>7 DEF Answer

\* A worker's step is that worker's alone, and it is up before and after.
LEMMA StepsAlone ==
    ASSUME Whole, NEW w \in Worker, WorkerStep(w)
    PROVE  /\ \A v \in Worker \ {w} : workers'[v] = workers[v]
           /\ workers[w].pc # "down" /\ workers'[w].pc # "down"
  <1>1. workers \in [Worker -> WorkerState] /\ WorkerSound(w)
    BY DEF Whole, Manned, WorkersSound
  <1>2. CASE BeginStep(w)
    BY <1>1, <1>2, GoFields DEF BeginStep, At, Whole
  <1>3. CASE Reap(w)
    BY <1>1, <1>3, GoFields DEF Reap, At, AfterReap, Whole
  <1>4. CASE Claim(w)
    BY <1>1, <1>4, GoFields DEF Claim, At, AfterNoClaim, Whole
  <1>5. CASE Start(w)
    BY <1>1, <1>5, GoFields DEF Start, At, Whole
  <1>6. CASE Heartbeat(w)
    BY <1>1, <1>6, GoFields DEF Heartbeat, At, Report, WorkerState, Whole
  <1>7. CASE RunEnds(w)
    <2>1. PICK pc \in {"record", "release", "publish"} :
            \E result : workers' = [workers EXCEPT ![w].pc = pc, ![w].result = result]
      BY <1>7 DEF RunEnds, AfterRun
    <2>2. workers'[w].pc = pc /\ \A v \in Worker \ {w} : workers'[v] = workers[v]
      BY <1>1, <2>1 DEF WorkerState
    <2> QED
      BY <1>7, <2>2 DEF RunEnds, At
  <1>8. CASE RecordExecution(w)
    BY <1>1, <1>8, GoFields DEF RecordExecution, At, AfterRun, Whole
  <1>9. CASE Publish(w)
    BY <1>1, <1>9, GoFields DEF Publish, At, Report, WorkerState, Whole
  <1>10. CASE JobStatus(w)
    BY <1>1, <1>10 DEF JobStatus, At, Report, WorkerState
  <1>11. ASSUME NEW at, EndAttempt(w, at), workers[w].pc \in {"release", "finish_cancelled"}
         PROVE  /\ \A v \in Worker \ {w} : workers'[v] = workers[v]
                /\ workers[w].pc # "down" /\ workers'[w].pc # "down"
    BY <1>1, <1>11 DEF EndAttempt, EarlierAsk, Report, WorkerState
  <1>12. CASE AskToEnd(w)
    BY <1>1, <1>11, <1>12 DEF AskToEnd, At, WorkerState
  <1>13. CASE EndWaited(w)
    BY <1>11, <1>13 DEF EndWaited, At
  <1>14. ASSUME NEW t \in open, Commit(w, t)
         PROVE  /\ \A v \in Worker \ {w} : workers'[v] = workers[v]
                /\ workers[w].pc # "down" /\ workers'[w].pc # "down"
    <2>1. Answer(w, t)
      BY <1>14 DEF Commit
    <2> QED
      BY <2>1, AnswerFields DEF Whole, AfterReap, Reported, OwnCalls, ClaimCalls, ReapCalls
  <1> QED
    BY <1>2, <1>3, <1>4, <1>5, <1>6, <1>7, <1>8, <1>9, <1>10, <1>12, <1>13, <1>14
       DEF WorkerStep

\* A failpoint fires once, on a worker that is up.
LEMMA FiresFacts ==
    ASSUME LedgerInv, HarnessSound, NEW w \in Worker, NEW fault, Fires(w, fault)
    PROVE  /\ ~Struck(w) /\ w \notin paused
           /\ arms' \in [Worker -> Nat] /\ arms'[w] = 0
           /\ \A v \in Worker \ {w} : arms'[v] = arms[v] /\ faults'[v] = faults[v]
           /\ faults'[w] = fault
           /\ faults' = [v \in Worker |-> faults'[v]]
           /\ paused' = IF scenario.action \in {"stop", "hang"} THEN paused \union {w} ELSE paused
           /\ UNCHANGED <<scenario, started, stopping>>
  <1>1. arms[w] = 1 /\ w \notin paused
    BY DEF Fires
  <1>2. arms \in [Worker -> Nat] /\ faults = [v \in Worker |-> faults[v]]
    BY DEF HarnessSound
  <1>3. ~Struck(w)
    BY <1>1 DEF HarnessSound, WorkerRecorded
  <1>4. faults' = [faults EXCEPT ![w] = fault]
    BY DEF Fires
  <1>5. /\ faults'[w] = fault /\ faults' = [v \in Worker |-> faults'[v]]
        /\ \A v \in Worker \ {w} : faults'[v] = faults[v]
    BY <1>2, <1>4
  <1> QED
    BY <1>1, <1>2, <1>3, <1>5 DEF Fires

LEMMA FaultLineAt ==
    ASSUME LedgerInv, NEW w, NEW t
    PROVE  FaultLine(w, t).at = clock /\ clock \in Nat /\ FaultLine(w, t) # NoFault
  <1>1. clock \in Nat
    BY WholeSplit DEF Whole, Stored, StoreTypeOK
  <1>2. FaultLine(w, t).at = clock /\ NoFault.at = Null
    BY DEF FaultLine, NoFault
  <1> QED
    BY <1>1, <1>2, NullFacts

\* What a fired failpoint does to its worker is what its action says.
LEMMA FireRecorded ==
    ASSUME LedgerInv, HarnessSound, clock' = clock,
           NEW w \in Worker, NEW t, Fires(w, FaultLine(w, t)),
           \A v \in Worker \ {w} : workers'[v] = workers[v],
           workers[w].pc # "down",
           workers'[w].pc = "down" <=> scenario.action = "kill",
           Onward
    PROVE  HarnessSound'
  <1> DEFINE fault == FaultLine(w, t)
  <1>1. /\ fault.at = clock /\ clock \in Nat /\ fault # NoFault
    BY FaultLineAt
  <1> HIDE DEF fault
  <1>2. /\ ~Struck(w) /\ w \notin paused
        /\ arms' \in [Worker -> Nat] /\ arms'[w] = 0
        /\ \A v \in Worker \ {w} : arms'[v] = arms[v] /\ faults'[v] = faults[v]
        /\ faults'[w] = fault
        /\ faults' = [v \in Worker |-> faults'[v]]
        /\ paused' = IF scenario.action \in {"stop", "hang"} THEN paused \union {w} ELSE paused
        /\ UNCHANGED <<scenario, started, stopping>>
    BY FiresFacts DEF fault
  <1>3. w \in started
    BY DEF HarnessSound, WorkerRecorded, Fresh
  <1>4. WorkerRecorded(w)'
    BY <1>1, <1>2, <1>3 DEF WorkerRecorded, Struck
  <1>5. ASSUME NEW v \in Worker \ {w} PROVE WorkerRecorded(v)'
    <2>1. WorkerRecorded(v)
      BY DEF HarnessSound
    <2> QED
      BY <1>2, <2>1 DEF WorkerRecorded, Struck
  <1>6. stopping' => \A j \in Job : jobs'[j].state \in FinalStates
    BY <1>2 DEF HarnessSound, Onward
  <1> QED
    BY <1>2, <1>4, <1>5, <1>6 DEF HarnessSound

\* A step that strikes nobody, and brings no worker up or down.
LEMMA SpareRecorded ==
    ASSUME HarnessSound, Onward, clock \in Nat, clock' \in Nat, clock <= clock',
           UNCHANGED <<scenario, started, faults>>,
           paused' \subseteq paused,
           scenario.action = "hang" => paused' = paused,
           arms' \in [Worker -> Nat],
           \A v \in Worker : Struck(v) => arms'[v] = arms[v],
           \A v \in Worker : workers'[v].pc = "down" <=> workers[v].pc = "down",
           \A v \in Worker \ started : workers'[v] = workers[v],
           stopping' => stopping \/ \A j \in Job : jobs[j].state \in FinalStates
    PROVE  HarnessSound'
  <1>1. ASSUME NEW v \in Worker PROVE WorkerRecorded(v)'
    <2>1. WorkerRecorded(v)
      BY DEF HarnessSound
    <2> QED
      BY <2>1 DEF WorkerRecorded, Struck
  <1>2. stopping' => \A j \in Job : jobs'[j].state \in FinalStates
    BY DEF HarnessSound, Onward
  <1>3. faults' = [w \in Worker |-> faults'[w]]
    BY DEF HarnessSound
  <1> QED
    BY <1>1, <1>2, <1>3 DEF HarnessSound

\* A crash is its worker's, and loses what it held.
LEMMA CrashFields ==
    ASSUME Manned, NEW w \in Worker, Crash(w)
    PROVE  /\ workers[w].pc # "down" /\ workers'[w] = Fresh("down")
           /\ workers'[w].pc = "down"
           /\ \A v \in Worker \ {w} : workers'[v] = workers[v]
           /\ UNCHANGED <<clock, jobs, attempts, results>>
  BY DEF Manned, Crash, Fresh

\* No time passes in a worker's step.
LEMMA StepClock ==
    ASSUME NEW w \in Worker, WorkerStep(w)
    PROVE  clock' = clock
  <1>1. \A t : Begin(t) \/ Install(t) => clock' = clock
    BY DEF Begin, Install
  <1>2. UNCHANGED storeVars => clock' = clock
    BY DEF storeVars
  <1>3. \A at : EndAttempt(w, at) => clock' = clock
    BY <1>1, <1>2 DEF EndAttempt, EarlierAsk
  <1>4. BeginStep(w) \/ Reap(w) \/ Claim(w) \/ Start(w) => clock' = clock
    BY <1>1, <1>2 DEF BeginStep, Reap, Claim, Start
  <1>5. Heartbeat(w) \/ RunEnds(w) \/ RecordExecution(w) \/ JobStatus(w) => clock' = clock
    BY <1>1, <1>2 DEF Heartbeat, RunEnds, RecordExecution, JobStatus
  <1>6. Publish(w) => clock' = clock
    BY <1>1, <1>2 DEF Publish
  <1>7. AskToEnd(w) \/ EndWaited(w) => clock' = clock
    BY <1>2, <1>3 DEF AskToEnd, EndWaited
  <1>8. (\E t \in open : Commit(w, t)) => clock' = clock
    BY <1>1 DEF Commit
  <1> QED
    BY <1>4, <1>5, <1>6, <1>7, <1>8 DEF WorkerStep

\* The places a failpoint may be.
LEMMA PointsUp ==
    ASSUME HarnessSound, NEW w \in Worker, AtCall(w)
    PROVE  workers[w].pc # "down" /\ scenario.action # "restart"
  <1>1. ScenarioSound(scenario)
    BY RunsScenario
  <1>2. scenario.action = "restart" => CallPCs[scenario.point[1]] = {}
    BY <1>1 DEF ScenarioSound, CallPCs
  <1>3. workers[w].pc \in CallPCs[scenario.point[1]]
    BY DEF AtCall
  <1>4. CallPCs[scenario.point[1]] \subseteq Calls \union {"running"}
    BY <1>1 DEF ScenarioSound, CallPCs, Calls
  <1> QED
    BY <1>2, <1>3, <1>4 DEF Calls

\* The harness's records are kept by every step of it.
LEMMA RecordsKept ==
    ASSUME LedgerInv, HarnessSound, [ChaosNext]_chaosVars
    PROVE  HarnessSound'
  <1>1. Whole /\ Kept
    BY WholeSplit, ChaosKept
  <1>2. Onward /\ clock \in Nat /\ clock' \in Nat
    BY <1>1 DEF Kept, LedgerInv, IndInv, TypeOK, StoreTypeOK
  <1>3. arms \in [Worker -> Nat] /\ workers \in [Worker -> WorkerState]
    BY <1>1 DEF HarnessSound, Whole, Manned
  <1>4. ASSUME UNCHANGED <<scenario, started, arms, faults, paused, stopping>>,
               clock <= clock',
               \A v \in Worker : workers'[v].pc = "down" <=> workers[v].pc = "down",
               \A v \in Worker \ started : workers'[v] = workers[v]
        PROVE  HarnessSound'
    BY <1>2, <1>3, <1>4, SpareRecorded
  <1>5. ASSUME NEW w \in Worker, Work(w) PROVE HarnessSound'
    <2>1. /\ \A v \in Worker \ {w} : workers'[v] = workers[v]
          /\ workers[w].pc # "down" /\ workers'[w].pc # "down"
          /\ clock' = clock
      BY <1>1, <1>5, StepsAlone, StepClock DEF Work
    <2>2. w \in started
      BY <2>1 DEF HarnessSound, WorkerRecorded, Fresh
    <2>3. /\ arms' \in [Worker -> Nat]
          /\ \A v \in Worker : arms[v] = 0 => arms'[v] = arms[v]
      BY <1>3, <1>5 DEF Work
    <2>4. \A v \in Worker : Struck(v) => arms'[v] = arms[v]
      BY <2>3 DEF HarnessSound, WorkerRecorded
    <2>5. UNCHANGED <<scenario, started, paused, faults, stopping>>
      BY <1>5 DEF Work
    <2> QED
      BY <1>2, <2>1, <2>2, <2>3, <2>4, <2>5, SpareRecorded
  <1>6. ASSUME NEW w \in Worker, FireBefore(w) PROVE HarnessSound'
    <2> DEFINE t == Txn(w, NoRows, NoRows, {})
    <2>1. Fires(w, FaultLine(w, t)) /\ AtCall(w)
      BY <1>6 DEF FireBefore, AtBefore
    <2>2. workers[w].pc # "down" /\ workers[w].pc \in PC
      BY <1>3, <2>1, PointsUp DEF WorkerState
    <2>3. CASE scenario.action = "kill" /\ Crash(w)
      BY <1>1, <1>2, <2>1, <2>2, <2>3, CrashFields, FireRecorded DEF Whole
    <2>4. CASE /\ scenario.action # "kill"
               /\ Go(w, IF workers[w].pc = "running" THEN "heartbeat" ELSE workers[w].pc)
               /\ UNCHANGED storeVars
      <3>1. /\ workers'[w].pc # "down" /\ clock' = clock
            /\ \A v \in Worker \ {w} : workers'[v] = workers[v]
        BY <1>1, <2>2, <2>4, GoFields DEF Whole, storeVars
      <3> QED
        BY <1>2, <2>1, <2>2, <2>4, <3>1, FireRecorded
    <2> QED
      BY <1>6, <2>3, <2>4 DEF FireBefore
  <1>7. ASSUME NEW w \in Worker, NEW t \in open, FireBeforeCommit(w, t) PROVE HarnessSound'
    <2>1. Fires(w, FaultLine(w, t)) /\ AtCall(w)
      BY <1>7 DEF FireBeforeCommit, AtCommit
    <2>2. workers[w].pc # "down"
      BY <2>1, PointsUp
    <2>3. CASE scenario.action = "kill" /\ Crash(w)
      BY <1>1, <1>2, <2>1, <2>2, <2>3, CrashFields, FireRecorded DEF Whole
    <2>4. CASE scenario.action # "kill" /\ UNCHANGED <<clock, workers>>
      BY <1>2, <2>1, <2>2, <2>4, FireRecorded
    <2> QED
      BY <1>7, <2>3, <2>4 DEF FireBeforeCommit, vars, storeVars
  <1>8. ASSUME NEW w \in Worker, NEW t \in open, FireAfterCommit(w, t) PROVE HarnessSound'
    <2>1. Fires(w, FaultLine(w, t)) /\ AtCall(w) /\ clock' = clock
      BY <1>8 DEF FireAfterCommit, AtCommit, Install
    <2>2. workers[w].pc # "down"
      BY <2>1, PointsUp
    <2>3. CASE scenario.action = "kill" /\ workers' = [workers EXCEPT ![w] = Fresh("down")]
      <3>1. workers'[w].pc = "down" /\ \A v \in Worker \ {w} : workers'[v] = workers[v]
        BY <1>3, <2>3 DEF Fresh
      <3> QED
        BY <1>2, <2>1, <2>2, <2>3, <3>1, FireRecorded
    <2>4. CASE scenario.action # "kill" /\ UNCHANGED workers
      BY <1>2, <2>1, <2>2, <2>4, FireRecorded
    <2> QED
      BY <1>8, <2>3, <2>4 DEF FireAfterCommit
  <1>9. ASSUME NEW w \in Worker, Wake(w) PROVE HarnessSound'
    <2>1. /\ UNCHANGED <<clock, workers, scenario, started, arms, faults, stopping>>
          /\ paused' = paused \ {w} /\ scenario.action = "stop"
      BY <1>9 DEF Wake, vars, storeVars
    <2> QED
      BY <1>2, <1>3, <2>1, SpareRecorded
  <1>10. ASSUME NEW w \in Worker, NEW t \in open, IdleOut(w, t) PROVE HarnessSound'
    BY <1>2, <1>4, <1>10 DEF IdleOut
  <1>11. ASSUME NEW t \in open, Rollback(t), UNCHANGED harnessVars PROVE HarnessSound'
    BY <1>2, <1>4, <1>11 DEF Rollback, harnessVars
  <1>12. CASE ReplaceTheDead
    <2>1. PICK w \in Worker \ (started \union {Ghost}) :
            /\ started' = started \union {w}
            /\ Go(w, "step")
            /\ \/ UNCHANGED arms
               \/ \E hit \in scenario.hits : arms' = [arms EXCEPT ![w] = hit]
      BY <1>12 DEF ReplaceTheDead
    <2>2. /\ UNCHANGED <<clock, scenario, paused, faults, stopping>>
      BY <1>12 DEF ReplaceTheDead, storeVars
    <2>3. /\ workers'[w].pc = "step" /\ \A v \in Worker \ {w} : workers'[v] = workers[v]
      BY <1>1, <2>1, GoFields DEF Whole
    <2>4. arms' \in [Worker -> Nat] /\ \A v \in Worker \ {w} : arms'[v] = arms[v]
      BY <1>3, <2>1, RunsScenario DEF ScenarioSound
    <2>5. WorkerRecorded(w)'
      <3>1. ~Struck(w) /\ w \notin paused
        BY <2>1 DEF HarnessSound, WorkerRecorded
      <3> QED
        BY <2>1, <2>2, <2>3, <3>1 DEF WorkerRecorded, Struck
    <2>6. ASSUME NEW v \in Worker \ {w} PROVE WorkerRecorded(v)'
      <3>1. WorkerRecorded(v)
        BY DEF HarnessSound
      <3> QED
        BY <2>1, <2>2, <2>3, <2>4, <3>1 DEF WorkerRecorded, Struck
    <2>7. stopping' => \A j \in Job : jobs'[j].state \in FinalStates
      BY <1>2, <2>2 DEF HarnessSound, Onward
    <2> QED
      BY <2>1, <2>2, <2>4, <2>5, <2>6, <2>7 DEF HarnessSound
  <1>13. CASE DriveGhost
    BY <1>2, <1>4, <1>13 DEF DriveGhost, harnessVars
  <1>14. CASE DriveRestart
    <2>1. /\ UNCHANGED <<clock, scenario, started, arms, faults, paused, stopping>>
          /\ workers' = [v \in Worker |-> [workers[v] EXCEPT !.asked = Null]]
      BY <1>14 DEF DriveRestart
    <2>2. \A v \in Worker : workers'[v].pc = workers[v].pc
      BY <1>3, <2>1 DEF WorkerState
    <2>3. ASSUME NEW v \in Worker \ started PROVE workers'[v] = workers[v]
      <3>1. workers[v] = Fresh("down")
        BY DEF HarnessSound, WorkerRecorded
      <3> QED
        BY <2>1, <3>1 DEF Fresh
    <2> QED
      BY <1>2, <1>4, <2>1, <2>2, <2>3
  <1>15. CASE StopAll
    <2>1. /\ UNCHANGED <<clock, workers, scenario, started, arms, faults, paused>>
          /\ \A j \in Job : jobs[j].state \in FinalStates
      BY <1>15 DEF StopAll, Drained, vars, storeVars
    <2> QED
      BY <1>2, <1>3, <2>1, SpareRecorded
  <1>16. CASE ChaosTick
    BY <1>2, <1>4, <1>16 DEF ChaosTick, Tick, harnessVars
  <1>17. ASSUME NEW j \in Job, DriveCancel(j) PROVE HarnessSound'
    BY <1>2, <1>4, <1>17 DEF DriveCancel
  <1>18. CASE UNCHANGED chaosVars
    BY <1>2, <1>4, <1>18 DEF chaosVars, vars, storeVars
  <1> QED
    BY <1>5, <1>6, <1>7, <1>8, <1>9, <1>10, <1>11, <1>12, <1>13, <1>14, <1>15, <1>16,
       <1>17, <1>18 DEF ChaosNext

\* The fleet's invariant holds whatever the harness does to it.
LEMMA FleetUnderChaos == ChaosSpec => [](LedgerInv /\ HarnessSound)
  <1>1. LedgerInv /\ HarnessSound /\ [ChaosNext]_chaosVars => (LedgerInv /\ HarnessSound)'
    BY ChaosKept, RecordsKept DEF Kept
  <1> QED
    BY <1>1, InitRecorded, PTL DEF ChaosSpec

\* Under every fault the harness injects, whenever a job is final the run
\* checker passes it (chaos/harness.py, _record; fleet/invariants.py, check).
THEOREM ChaosPassesChecker == ChaosSpec => []FinalJobsPassCheck
  <1>1. LedgerInv => FinalJobsPassCheck
    BY FinalChecked
  <1> QED
    BY <1>1, FleetUnderChaos, PTL

-----------------------------------------------------------------------------
(* Calls as they begin.                                                    *)

\* Of a row's cancel request and lease, a call changes nothing but to end the
\* lease or to take it for another Lease.
Plain(t) ==
    \A j \in DOMAIN t.rows :
        /\ t.rows[j].cancel_requested_at = jobs[j].cancel_requested_at
        /\ t.rows[j].lease_expires_at \in {Null, jobs[j].lease_expires_at, clock + Lease}

LEMMA OneRow ==
    ASSUME NEW o, NEW j, NEW row, NEW entries, NEW stored
    PROVE  LET t == Txn(o, One(j, row), entries, stored)
           IN  /\ t.owner = o /\ DOMAIN t.rows = {j} /\ t.rows[j] = row
               /\ t.logs = entries /\ t.stored = stored
  BY DEF Txn, One

LEMMA ClaimTxnShape ==
    ASSUME Rows, NEW w, NEW j \in Job, jobs[j].state = "queued"
    PROVE  LET t == ClaimTxn(w, j, clock)
           IN  t.owner = w /\ Plain(t) /\ GrantsLease(t) /\ ClaimShape(t)
  <1> DEFINE row == Claimed(jobs[j], clock)
             t   == ClaimTxn(w, j, clock)
  <1>1. jobs[j] \in JobRow /\ clock \in Nat
    BY DEF Rows, StoreTypeOK
  <1>2. /\ row.state = "claimed" /\ row.attempt = jobs[j].attempt + 1
        /\ row.cancel_requested_at = jobs[j].cancel_requested_at
        /\ row.lease_expires_at = clock + Lease
    BY <1>1 DEF Claimed, JobRow
  <1>3. t.owner = w /\ DOMAIN t.rows = {j} /\ t.rows[j] = row
    BY OneRow DEF ClaimTxn
  <1> HIDE DEF row, t
  <1>4. clock + Lease > clock
    BY <1>1, LeaseAssumption
  <1>5. Plain(t) /\ GrantsLease(t) /\ ClaimShape(t)
    BY <1>2, <1>3, <1>4 DEF Plain, GrantsLease, ClaimShape
  <1> QED
    BY <1>3, <1>5 DEF t

LEMMA StartTxnShape ==
    ASSUME Rows, NEW w, NEW j \in Job, NEW a, StartDue(jobs[j], a, clock)
    PROVE  LET t == StartTxn(w, j)
           IN  t.owner = w /\ Plain(t) /\ GrantsLease(t) /\ OwnShape("start", j, a, t)
  <1> DEFINE row == [jobs[j] EXCEPT !.state = "running"]
             t   == StartTxn(w, j)
  <1>1. jobs[j] \in JobRow
    BY DEF Rows, StoreTypeOK
  <1>2. Held(jobs[j], a) /\ jobs[j].attempt = a /\ jobs[j].lease_expires_at > clock
    BY DEF StartDue, HeldLive, Held
  <1>3. /\ row.state = "running" /\ row.attempt = jobs[j].attempt
        /\ row.cancel_requested_at = jobs[j].cancel_requested_at
        /\ row.lease_expires_at = jobs[j].lease_expires_at
    BY <1>1 DEF JobRow
  <1>4. t.owner = w /\ DOMAIN t.rows = {j} /\ t.rows[j] = row
    BY OneRow DEF StartTxn
  <1> HIDE DEF row, t
  <1>5. Plain(t) /\ GrantsLease(t) /\ OwnShape("start", j, a, t)
    BY <1>2, <1>3, <1>4 DEF Plain, GrantsLease, OwnShape, LeasedStates
  <1> QED
    BY <1>4, <1>5 DEF t

LEMMA HeartbeatTxnShape ==
    ASSUME Rows, NEW w, NEW j \in Job, NEW a, HeldLive(jobs[j], a, clock)
    PROVE  LET t == HeartbeatTxn(w, j, a, clock)
           IN  t.owner = w /\ Plain(t) /\ GrantsLease(t) /\ OwnShape("heartbeat", j, a, t)
  <1> DEFINE row == [jobs[j] EXCEPT !.lease_expires_at = clock + Lease]
             t   == HeartbeatTxn(w, j, a, clock)
  <1>1. jobs[j] \in JobRow /\ clock \in Nat
    BY DEF Rows, StoreTypeOK
  <1>2. Held(jobs[j], a) /\ jobs[j].attempt = a /\ jobs[j].state \in LeasedStates
    BY DEF HeldLive, Held
  <1>3. /\ row.state = jobs[j].state /\ row.attempt = jobs[j].attempt
        /\ row.cancel_requested_at = jobs[j].cancel_requested_at
        /\ row.lease_expires_at = clock + Lease
    BY <1>1 DEF JobRow
  <1>4. t.owner = w /\ DOMAIN t.rows = {j} /\ t.rows[j] = row
    BY OneRow DEF HeartbeatTxn
  <1> HIDE DEF row, t
  <1>5. clock + Lease > clock
    BY <1>1, LeaseAssumption
  <1>6. Plain(t) /\ GrantsLease(t) /\ OwnShape("heartbeat", j, a, t)
    BY <1>2, <1>3, <1>4, <1>5 DEF Plain, GrantsLease, OwnShape
  <1> QED
    BY <1>4, <1>6 DEF t

LEMMA FinishCancelledTxnShape ==
    ASSUME Rows, NEW w, NEW j \in Job, NEW a, NEW at, Held(jobs[j], a)
    PROVE  LET t == FinishCancelledTxn(w, j, a, at)
           IN  /\ t.owner = w /\ Plain(t) /\ GrantsLease(t)
               /\ OwnShape("publish", j, a, t) /\ OwnShape("finish_cancelled", j, a, t)
  <1> DEFINE row == CancelDone(jobs[j])
             t   == FinishCancelledTxn(w, j, a, at)
  <1>1. jobs[j] \in JobRow
    BY DEF Rows, StoreTypeOK
  <1>2. jobs[j].attempt = a
    BY DEF Held
  <1>3. /\ row.state = "cancelled" /\ row.attempt = jobs[j].attempt
        /\ row.cancel_requested_at = jobs[j].cancel_requested_at
        /\ row.lease_expires_at = Null
    BY <1>1 DEF CancelDone, JobRow
  <1>4. t.owner = w /\ DOMAIN t.rows = {j} /\ t.rows[j] = row
    BY OneRow DEF FinishCancelledTxn
  <1> HIDE DEF row, t
  <1>5. /\ Plain(t) /\ GrantsLease(t)
        /\ OwnShape("publish", j, a, t) /\ OwnShape("finish_cancelled", j, a, t)
    BY <1>2, <1>3, <1>4 DEF Plain, GrantsLease, OwnShape, LeasedStates
  <1> QED
    BY <1>4, <1>5 DEF t

LEMMA PublishTxnShape ==
    ASSUME Rows, NEW w, NEW j \in Job, NEW a, NEW outcome \in Outcomes, Held(jobs[j], a)
    PROVE  LET t == PublishTxn(w, j, a, clock, outcome)
           IN  t.owner = w /\ Plain(t) /\ GrantsLease(t) /\ OwnShape("publish", j, a, t)
  <1> DEFINE row == Published(jobs[j], outcome)
             t   == PublishTxn(w, j, a, clock, outcome)
  <1>1. jobs[j] \in JobRow
    BY DEF Rows, StoreTypeOK
  <1>2. jobs[j].attempt = a
    BY DEF Held
  <1>3. /\ row.state = outcome /\ row.attempt = jobs[j].attempt
        /\ row.cancel_requested_at = jobs[j].cancel_requested_at
        /\ row.lease_expires_at = Null
    BY <1>1 DEF Published, JobRow
  <1>4. /\ t.owner = w /\ DOMAIN t.rows = {j} /\ t.rows[j] = row
        /\ t.stored = {Result(j, a, w, clock, outcome)}
    BY OneRow DEF PublishTxn
  <1> HIDE DEF row, t
  <1>5. Plain(t) /\ GrantsLease(t) /\ OwnShape("publish", j, a, t)
    BY <1>2, <1>3, <1>4, OutcomeAssumption DEF Plain, GrantsLease, OwnShape, LeasedStates
  <1> QED
    BY <1>4, <1>5 DEF t

LEMMA GivenBackShape ==
    ASSUME NEW j \in Job, NEW row \in JobRow, NEW at \in Nat
    PROVE  LET new == GivenBack(j, row, at)
           IN  /\ new.state \notin LeasedStates /\ new.attempt = row.attempt
               /\ new.cancel_requested_at = row.cancel_requested_at
               /\ new.lease_expires_at = Null
  BY DEF GivenBack, Retried, JobRow, LeasedStates

\* What _end_attempts makes of a set of jobs.
EndsAttempts(t, S, ending) ==
    /\ Plain(t) /\ GrantsLease(t) /\ DOMAIN t.rows = S
    /\ \A j \in S :
         LET k == <<j, jobs[j].attempt>>
         IN  /\ t.rows[j].state \notin LeasedStates
             /\ t.rows[j].attempt = jobs[j].attempt
             /\ k \in DOMAIN t.logs /\ t.logs[k].ended_by = ending

LEMMA EndAttemptsTxnShape ==
    ASSUME Rows, NEW w, NEW S \in SUBSET Job, NEW at \in Nat, NEW ending,
           \A j \in S : jobs[j].state \in LeasedStates
    PROVE  /\ EndAttemptsTxn(w, S, at, ending).owner = w
           /\ EndsAttempts(EndAttemptsTxn(w, S, at, ending), S, ending)
  <1> DEFINE t == EndAttemptsTxn(w, S, at, ending)
             K == {<<j, jobs[j].attempt>> : j \in S}
  <1>1. /\ t.owner = w /\ t.rows = [j \in S |-> GivenBack(j, jobs[j], at)]
        /\ t.logs = [k \in K |-> Ended(attempts[k], at, ending)]
    BY DEF EndAttemptsTxn, Txn
  <1> HIDE DEF t
  <1>2. ASSUME NEW j \in S
        PROVE  /\ t.rows[j].state \notin LeasedStates
               /\ t.rows[j].attempt = jobs[j].attempt
               /\ t.rows[j].cancel_requested_at = jobs[j].cancel_requested_at
               /\ t.rows[j].lease_expires_at = Null
    <2>1. jobs[j] \in JobRow
      BY DEF Rows, StoreTypeOK
    <2>2. t.rows[j] = GivenBack(j, jobs[j], at)
      BY <1>1
    <2> QED
      BY <2>1, <2>2, GivenBackShape
  <1>3. ASSUME NEW j \in S
        PROVE  LET k == <<j, jobs[j].attempt>>
               IN  k \in DOMAIN t.logs /\ t.logs[k].ended_by = ending
    <2> DEFINE k == <<j, jobs[j].attempt>>
    <2>1. attempts[k] \in AttemptRow
      BY HeldAttempt DEF Rows, StoreTypeOK
    <2>2. Ended(attempts[k], at, ending).ended_by = ending
      BY <2>1 DEF Ended, AttemptRow
    <2> QED
      BY <1>1, <2>2
  <1>4. DOMAIN t.rows = S
    BY <1>1
  <1>5. Plain(t) /\ GrantsLease(t)
    BY <1>2, <1>4 DEF Plain, GrantsLease
  <1> QED
    BY <1>1, <1>2, <1>3, <1>4, <1>5 DEF EndsAttempts, t

\* The shape a call has as it begins.
LEMMA BegunShape ==
    ASSUME NEW w \in Worker, NEW t, Begin(t), GoesOn(w),
           \/ workers'[w].pc \in OwnCalls
              /\ OwnShape(workers'[w].pc, JobOf(w), AttemptOf(w), t)
           \/ workers'[w].pc \in ClaimCalls /\ ClaimShape(t)
           \/ workers'[w].pc \in ReapCalls /\ ReapShape(t)
    PROVE  CallShape(w, t)'
  <1>1. jobs' = jobs /\ clock' = clock /\ JobOf(w)' = JobOf(w) /\ AttemptOf(w)' = AttemptOf(w)
    BY DEF Begin, GoesOn, JobOf, AttemptOf
  <1>2. \A pc, j, a : OwnShape(pc, j, a, t) => OwnShape(pc, j, a, t)'
    BY <1>1 DEF OwnShape
  <1>3. (ClaimShape(t) => ClaimShape(t)') /\ (ReapShape(t) => ReapShape(t)')
    BY <1>1 DEF ClaimShape, ReapShape
  <1> QED
    BY <1>1, <1>2, <1>3 DEF CallShape

\* What a worker begins is the call it is at, or the heartbeat it goes to.
BeganCall(w, t) ==
    /\ Begin(t) /\ Free(w) /\ t.owner = w /\ Plain(t) /\ GrantsLease(t)
    /\ CallShape(w, t)' /\ GoesOn(w)
    /\ \A v \in Worker \ {w} : workers'[v] = workers[v]
    /\ \/ workers'[w].pc = workers[w].pc
       \/ workers[w].pc = "running" /\ workers'[w].pc = "heartbeat"

LEMMA EndAttemptBegun ==
    ASSUME Whole, NEW w \in Worker, NEW t \in open', t \notin open,
           workers[w].pc \in {"release", "finish_cancelled"}, Free(w),
           NEW at \in Nat, EndAttempt(w, at)
    PROVE  BeganCall(w, t)
  <1>1. /\ Rows /\ clock \in Nat
        /\ JobOf(w) \in Job /\ AttemptOf(w) \in AttemptNo /\ RowOf(w) = jobs[JobOf(w)]
    BY AtJob DEF Whole, HoldsJob
  <1>2. CASE /\ ReleaseDue(w, at)
             /\ Begin(EndAttemptsTxn(w, {JobOf(w)}, at, "released"))
             /\ UNCHANGED workers
    <2>1. Held(jobs[JobOf(w)], AttemptOf(w)) /\ workers[w].pc = "release"
      BY <1>1, <1>2 DEF ReleaseDue, HeldLive
    <2>2. t = EndAttemptsTxn(w, {JobOf(w)}, at, "released")
      BY <1>2 DEF Begin
    <2>3. /\ t.owner = w /\ Plain(t) /\ GrantsLease(t) /\ DOMAIN t.rows = {JobOf(w)}
          /\ t.rows[JobOf(w)].attempt = jobs[JobOf(w)].attempt
      <3>1. \A j \in {JobOf(w)} : jobs[j].state \in LeasedStates
        BY <2>1 DEF Held
      <3>2. t.owner = w /\ EndsAttempts(t, {JobOf(w)}, "released")
        BY <1>1, <2>2, <3>1, EndAttemptsTxnShape
      <3> QED
        BY <3>2 DEF EndsAttempts
    <2>4. OwnShape("release", JobOf(w), AttemptOf(w), t)
      BY <2>1, <2>3 DEF OwnShape, Held
    <2>5. GoesOn(w) /\ workers'[w].pc = "release" /\ Begin(t)
      BY <1>2, <2>1, <2>2 DEF GoesOn
    <2>6. CallShape(w, t)'
      BY <2>4, <2>5, BegunShape DEF OwnCalls
    <2> QED
      BY <1>2, <2>3, <2>5, <2>6 DEF BeganCall
  <1>3. CASE /\ FinishDue(w, at)
             /\ Begin(FinishCancelledTxn(w, JobOf(w), AttemptOf(w), at))
             /\ UNCHANGED workers
    <2>1. Held(jobs[JobOf(w)], AttemptOf(w)) /\ workers[w].pc = "finish_cancelled"
      BY <1>1, <1>3 DEF FinishDue, CancelDue, HeldLive
    <2>2. t = FinishCancelledTxn(w, JobOf(w), AttemptOf(w), at)
      BY <1>3 DEF Begin
    <2>3. /\ t.owner = w /\ Plain(t) /\ GrantsLease(t)
          /\ OwnShape("finish_cancelled", JobOf(w), AttemptOf(w), t)
      BY <1>1, <2>1, <2>2, FinishCancelledTxnShape
    <2>4. GoesOn(w) /\ workers'[w].pc = "finish_cancelled" /\ Begin(t)
      BY <1>3, <2>1, <2>2 DEF GoesOn
    <2>5. CallShape(w, t)'
      BY <2>3, <2>4, BegunShape DEF OwnCalls
    <2> QED
      BY <1>3, <2>3, <2>4, <2>5 DEF BeganCall
  <1>4. CASE EarlierAsk(w)
    BY <1>4 DEF EarlierAsk, storeVars
  <1> QED
    BY <1>2, <1>3, <1>4 DEF EndAttempt

LEMMA BegunCall ==
    ASSUME Whole, NEW w \in Worker, WorkerStep(w), NEW t \in open', t \notin open
    PROVE  BeganCall(w, t)
  <1>1. Rows /\ clock \in Nat /\ Manned
    BY DEF Whole, Stored, Rows, StoreTypeOK
  <1>2. UNCHANGED storeVars => FALSE
    BY DEF storeVars
  <1>3. CASE Reap(w)
    <2> DEFINE lapsed == {j \in Job : Unlocked(j) /\ Lapsed(jobs[j], clock)}
    <2>1. Begin(EndAttemptsTxn(w, lapsed, clock, "lease_expired")) /\ UNCHANGED workers
      BY <1>2, <1>3 DEF Reap
    <2>2. t = EndAttemptsTxn(w, lapsed, clock, "lease_expired")
      BY <2>1 DEF Begin
    <2>3. /\ t.owner = w /\ Plain(t) /\ GrantsLease(t) /\ ReapShape(t)
      <3>1. \A j \in lapsed : Lapsed(jobs[j], clock) /\ jobs[j].state \in LeasedStates
        BY DEF Lapsed
      <3>2. t.owner = w /\ EndsAttempts(t, lapsed, "lease_expired")
        BY <1>1, <2>2, <3>1, EndAttemptsTxnShape
      <3> QED
        BY <3>1, <3>2 DEF EndsAttempts, ReapShape
    <2>4. GoesOn(w) /\ workers'[w].pc = workers[w].pc /\ Begin(t)
      BY <2>1, <2>2 DEF GoesOn
    <2>5. workers[w].pc \in ReapCalls /\ Free(w)
      BY <1>3 DEF Reap, At, ReapCalls, Free
    <2>6. CallShape(w, t)'
      BY <2>3, <2>4, <2>5, BegunShape
    <2> QED
      BY <2>1, <2>3, <2>4, <2>5, <2>6 DEF BeganCall
  <1>4. CASE Claim(w)
    <2>1. PICK j \in Job : /\ Claimable(jobs[j], clock)
                           /\ Begin(ClaimTxn(w, j, clock)) /\ UNCHANGED workers
      BY <1>2, <1>4 DEF Claim
    <2>2. t = ClaimTxn(w, j, clock)
      BY <2>1 DEF Begin
    <2>3. t.owner = w /\ Plain(t) /\ GrantsLease(t) /\ ClaimShape(t)
      BY <1>1, <2>1, <2>2, ClaimTxnShape DEF Claimable
    <2>4. GoesOn(w) /\ workers'[w].pc = workers[w].pc /\ Begin(t)
      BY <2>1, <2>2 DEF GoesOn
    <2>5. workers[w].pc \in ClaimCalls /\ Free(w)
      BY <1>4 DEF Claim, At, ClaimCalls, Free
    <2>6. CallShape(w, t)'
      BY <2>3, <2>4, <2>5, BegunShape
    <2> QED
      BY <2>1, <2>3, <2>4, <2>5, <2>6 DEF BeganCall
  <1>5. CASE Start(w)
    <2>1. workers[w].pc = "start" /\ Free(w)
      BY <1>5 DEF Start, At, Free
    <2>2. JobOf(w) \in Job /\ RowOf(w) = jobs[JobOf(w)]
      BY <2>1, AtJob DEF Whole, HoldsJob
    <2>3. /\ StartDue(jobs[JobOf(w)], AttemptOf(w), clock)
          /\ Begin(StartTxn(w, JobOf(w))) /\ UNCHANGED workers
      BY <1>2, <1>5, <2>2 DEF Start
    <2>4. t = StartTxn(w, JobOf(w))
      BY <2>3 DEF Begin
    <2>5. /\ t.owner = w /\ Plain(t) /\ GrantsLease(t)
          /\ OwnShape("start", JobOf(w), AttemptOf(w), t)
      BY <1>1, <2>2, <2>3, <2>4, StartTxnShape
    <2>6. GoesOn(w) /\ workers'[w].pc = "start" /\ Begin(t)
      BY <2>1, <2>3, <2>4 DEF GoesOn
    <2>7. CallShape(w, t)'
      BY <2>5, <2>6, BegunShape DEF OwnCalls
    <2> QED
      BY <2>1, <2>3, <2>5, <2>6, <2>7 DEF BeganCall
  <1>6. CASE Heartbeat(w)
    <2>1. workers[w].pc \in {"running", "heartbeat"} /\ Free(w)
      BY <1>6 DEF Heartbeat, At, Free
    <2>2. JobOf(w) \in Job /\ RowOf(w) = jobs[JobOf(w)]
      BY <2>1, AtJob DEF Whole, HoldsJob
    <2>3. /\ HeldLive(jobs[JobOf(w)], AttemptOf(w), clock)
          /\ Begin(HeartbeatTxn(w, JobOf(w), AttemptOf(w), clock)) /\ Go(w, "heartbeat")
      BY <1>2, <1>6, <2>2 DEF Heartbeat
    <2>4. t = HeartbeatTxn(w, JobOf(w), AttemptOf(w), clock)
      BY <2>3 DEF Begin
    <2>5. /\ t.owner = w /\ Plain(t) /\ GrantsLease(t)
          /\ OwnShape("heartbeat", JobOf(w), AttemptOf(w), t)
      BY <1>1, <2>2, <2>3, <2>4, HeartbeatTxnShape
    <2>6. /\ GoesOn(w) /\ workers'[w].pc = "heartbeat" /\ Begin(t)
          /\ \A v \in Worker \ {w} : workers'[v] = workers[v]
      BY <1>1, <2>3, <2>4, GoFields DEF GoesOn
    <2>7. CallShape(w, t)'
      BY <2>5, <2>6, BegunShape DEF OwnCalls
    <2> QED
      BY <2>1, <2>5, <2>6, <2>7 DEF BeganCall
  <1>7. CASE Publish(w)
    <2>1. workers[w].pc = "publish" /\ Free(w)
      BY <1>7 DEF Publish, At, Free
    <2>2. /\ JobOf(w) \in Job /\ AttemptOf(w) \in AttemptNo
          /\ workers[w].result \in Outcomes
      BY <2>1, AtJob DEF Whole, HoldsJob, Manned, WorkersSound, WorkerSound
    <2>3. /\ Held(jobs[JobOf(w)], AttemptOf(w)) /\ UNCHANGED workers
          /\ \/ Begin(FinishCancelledTxn(w, JobOf(w), AttemptOf(w), clock))
             \/ Begin(PublishTxn(w, JobOf(w), AttemptOf(w), clock, workers[w].result))
      BY <1>2, <1>7 DEF Publish
    <2>4. \/ t = FinishCancelledTxn(w, JobOf(w), AttemptOf(w), clock) /\ Begin(t)
          \/ t = PublishTxn(w, JobOf(w), AttemptOf(w), clock, workers[w].result) /\ Begin(t)
      BY <2>3 DEF Begin
    <2>5. /\ t.owner = w /\ Plain(t) /\ GrantsLease(t)
          /\ OwnShape("publish", JobOf(w), AttemptOf(w), t)
      BY <1>1, <2>2, <2>3, <2>4, FinishCancelledTxnShape, PublishTxnShape
    <2>6. GoesOn(w) /\ workers'[w].pc = "publish" /\ Begin(t)
      BY <2>1, <2>3, <2>4 DEF GoesOn
    <2>7. CallShape(w, t)'
      BY <2>5, <2>6, BegunShape DEF OwnCalls
    <2> QED
      BY <2>1, <2>3, <2>5, <2>6, <2>7 DEF BeganCall
  <1>8. CASE AskToEnd(w)
    <2>1. EndAttempt(w, clock) /\ workers[w].pc \in {"release", "finish_cancelled"} /\ Free(w)
      BY <1>2, <1>8 DEF AskToEnd, At, Free
    <2> QED
      BY <1>1, <2>1, EndAttemptBegun
  <1>9. CASE EndWaited(w)
    <2>1. /\ EndAttempt(w, workers[w].asked) /\ Free(w)
          /\ workers[w].pc \in {"release", "finish_cancelled"} /\ workers[w].asked # Null
      BY <1>9 DEF EndWaited, At, Free
    <2>2. workers[w].asked \in Nat
      BY <2>1, AtDesk DEF WorkerState
    <2> QED
      BY <2>1, <2>2, EndAttemptBegun
  <1>10. BeginStep(w) \/ RunEnds(w) \/ RecordExecution(w) \/ JobStatus(w) => FALSE
    BY <1>2 DEF BeginStep, RunEnds, RecordExecution, JobStatus
  <1>11. (\E u \in open : Commit(w, u)) => FALSE
    BY DEF Commit, Install
  <1> QED
    BY <1>3, <1>4, <1>5, <1>6, <1>7, <1>8, <1>9, <1>10, <1>11 DEF WorkerStep

-----------------------------------------------------------------------------
(* What a step does to the tables, job by job.                             *)

SameLog(k) ==
    attempts'[k].worker_id = attempts[k].worker_id /\ attempts'[k].ended_by = attempts[k].ended_by

SameTables ==
    /\ jobs' = jobs /\ results' = results
    /\ \A k \in Job \X AttemptNo : SameLog(k)

\* A worker's transaction lands, and it has its answer or was struck there.
Landing(v, t) == t.owner = v /\ v \notin paused /\ Install(t) /\ (Answer(v, t) \/ FireAfterCommit(v, t))

LEMMA WorkTables ==
    ASSUME Whole, NEW w \in Worker, WorkerStep(w)
    PROVE  SameTables \/ \E t \in open : Commit(w, t)
  <1>1. UNCHANGED storeVars \/ (\E t : Begin(t)) => SameTables
    BY DEF storeVars, Begin, SameTables, SameLog
  <1>2. CASE RecordExecution(w)
    <2>1. /\ attempts' = [attempts EXCEPT ![<<JobOf(w), AttemptOf(w)>>].execution = TRUE]
          /\ jobs' = jobs /\ results' = results
      BY <1>2 DEF RecordExecution
    <2>2. attempts \in [Job \X AttemptNo -> AttemptRow]
      BY DEF Whole, Stored, StoreTypeOK
    <2>3. \A k \in Job \X AttemptNo : SameLog(k)
      BY <2>1, <2>2 DEF SameLog, AttemptRow
    <2> QED
      BY <2>1, <2>3 DEF SameTables
  <1>3. BeginStep(w) \/ Reap(w) \/ Claim(w) \/ Start(w) => SameTables
    BY <1>1 DEF BeginStep, Reap, Claim, Start
  <1>4. Heartbeat(w) \/ RunEnds(w) \/ JobStatus(w) => SameTables
    BY <1>1 DEF Heartbeat, RunEnds, JobStatus
  <1>5. Publish(w) => SameTables
    BY <1>1 DEF Publish
  <1>6. ASSUME NEW at, EndAttempt(w, at) PROVE SameTables
    BY <1>1, <1>6 DEF EndAttempt, EarlierAsk
  <1>7. AskToEnd(w) \/ EndWaited(w) => SameTables
    BY <1>1, <1>6 DEF AskToEnd, EndWaited
  <1> QED
    BY <1>2, <1>3, <1>4, <1>5, <1>7 DEF WorkerStep

LEMMA TableStep ==
    ASSUME LedgerInv, HarnessSound, [ChaosNext]_chaosVars
    PROVE  \/ SameTables \/ DriveRestart \/ DriveGhost
           \/ \E v \in Worker, t \in open : Landing(v, t)
           \/ \E j \in Job : DriveCancel(j)
  <1>1. Whole
    BY WholeSplit
  <1>2. UNCHANGED <<jobs, attempts, results>> => SameTables
    BY DEF SameTables, SameLog
  <1>3. ASSUME NEW w \in Worker, Work(w)
        PROVE  SameTables \/ \E t \in open : Landing(w, t)
    BY <1>1, <1>3, WorkTables DEF Work, Commit, Landing
  <1>4. ASSUME NEW w \in Worker, FireBefore(w) PROVE SameTables
    BY <1>2, <1>4 DEF FireBefore, Crash, storeVars
  <1>5. ASSUME NEW w \in Worker, Wake(w) PROVE SameTables
    BY <1>2, <1>5 DEF Wake, vars, storeVars
  <1>6. ASSUME NEW w \in Worker, NEW t \in open, FireBeforeCommit(w, t) PROVE SameTables
    BY <1>2, <1>6 DEF FireBeforeCommit, Crash, vars, storeVars
  <1>7. ASSUME NEW w \in Worker, NEW t \in open, FireAfterCommit(w, t) PROVE Landing(w, t)
    BY <1>7 DEF FireAfterCommit, AtCommit, Fires, Landing
  <1>8. ASSUME NEW w \in Worker, NEW t \in open, IdleOut(w, t) PROVE SameTables
    BY <1>2, <1>8 DEF IdleOut
  <1>9. ASSUME NEW t \in open, Rollback(t) PROVE SameTables
    BY <1>2, <1>9 DEF Rollback
  <1>10. ReplaceTheDead \/ StopAll \/ ChaosTick \/ UNCHANGED chaosVars => SameTables
    BY <1>2 DEF ReplaceTheDead, StopAll, ChaosTick, Tick, chaosVars, vars, storeVars
  <1> QED
    BY <1>3, <1>4, <1>5, <1>6, <1>7, <1>8, <1>9, <1>10 DEF ChaosNext

SameJob(j) ==
    /\ jobs'[j] = jobs[j] /\ ResultOf(j)' = ResultOf(j)
    /\ \A a \in AttemptNo : SameLog(<<j, a>>)

OthersSame(j, a) == \A b \in AttemptNo : b # a => SameLog(<<j, b>>)

\* v takes the job from the queue.
TakenBy(v, j) ==
    LET a == jobs[j].attempt + 1
    IN  /\ jobs[j].state = "queued" /\ jobs'[j].state = "claimed"
        /\ a \in AttemptNo /\ jobs'[j].attempt = a
        /\ attempts'[<<j, a>>].worker_id = v
        /\ OthersSame(j, a) /\ ResultOf(j)' = ResultOf(j)

\* v, whose job it is, has made a call for it.
MovedBy(v, j) ==
    LET a == jobs[j].attempt
    IN  /\ jobs[j].state \in LeasedStates /\ a \in AttemptNo /\ Has(v, j, a)
        /\ jobs'[j].attempt = a
        /\ attempts'[<<j, a>>].worker_id = attempts[<<j, a>>].worker_id
        /\ OthersSame(j, a)
        /\ \A r \in ResultOf(j)' : r \in ResultOf(j) \/ (r.attempt = a /\ r.worker_id = v)

\* A reap ends the job's lapsed attempt.
ReapedFrom(j) ==
    LET a == jobs[j].attempt
    IN  /\ Lapsed(jobs[j], clock) /\ a \in AttemptNo
        /\ jobs'[j].state \notin LeasedStates /\ jobs'[j].attempt = a
        /\ attempts'[<<j, a>>].worker_id = attempts[<<j, a>>].worker_id
        /\ attempts'[<<j, a>>].ended_by = "lease_expired"
        /\ OthersSame(j, a) /\ ResultOf(j)' = ResultOf(j)

\* The harness asks to cancel it.
AskedFor(j) ==
    /\ scenario.workload = "cancel"
    /\ jobs[j].state = "running" /\ jobs'[j].state = "running"
    /\ jobs'[j].attempt = jobs[j].attempt
    /\ jobs'[j].lease_expires_at = jobs[j].lease_expires_at
    /\ jobs'[j].cancel_requested_at # Null
    /\ \A a \in AttemptNo : SameLog(<<j, a>>)
    /\ ResultOf(j)' = ResultOf(j)

\* v is not stopped, and the call it awaits lands.
Awaited(v, t) == v \in Worker /\ t \in open /\ Landing(v, t)

JobStep(j) ==
    \/ SameJob(j) \/ ReapedFrom(j) \/ AskedFor(j)
    \/ \E v, t : Awaited(v, t) /\ workers[v].pc \in ClaimCalls /\ TakenBy(v, j)
    \/ \E v, t : Awaited(v, t) /\ MovedBy(v, j)
    \/ scenario.workload = "ghost" /\ TakenBy(Ghost, j)

\* What landing t does to a job.
LEMMA LandingRow ==
    ASSUME Whole, NEW t \in open, Install(t), NEW j \in Job
    PROVE  /\ j \notin DOMAIN t.rows => SameJob(j)
           /\ j \in DOMAIN t.rows => jobs'[j] = t.rows[j] /\ OthersSame(j, t.rows[j].attempt)
           /\ \A a \in AttemptNo :
                <<j, a>> \in DOMAIN t.logs => attempts'[<<j, a>>] = t.logs[<<j, a>>]
           /\ \A r \in ResultOf(j)' : r \in ResultOf(j) \/ r \in t.stored
           /\ t.stored = {} => ResultOf(j)' = ResultOf(j)
  <1>1. TxnOK(t) /\ TxnSound(t) /\ Booked(t)
    BY OpenFacts DEF Whole
  <1>2. /\ jobs' = [i \in Job |-> IF i \in DOMAIN t.rows THEN t.rows[i] ELSE jobs[i]]
        /\ attempts' = [k \in Job \X AttemptNo |->
                          IF k \in DOMAIN t.logs THEN t.logs[k] ELSE attempts[k]]
        /\ results' = results \union t.stored
    BY DEF Install
  <1>3. \A k \in DOMAIN t.logs : k[1] \in DOMAIN t.rows /\ k[2] = t.rows[k[1]].attempt
    BY <1>1 DEF Booked, WritesLatest
  <1>4. \A r \in t.stored : r.job_id \in DOMAIN t.rows
    BY <1>1 DEF TxnSound
  <1>5. \A a \in AttemptNo : <<j, a>> \notin DOMAIN t.logs => SameLog(<<j, a>>)
    BY <1>2 DEF SameLog
  <1>6. \A a \in AttemptNo : <<j, a>> \in DOMAIN t.logs => j \in DOMAIN t.rows /\ a = t.rows[j].attempt
    BY <1>3
  <1>7. j \notin DOMAIN t.rows => SameJob(j)
    <2>1. j \notin DOMAIN t.rows => jobs'[j] = jobs[j] /\ \A a \in AttemptNo : SameLog(<<j, a>>)
      BY <1>2, <1>5, <1>6
    <2>2. j \notin DOMAIN t.rows => ResultOf(j)' = ResultOf(j)
      BY <1>2, <1>4 DEF ResultOf
    <2> QED
      BY <2>1, <2>2 DEF SameJob
  <1>8. j \in DOMAIN t.rows => jobs'[j] = t.rows[j] /\ OthersSame(j, t.rows[j].attempt)
    BY <1>2, <1>5, <1>6 DEF OthersSame
  <1>9. \A a \in AttemptNo :
          <<j, a>> \in DOMAIN t.logs => attempts'[<<j, a>>] = t.logs[<<j, a>>]
    BY <1>2
  <1>10. /\ \A r \in ResultOf(j)' : r \in ResultOf(j) \/ r \in t.stored
         /\ t.stored = {} => ResultOf(j)' = ResultOf(j)
    BY <1>2 DEF ResultOf
  <1> QED
    BY <1>7, <1>8, <1>9, <1>10

\* A claimed attempt is at most the job's number, and keeps its holder.
LEMMA LeasedAttempt ==
    ASSUME Whole, Onward, NEW j \in Job, jobs[j].state \in LeasedStates
    PROVE  LET a == jobs[j].attempt
           IN  /\ a \in AttemptNo
               /\ attempts[<<j, a>>].ended_by = NotEnded
               /\ attempts'[<<j, a>>].worker_id = attempts[<<j, a>>].worker_id
  <1>1. Rows /\ RecordsSound
    BY DEF Whole, Stored, Rows, Books
  <1>2. jobs[j].attempt \in AttemptNo
    BY <1>1, HeldAttempt
  <1>3. attempts[<<j, jobs[j].attempt>>].claimed_at # Null /\ attempts[<<j, jobs[j].attempt>>].ended_by = NotEnded
    BY <1>1, HeldLedger
  <1> QED
    BY <1>2, <1>3 DEF Onward

LEMMA LandingSteps ==
    ASSUME Whole, Onward, ShapesSound,
           NEW v \in Worker, NEW t \in open, Landing(v, t), NEW j \in Job
    PROVE  JobStep(j)
  <1>1. Install(t) /\ t.owner = v /\ Awaited(v, t)
    BY DEF Landing, Awaited
  <1>2. CallShape(v, t) /\ AwaitedSound(v, t)
    BY <1>1 DEF ShapesSound, Whole, Desks, CallsSound
  <1>3. TxnOK(t) /\ TxnSound(t) /\ Booked(t)
    BY OpenFacts DEF Whole
  <1>4. CASE j \notin DOMAIN t.rows
    BY <1>1, <1>4, LandingRow DEF JobStep
  <1>5. CASE j \in DOMAIN t.rows
    <2>1. jobs'[j] = t.rows[j] /\ OthersSame(j, t.rows[j].attempt)
      BY <1>1, <1>5, LandingRow
    <2>2. CASE workers[v].pc \in OwnCalls /\ OwnShape(workers[v].pc, JobOf(v), AttemptOf(v), t)
      <3>1. /\ j = JobOf(v) /\ Held(jobs[j], AttemptOf(v)) /\ t.rows[j].attempt = AttemptOf(v)
        BY <1>5, <2>2 DEF OwnShape
      <3>2. jobs[j].state \in LeasedStates /\ jobs[j].attempt = AttemptOf(v)
        BY <3>1 DEF Held
      <3>3. Has(v, j, jobs[j].attempt)
        BY <2>2, <3>1, <3>2 DEF Has, OwnCalls, HoldsJob
      <3>4. \A r \in ResultOf(j)' : r \in ResultOf(j) \/ (r.attempt = AttemptOf(v) /\ r.worker_id = v)
        BY <1>1, <1>2, LandingRow DEF AwaitedSound
      <3>5. MovedBy(v, j)
        BY <2>1, <3>1, <3>2, <3>3, <3>4, LeasedAttempt DEF MovedBy
      <3> QED
        BY <1>1, <3>5 DEF JobStep
    <2>3. CASE workers[v].pc \in ClaimCalls /\ ClaimShape(t)
      <3>1. /\ jobs[j].state = "queued" /\ t.rows[j].state = "claimed"
            /\ t.rows[j].attempt = jobs[j].attempt + 1
        BY <1>5, <2>3 DEF ClaimShape
      <3>2. t.rows[j].attempt \in AttemptNo
        BY <1>1, <1>3, <1>5 DEF TxnSound
      <3>3. /\ t.stored = {}
            /\ <<j, t.rows[j].attempt>> \in DOMAIN t.logs
            /\ t.logs[<<j, t.rows[j].attempt>>].worker_id = v
        BY <1>2, <1>5, <2>3 DEF AwaitedSound, ClaimCalls
      <3>4. attempts'[<<j, t.rows[j].attempt>>].worker_id = v /\ ResultOf(j)' = ResultOf(j)
        BY <1>1, <3>2, <3>3, LandingRow
      <3>5. TakenBy(v, j)
        BY <2>1, <3>1, <3>2, <3>4 DEF TakenBy
      <3> QED
        BY <1>1, <2>3, <3>5 DEF JobStep
    <2>4. CASE workers[v].pc \in ReapCalls /\ ReapShape(t)
      <3> DEFINE a == jobs[j].attempt
      <3>1. /\ Lapsed(jobs[j], clock) /\ t.rows[j].attempt = a
            /\ t.rows[j].state \notin LeasedStates
            /\ <<j, a>> \in DOMAIN t.logs /\ t.logs[<<j, a>>].ended_by = "lease_expired"
        BY <1>5, <2>4 DEF ReapShape
      <3>2. jobs[j].state \in LeasedStates
        BY <3>1 DEF Lapsed
      <3>3. a \in AttemptNo /\ attempts'[<<j, a>>].worker_id = attempts[<<j, a>>].worker_id
        BY <3>2, LeasedAttempt
      <3>4. t.stored = {}
        BY <1>2, <2>4 DEF AwaitedSound, ReapCalls
      <3>5. attempts'[<<j, a>>].ended_by = "lease_expired" /\ ResultOf(j)' = ResultOf(j)
        BY <1>1, <3>1, <3>3, <3>4, LandingRow
      <3>6. ReapedFrom(j)
        BY <2>1, <3>1, <3>3, <3>5 DEF ReapedFrom
      <3> QED
        BY <3>6 DEF JobStep
    <2> QED
      BY <1>2, <2>2, <2>3, <2>4 DEF CallShape
  <1> QED
    BY <1>4, <1>5

LEMMA GhostSteps ==
    ASSUME LedgerInv, DriveGhost, NEW j \in Job
    PROVE  JobStep(j)
  <1>1. /\ Rows /\ jobs \in [Job -> JobRow] /\ attempts \in [Job \X AttemptNo -> AttemptRow]
    BY WholeSplit DEF Whole, Stored, Rows, StoreTypeOK
  <1>2. PICK i \in Job :
          /\ jobs[i].state = "queued"
          /\ jobs' = [jobs EXCEPT ![i] = [Claimed(jobs[i], clock) EXCEPT
                                             !.lease_expires_at = clock + GHOST_LEASE]]
          /\ attempts' = [attempts EXCEPT ![<<i, jobs[i].attempt + 1>>] =
                            [Opened(Ghost, clock) EXCEPT
                                !.lease_expires_at = clock + GHOST_LEASE]]
    BY DEF DriveGhost, Claimable
  <1>3. results' = results /\ scenario.workload = "ghost"
    BY DEF DriveGhost
  <1>4. ResultOf(j)' = ResultOf(j)
    BY <1>3 DEF ResultOf
  <1> DEFINE row == [Claimed(jobs[i], clock) EXCEPT !.lease_expires_at = clock + GHOST_LEASE]
             log == [Opened(Ghost, clock) EXCEPT !.lease_expires_at = clock + GHOST_LEASE]
             a == jobs[i].attempt + 1
  <1>5. /\ row.state = "claimed" /\ row.attempt = a /\ row.attempt \in AttemptNo
        /\ log.worker_id = Ghost
    BY <1>1, <1>2, GhostClaimFields
  <1> HIDE DEF row, log
  <1>6. jobs' = [jobs EXCEPT ![i] = row] /\ attempts' = [attempts EXCEPT ![<<i, a>>] = log]
    BY <1>2 DEF row, log
  <1> HIDE DEF a
  <1>7. CASE j # i
    BY <1>1, <1>4, <1>6, <1>7 DEF JobStep, SameJob, SameLog
  <1>8. CASE j = i
    <2>1. jobs'[i] = row /\ attempts'[<<i, a>>] = log /\ OthersSame(i, a)
      BY <1>1, <1>5, <1>6 DEF OthersSame, SameLog
    <2> QED
      BY <1>2, <1>3, <1>4, <1>5, <1>8, <2>1 DEF JobStep, TakenBy, a
  <1> QED
    BY <1>7, <1>8

LEMMA CancelSteps ==
    ASSUME LedgerInv, NEW i \in Job, DriveCancel(i), NEW j \in Job
    PROVE  JobStep(j)
  <1>1. jobs \in [Job -> JobRow] /\ clock \in Nat
    BY WholeSplit DEF Whole, Stored, StoreTypeOK
  <1>2. /\ jobs' = [jobs EXCEPT ![i] = CancelAsked(jobs[i], clock)]
        /\ jobs[i].state = "running" /\ scenario.workload = "cancel"
        /\ attempts' = attempts /\ results' = results
    BY DEF DriveCancel
  <1>3. ResultOf(j)' = ResultOf(j) /\ \A a \in AttemptNo : SameLog(<<j, a>>)
    BY <1>2 DEF ResultOf, SameLog
  <1>4. CASE j # i
    BY <1>1, <1>2, <1>3, <1>4 DEF JobStep, SameJob
  <1>5. CASE j = i
    <2>1. jobs'[i] = CancelAsked(jobs[i], clock)
      BY <1>1, <1>2
    <2>2. /\ CancelAsked(jobs[i], clock).state = "running"
          /\ CancelAsked(jobs[i], clock).attempt = jobs[i].attempt
          /\ CancelAsked(jobs[i], clock).lease_expires_at = jobs[i].lease_expires_at
          /\ CancelAsked(jobs[i], clock).cancel_requested_at # Null
      BY <1>1, <1>2, NullFacts DEF CancelAsked, JobRow
    <2> QED
      BY <1>2, <1>3, <1>5, <2>1, <2>2 DEF JobStep, AskedFor
  <1> QED
    BY <1>4, <1>5

\* What every step but a restart of Postgres does to a job.
LEMMA JobSteps ==
    ASSUME LedgerInv, HarnessSound, ShapesSound, [ChaosNext]_chaosVars, ~DriveRestart,
           NEW j \in Job
    PROVE  JobStep(j)
  <1>1. Whole /\ Onward
    BY WholeSplit, ChaosKept DEF Kept
  <1>2. SameTables => SameJob(j)
    BY DEF SameTables, SameJob, ResultOf
  <1>3. ASSUME NEW v \in Worker, NEW t \in open, Landing(v, t) PROVE JobStep(j)
    BY <1>1, <1>3, LandingSteps
  <1>4. ASSUME NEW i \in Job, DriveCancel(i) PROVE JobStep(j)
    BY <1>4, CancelSteps
  <1> QED
    BY <1>2, <1>3, <1>4, TableStep, GhostSteps DEF JobStep

-----------------------------------------------------------------------------
(* What a step does to a worker.                                           *)

\* A worker whose session is open is busy with it: it commits, or it waits.
LEMMA BusyStep ==
    ASSUME NEW w \in Worker, WorkerStep(w), NEW u \in open, u.owner = w
    PROVE  \E t \in open : Commit(w, t)
  <1>1. \A pc : ~At(w, pc)
    BY DEF At
  <1> QED
    BY <1>1 DEF WorkerStep, BeginStep, Reap, Claim, Start, Heartbeat, RunEnds,
       RecordExecution, Publish, JobStatus, AskToEnd, EndWaited

Same(w) ==
    /\ workers'[w].pc = workers[w].pc /\ workers'[w].job = workers[w].job
    /\ workers'[w].attempt = workers[w].attempt /\ workers'[w].result = workers[w].result

\* The sessions that are open after a step.
LEMMA OpenStep ==
    ASSUME LedgerInv, HarnessSound, ShapesSound, [ChaosNext]_chaosVars,
           NEW u \in open', u.owner \in Worker
    PROVE  \/ u \in open /\ Same(u.owner) /\ \A j \in DOMAIN u.rows : jobs'[j] = jobs[j]
           \/ u \notin open /\ Work(u.owner) /\ BeganCall(u.owner, u)
  <1> DEFINE o == u.owner
             Stays == u \in open /\ Same(o) /\ \A j \in DOMAIN u.rows : jobs'[j] = jobs[j]
             Begins == u \notin open /\ Work(o) /\ BeganCall(o, u)
  <1>1. Whole /\ NoWorker \notin Worker
    BY WholeSplit, WorkerAssumption
  <1>2. /\ \A t, s \in open : t.owner = s.owner /\ t.owner \in Worker => t = s
        /\ \A t \in open : t.owner \in Worker => workers[t.owner].pc # "down"
        /\ \A t \in open : TxnOK(t)
    BY <1>1 DEF Whole, Desks, CallsSound, Stored, StoreTypeOK, ShapesSound, CallShape, OwnCalls,
       ClaimCalls, ReapCalls
  <1>3. ASSUME NEW t \in open, Install(t) PROVE u \in open /\ u # t /\ \A j \in DOMAIN u.rows : jobs'[j] = jobs[j]
    <2>1. u \in open /\ u # t
      BY <1>3 DEF Install
    <2>2. \A j \in DOMAIN u.rows : j \in Job /\ j \notin DOMAIN t.rows
      BY <1>1, <1>2, <2>1 DEF Whole, Stored, LocksExclude, TxnOK
    <2> QED
      BY <1>3, <2>1, <2>2 DEF Install
  <1>4. ASSUME NEW w \in Worker, Abandon(w) PROVE u \in open /\ u.owner # w
    <2>1. PICK t \in open : u = IF t.owner = w THEN [t EXCEPT !.owner = NoWorker] ELSE t
      BY <1>4 DEF Abandon
    <2>2. CASE t.owner = w
      <3>1. u.owner = NoWorker
        BY <1>2, <2>1, <2>2 DEF TxnOK
      <3> QED
        BY <1>1, <3>1
    <2> QED
      BY <2>1, <2>2
  <1>5. ASSUME jobs' = jobs, workers' = workers, u \in open PROVE Stays
    BY <1>5 DEF Same
  <1>6. ASSUME NEW w \in Worker, \A v \in Worker \ {w} : workers'[v] = workers[v], o # w PROVE Same(o)
    BY <1>6 DEF Same
  <1>7. ASSUME NEW w \in Worker, Work(w) PROVE Stays \/ Begins
    <2>1. WorkerStep(w) /\ \A v \in Worker \ {w} : workers'[v] = workers[v]
      BY <1>1, <1>7, StepsAlone DEF Work
    <2>2. CASE u \notin open
      BY <1>1, <1>7, <2>1, <2>2, BegunCall DEF BeganCall
    <2>3. ASSUME u \in open, NEW t \in open, Commit(w, t) PROVE Stays
      BY <1>2, <1>3, <1>6, <2>1, <2>3 DEF Commit
    <2>4. CASE u \in open /\ ~\E t \in open : Commit(w, t)
      BY <1>1, <1>6, <2>1, <2>4, BusyStep, WorkTables DEF SameTables
    <2> QED
      BY <2>2, <2>3, <2>4
  <1>8. ASSUME NEW w \in Worker, Crash(w) PROVE Stays
    BY <1>1, <1>4, <1>6, <1>8, CrashFields DEF Crash, Whole
  <1>9. ASSUME NEW w \in Worker, FireBefore(w) PROVE Stays
    <2>1. CASE Crash(w)
      BY <1>8, <2>1
    <2>2. CASE Go(w, IF workers[w].pc = "running" THEN "heartbeat" ELSE workers[w].pc) /\ UNCHANGED storeVars
      <3>1. jobs' = jobs /\ u \in open /\ o # w
        BY <1>9, <2>2 DEF storeVars, FireBefore, AtBefore, At
      <3> QED
        BY <1>1, <1>6, <2>2, <3>1, GoFields DEF Whole
    <2> QED
      BY <1>9, <2>1, <2>2 DEF FireBefore
  <1>10. ASSUME NEW w \in Worker, NEW t \in open, FireBeforeCommit(w, t) PROVE Stays
    BY <1>5, <1>8, <1>10 DEF FireBeforeCommit, vars, storeVars
  <1>11. ASSUME NEW w \in Worker, NEW t \in open, FireAfterCommit(w, t) PROVE Stays
    <2>1. Install(t) /\ t.owner = w
      BY <1>11 DEF FireAfterCommit, AtCommit
    <2>2. o # w
      BY <1>2, <1>3, <2>1
    <2>3. \A v \in Worker \ {w} : workers'[v] = workers[v]
      BY <1>1, <1>11 DEF FireAfterCommit, Whole, Manned
    <2> QED
      BY <1>3, <1>6, <2>1, <2>2, <2>3
  <1>12. CASE ReplaceTheDead
    <2>1. PICK w \in Worker \ (started \union {Ghost}) : Go(w, "step")
      BY <1>12 DEF ReplaceTheDead
    <2>2. jobs' = jobs /\ u \in open
      BY <1>12 DEF ReplaceTheDead, storeVars
    <2>3. workers[w].pc = "down"
      BY <2>1 DEF HarnessSound, WorkerRecorded, Fresh
    <2>4. o # w
      BY <1>2, <2>2, <2>3
    <2> QED
      BY <1>1, <1>6, <2>1, <2>2, <2>4, GoFields DEF Whole
  <1>13. CASE DriveGhost
    <2>1. PICK i \in Job : /\ Unlocked(i)
                           /\ \E row : jobs' = [jobs EXCEPT ![i] = row]
      BY <1>13 DEF DriveGhost
    <2>2. open' = open /\ workers' = workers
      BY <1>13 DEF DriveGhost
    <2>3. jobs \in [Job -> JobRow] /\ \A j \in DOMAIN u.rows : j \in Job /\ j # i
      BY <1>1, <1>2, <2>1, <2>2 DEF Unlocked, TxnOK, Whole, Stored, StoreTypeOK
    <2> QED
      BY <2>1, <2>2, <2>3 DEF Same
  <1>14. ASSUME NEW i \in Job, DriveCancel(i) PROVE Stays
    <2>1. /\ Unlocked(i) /\ \E row : jobs' = [jobs EXCEPT ![i] = row]
          /\ open' = open /\ workers' = workers
      BY <1>14 DEF DriveCancel
    <2>2. jobs \in [Job -> JobRow] /\ \A j \in DOMAIN u.rows : j \in Job /\ j # i
      BY <1>1, <1>2, <2>1 DEF Unlocked, TxnOK, Whole, Stored, StoreTypeOK
    <2> QED
      BY <2>1, <2>2 DEF Same
  <1>15. CASE DriveRestart
    BY <1>15 DEF DriveRestart
  <1>16. ASSUME NEW w \in Worker, Wake(w) PROVE Stays
    BY <1>5, <1>16 DEF Wake, vars, storeVars
  <1>17. ASSUME NEW w \in Worker, NEW t \in open, IdleOut(w, t) PROVE Stays
    BY <1>5, <1>17 DEF IdleOut
  <1>18. ASSUME NEW t \in open, Rollback(t) PROVE Stays
    BY <1>5, <1>18 DEF Rollback
  <1>19. StopAll \/ ChaosTick \/ UNCHANGED chaosVars => Stays
    BY <1>5 DEF StopAll, ChaosTick, Tick, chaosVars, vars, storeVars
  <1> QED
    BY <1>7, <1>9, <1>10, <1>11, <1>12, <1>13, <1>14, <1>15, <1>16, <1>17, <1>18, <1>19
       DEF ChaosNext

-----------------------------------------------------------------------------
(* What a step does to the harness's records, and to time.                 *)

FiresOn(w) ==
    FireBefore(w) \/ \E t \in open : FireBeforeCommit(w, t) \/ FireAfterCommit(w, t)

LEMMA HarnessStep ==
    ASSUME LedgerInv, HarnessSound, [ChaosNext]_chaosVars
    PROVE  /\ scenario' = scenario
           /\ clock' = clock \/ ChaosTick
           /\ clock \in Nat /\ clock' \in Nat /\ clock <= clock'
           /\ faults' = faults \/ \E w \in Worker : FiresOn(w)
           /\ logs' = logs \/ \E w \in Worker : Work(w)
  <1> DEFINE Usual == /\ scenario' = scenario /\ clock' = clock
                      /\ faults' = faults /\ logs' = logs
  <1>1. clock \in Nat /\ clock' \in Nat
    BY ChaosKept DEF Kept, LedgerInv, IndInv, TypeOK, StoreTypeOK
  <1>2. ASSUME NEW w \in Worker, Work(w)
        PROVE  scenario' = scenario /\ clock' = clock /\ faults' = faults
    BY <1>2, StepClock DEF Work
  <1>3. ASSUME NEW w \in Worker, FiresOn(w)
        PROVE  scenario' = scenario /\ clock' = clock /\ logs' = logs
    <2>1. scenario' = scenario /\ logs' = logs
      BY <1>3 DEF FiresOn, FireBefore, FireBeforeCommit, FireAfterCommit, Fires
    <2>2. Crash(w) \/ UNCHANGED storeVars \/ (\E t : Install(t)) => clock' = clock
      BY DEF Crash, storeVars, Install
    <2>3. FireBefore(w) => clock' = clock
      BY <2>2 DEF FireBefore
    <2>4. ASSUME NEW t \in open, FireBeforeCommit(w, t) \/ FireAfterCommit(w, t)
          PROVE  clock' = clock
      BY <2>2, <2>4 DEF FireBeforeCommit, FireAfterCommit, vars
    <2> QED
      BY <1>3, <2>1, <2>3, <2>4 DEF FiresOn
  <1>4. ASSUME NEW w \in Worker, Wake(w) PROVE Usual
    BY <1>4 DEF Wake, vars, storeVars
  <1>5. ASSUME NEW w \in Worker, NEW t \in open, IdleOut(w, t) PROVE Usual
    BY <1>5 DEF IdleOut
  <1>6. ASSUME NEW t \in open, Rollback(t), UNCHANGED harnessVars PROVE Usual
    BY <1>6 DEF Rollback, harnessVars
  <1>7. ASSUME NEW j \in Job, DriveCancel(j) PROVE Usual
    BY <1>7 DEF DriveCancel
  <1>8. ReplaceTheDead \/ DriveGhost => Usual
    BY DEF ReplaceTheDead, DriveGhost, harnessVars, storeVars
  <1>9. DriveRestart \/ StopAll => Usual
    BY DEF DriveRestart, StopAll, vars, storeVars
  <1>10. ChaosTick => scenario' = scenario /\ faults' = faults /\ logs' = logs /\ clock <= clock'
    BY <1>1 DEF ChaosTick, harnessVars, Tick
  <1>11. UNCHANGED chaosVars => Usual
    BY DEF chaosVars, vars, storeVars
  <1>12. scenario' = scenario /\ (clock' = clock \/ ChaosTick)
    BY <1>2, <1>3, <1>4, <1>5, <1>6, <1>7, <1>8, <1>9, <1>10, <1>11 DEF ChaosNext, FiresOn
  <1>13. faults' = faults \/ \E w \in Worker : FiresOn(w)
    BY <1>2, <1>4, <1>5, <1>6, <1>7, <1>8, <1>9, <1>10, <1>11 DEF ChaosNext, FiresOn
  <1>14. logs' = logs \/ \E w \in Worker : Work(w)
    BY <1>3, <1>4, <1>5, <1>6, <1>7, <1>8, <1>9, <1>10, <1>11 DEF ChaosNext, FiresOn
  <1> QED
    BY <1>1, <1>10, <1>12, <1>13, <1>14

\* A fault that has struck stays as it was logged.
LEMMA StaysStruck ==
    ASSUME LedgerInv, HarnessSound, [ChaosNext]_chaosVars, NEW w \in Worker, Struck(w)
    PROVE  Struck(w)' /\ faults'[w] = faults[w]
  <1>1. ASSUME NEW v \in Worker, FiresOn(v) PROVE faults'[w] = faults[w]
    <2>1. PICK fault : Fires(v, fault)
      BY <1>1 DEF FiresOn, FireBefore, FireBeforeCommit, FireAfterCommit
    <2> QED
      BY <2>1, FiresFacts
  <1> QED
    BY <1>1, HarnessStep DEF Struck

\* A sound shape stays sound while its transaction stays open.
LEMMA ShapesKept ==
    ASSUME LedgerInv, HarnessSound, ShapesSound, [ChaosNext]_chaosVars
    PROVE  ShapesSound'
  <1> SUFFICES ASSUME NEW u \in open', u.owner \in Worker
               PROVE  CallShape(u.owner, u)'
    BY DEF ShapesSound
  <1>1. CASE u \notin open
    BY <1>1, OpenStep DEF BeganCall
  <1>2. CASE u \in open
    <2>1. /\ Same(u.owner) /\ \A j \in DOMAIN u.rows : jobs'[j] = jobs[j]
          /\ CallShape(u.owner, u)
      BY <1>2, OpenStep DEF ShapesSound
    <2>2. JobOf(u.owner)' = JobOf(u.owner) /\ AttemptOf(u.owner)' = AttemptOf(u.owner)
      BY <2>1 DEF Same, JobOf, AttemptOf
    <2>3. /\ clock \in Nat /\ clock' \in Nat /\ clock <= clock'
          /\ \A j \in DOMAIN u.rows : j \in Job /\ jobs[j].lease_expires_at \in Int
      BY <1>2, HarnessStep, WholeSplit, NullFacts DEF Whole, Stored, StoreTypeOK, TxnOK, JobRow
    <2>4. OwnShape(workers[u.owner].pc, JobOf(u.owner), AttemptOf(u.owner), u)
            => OwnShape(workers[u.owner].pc, JobOf(u.owner), AttemptOf(u.owner), u)'
      BY <2>1, <2>2 DEF OwnShape, Same
    <2>5. ClaimShape(u) => ClaimShape(u)'
      BY <2>1 DEF ClaimShape
    <2>6. ReapShape(u) => ReapShape(u)'
      BY <2>1, <2>3 DEF ReapShape, Lapsed
    <2> QED
      BY <2>1, <2>4, <2>5, <2>6 DEF CallShape, Same
  <1> QED
    BY <1>1, <1>2

-----------------------------------------------------------------------------
(* Cancels and leases.                                                     *)

\* The rows that are open after a step were open before, or are just written.
LEMMA OpenRows ==
    ASSUME LedgerInv, HarnessSound, [ChaosNext]_chaosVars, NEW u \in open'
    PROVE  \/ \E t \in open : u.rows = t.rows
           \/ Begin(u) /\ Plain(u)
  <1>1. Whole
    BY WholeSplit
  <1>2. open' \subseteq open => \E t \in open : u.rows = t.rows
    OBVIOUS
  <1>3. ASSUME NEW w \in Worker, Crash(w) PROVE \E t \in open : u.rows = t.rows
    <2>1. PICK t \in open : u = IF t.owner = w THEN [t EXCEPT !.owner = NoWorker] ELSE t
      BY <1>3 DEF Crash, Abandon
    <2>2. TxnOK(t)
      BY <1>1 DEF Whole, Stored, StoreTypeOK
    <2>3. [t EXCEPT !.owner = NoWorker].rows = t.rows
      BY <2>2 DEF TxnOK
    <2> QED
      BY <2>1, <2>3
  <1>4. ASSUME NEW w \in Worker, Work(w), u \notin open PROVE Begin(u) /\ Plain(u)
    BY <1>1, <1>4, BegunCall DEF Work, BeganCall
  <1>5. ASSUME NEW w \in Worker, FireBefore(w) PROVE \E t \in open : u.rows = t.rows
    BY <1>2, <1>3, <1>5 DEF FireBefore, storeVars
  <1>6. ASSUME NEW w \in Worker, NEW t \in open,
               FireBeforeCommit(w, t) \/ FireAfterCommit(w, t) \/ IdleOut(w, t)
        PROVE  \E s \in open : u.rows = s.rows
    BY <1>2, <1>3, <1>6
       DEF FireBeforeCommit, FireAfterCommit, IdleOut, Install, vars, storeVars
  <1>7. ASSUME NEW w \in Worker, Wake(w) PROVE \E t \in open : u.rows = t.rows
    BY <1>2, <1>7 DEF Wake, vars, storeVars
  <1>8. ASSUME NEW t \in open, Rollback(t) PROVE \E s \in open : u.rows = s.rows
    BY <1>2, <1>8 DEF Rollback
  <1>9. ASSUME NEW j \in Job, DriveCancel(j) PROVE \E s \in open : u.rows = s.rows
    BY <1>2, <1>9 DEF DriveCancel
  <1>10. ReplaceTheDead \/ DriveGhost \/ DriveRestart \/ StopAll \/ ChaosTick
            \/ UNCHANGED chaosVars => \E t \in open : u.rows = t.rows
    BY <1>2 DEF ReplaceTheDead, DriveGhost, DriveRestart, StopAll, ChaosTick, Tick,
       chaosVars, vars, storeVars
  <1> QED
    BY <1>4, <1>5, <1>6, <1>7, <1>8, <1>9, <1>10 DEF ChaosNext

\* Where a job's row comes from.
LEMMA RowStep ==
    ASSUME LedgerInv, HarnessSound, [ChaosNext]_chaosVars, NEW j \in Job
    PROVE  \/ jobs'[j] = jobs[j]
           \/ \E t \in open : j \in DOMAIN t.rows /\ jobs'[j] = t.rows[j]
           \/ /\ scenario.workload = "ghost"
              /\ jobs'[j].cancel_requested_at = jobs[j].cancel_requested_at
           \/ /\ scenario.workload = "cancel"
              /\ jobs'[j].lease_expires_at = jobs[j].lease_expires_at
  <1>1. jobs \in [Job -> JobRow] /\ Rows
    BY WholeSplit DEF Whole, Stored, StoreTypeOK, Rows
  <1>2. ASSUME NEW v \in Worker, NEW t \in open, Landing(v, t)
        PROVE  \/ jobs'[j] = jobs[j]
               \/ \E s \in open : j \in DOMAIN s.rows /\ jobs'[j] = s.rows[j]
    BY <1>2 DEF Landing, Install
  <1>3. CASE DriveRestart
    BY <1>3 DEF DriveRestart
  <1>4. CASE DriveGhost
    <2>1. PICK i \in Job :
            /\ jobs[i].state = "queued"
            /\ jobs' = [jobs EXCEPT ![i] = [Claimed(jobs[i], clock) EXCEPT
                                               !.lease_expires_at = clock + GHOST_LEASE]]
      BY <1>4 DEF DriveGhost, Claimable
    <2>2. [Claimed(jobs[i], clock) EXCEPT !.lease_expires_at = clock + GHOST_LEASE].cancel_requested_at
            = jobs[i].cancel_requested_at
      BY <1>1, <2>1, GhostClaimFields
    <2>3. scenario.workload = "ghost"
      BY <1>4 DEF DriveGhost
    <2>4. jobs'[j] = jobs[j] \/ jobs'[j].cancel_requested_at = jobs[j].cancel_requested_at
      BY <1>1, <2>1, <2>2
    <2> QED
      BY <2>3, <2>4
  <1>5. ASSUME NEW i \in Job, DriveCancel(i)
        PROVE  /\ scenario.workload = "cancel"
               /\ jobs'[j].lease_expires_at = jobs[j].lease_expires_at
    <2>1. jobs' = [jobs EXCEPT ![i] = CancelAsked(jobs[i], clock)] /\ scenario.workload = "cancel"
      BY <1>5 DEF DriveCancel
    <2>2. CancelAsked(jobs[i], clock).lease_expires_at = jobs[i].lease_expires_at
      BY <1>1 DEF CancelAsked, JobRow
    <2> QED
      BY <1>1, <2>1, <2>2
  <1>6. SameTables => jobs'[j] = jobs[j]
    BY DEF SameTables
  <1> QED
    BY <1>2, <1>3, <1>4, <1>5, <1>6, TableStep

LEMMA CancelsKept ==
    ASSUME LedgerInv, HarnessSound, RowsSound, [ChaosNext]_chaosVars, scenario.workload # "cancel"
    PROVE  NoCancel'
  <1>1. NoCancel
    BY DEF RowsSound
  <1>2. \A t \in open : TxnOK(t)
    BY WholeSplit DEF Whole, Stored, StoreTypeOK
  <1>3. ASSUME NEW j \in Job PROVE jobs'[j].cancel_requested_at = Null
    BY <1>1, RowStep DEF NoCancel
  <1>4. ASSUME NEW u \in open', NEW j \in DOMAIN u.rows PROVE u.rows[j].cancel_requested_at = Null
    <2>1. CASE \E t \in open : u.rows = t.rows
      BY <1>1, <2>1 DEF NoCancel
    <2>2. CASE Begin(u) /\ Plain(u)
      <3>1. j \in Job
        BY ChaosKept DEF Kept, LedgerInv, IndInv, TypeOK, StoreTypeOK, TxnOK
      <3> QED
        BY <1>1, <2>2, <3>1 DEF Plain, NoCancel
    <2> QED
      BY <2>1, <2>2, OpenRows
  <1> QED
    BY <1>3, <1>4 DEF NoCancel

LEMMA BoundsKept ==
    ASSUME LedgerInv, HarnessSound, RowsSound, [ChaosNext]_chaosVars, scenario.workload # "ghost"
    PROVE  LeasesBounded'
  <1>1. LeasesBounded
    BY DEF RowsSound
  <1>2. /\ clock \in Nat /\ clock' \in Nat /\ clock <= clock' /\ Lease \in Nat
        /\ \A j \in Job : jobs[j].lease_expires_at \in Int
        /\ \A t \in open : \A j \in DOMAIN t.rows : t.rows[j].lease_expires_at \in Int
    BY HarnessStep, WholeSplit, LeaseAssumption, NullFacts
       DEF Whole, Stored, StoreTypeOK, TxnOK, JobRow
  <1>3. ASSUME NEW j \in Job PROVE jobs'[j].lease_expires_at <= clock' + Lease
    <2>1. jobs'[j].lease_expires_at <= clock + Lease /\ jobs'[j].lease_expires_at \in Int
      BY <1>1, <1>2, RowStep DEF LeasesBounded
    <2> QED
      BY <1>2, <2>1
  <1>4. ASSUME NEW u \in open', NEW j \in DOMAIN u.rows
        PROVE  u.rows[j].lease_expires_at <= clock' + Lease
    <2>1. CASE \E t \in open : u.rows = t.rows
      <3>1. u.rows[j].lease_expires_at <= clock + Lease /\ u.rows[j].lease_expires_at \in Int
        BY <1>1, <1>2, <2>1 DEF LeasesBounded
      <3> QED
        BY <1>2, <3>1
    <2>2. CASE Begin(u) /\ Plain(u)
      <3>1. j \in Job
        BY ChaosKept DEF Kept, LedgerInv, IndInv, TypeOK, StoreTypeOK, TxnOK
      <3>2. jobs[j].lease_expires_at <= clock + Lease /\ jobs[j].lease_expires_at \in Int
        BY <1>1, <1>2, <3>1 DEF LeasesBounded
      <3>3. u.rows[j].lease_expires_at \in {Null, jobs[j].lease_expires_at, clock + Lease}
        BY <2>2 DEF Plain
      <3> QED
        BY <1>2, <3>2, <3>3, NullFacts
    <2> QED
      BY <2>1, <2>2, OpenRows
  <1> QED
    BY <1>3, <1>4 DEF LeasesBounded

LEMMA RowsKept ==
    ASSUME LedgerInv, HarnessSound, RowsSound, [ChaosNext]_chaosVars
    PROVE  RowsSound'
  BY CancelsKept, BoundsKept, HarnessStep DEF RowsSound

-----------------------------------------------------------------------------
(* What a step does to a worker: nothing, its own step, or a fault's.      *)

LEMMA WorkerMoves ==
    ASSUME LedgerInv, HarnessSound, [ChaosNext]_chaosVars, NEW w \in Worker
    PROVE  \/ Same(w)
           \/ Work(w)
           \/ FiresOn(w) /\ scenario.action = "kill" /\ workers'[w] = Fresh("down")
           \/ /\ FireBefore(w) /\ scenario.action # "kill" /\ GoesOn(w) /\ UNCHANGED storeVars
              /\ workers[w].pc = "running" /\ workers'[w].pc = "heartbeat"
           \/ workers[w].pc = "down" /\ workers'[w].pc = "step" /\ ReplaceTheDead
  <1>1. Whole /\ Manned
    BY WholeSplit DEF Whole
  <1>2. workers'[w] = workers[w] => Same(w)
    BY DEF Same
  <1>3. ASSUME NEW v \in Worker, Work(v), v # w PROVE Same(w)
    BY <1>1, <1>2, <1>3, StepsAlone DEF Work
  <1>4. ASSUME NEW v \in Worker, Crash(v), v # w PROVE Same(w)
    BY <1>1, <1>2, <1>4, CrashFields
  <1>5. CASE /\ FireBefore(w) /\ scenario.action # "kill"
             /\ Go(w, IF workers[w].pc = "running" THEN "heartbeat" ELSE workers[w].pc)
             /\ UNCHANGED storeVars
    BY <1>1, <1>5, GoFields DEF Same, GoesOn
  <1>6. CASE FireBefore(w) /\ scenario.action = "kill" /\ Crash(w)
    BY <1>1, <1>6, CrashFields DEF FiresOn
  <1>7. ASSUME NEW v \in Worker, FireBefore(v), v # w PROVE Same(w)
    BY <1>1, <1>2, <1>4, <1>7, GoFields DEF FireBefore
  <1>8. ASSUME NEW v \in Worker, NEW t \in open, FireBeforeCommit(v, t)
        PROVE  Same(w) \/ (v = w /\ scenario.action = "kill" /\ Crash(w))
    BY <1>2, <1>4, <1>8 DEF FireBeforeCommit, vars
  <1>9. ASSUME NEW t \in open, FireBeforeCommit(w, t), scenario.action = "kill", Crash(w)
        PROVE  FiresOn(w) /\ workers'[w] = Fresh("down")
    BY <1>1, <1>9, CrashFields DEF FiresOn
  <1>10. ASSUME NEW v \in Worker, NEW t \in open, FireAfterCommit(v, t)
         PROVE  Same(w) \/ (FiresOn(w) /\ scenario.action = "kill" /\ workers'[w] = Fresh("down"))
    <2>1. CASE UNCHANGED workers
      BY <1>2, <2>1
    <2>2. CASE scenario.action = "kill" /\ workers' = [workers EXCEPT ![v] = Fresh("down")]
      BY <1>1, <1>2, <1>10, <2>2 DEF Manned, FiresOn
    <2> QED
      BY <1>10, <2>1, <2>2 DEF FireAfterCommit
  <1>11. CASE ReplaceTheDead
    <2>1. PICK v \in Worker \ (started \union {Ghost}) : Go(v, "step")
      BY <1>11 DEF ReplaceTheDead
    <2>2. workers[v].pc = "down"
      BY <2>1 DEF HarnessSound, WorkerRecorded, Fresh
    <2> QED
      BY <1>1, <1>2, <1>11, <2>1, <2>2, GoFields
  <1>12. CASE DriveRestart
    BY <1>1, <1>12 DEF DriveRestart, Same, Manned, WorkerState
  <1>13. ASSUME NEW j \in Job, DriveCancel(j) PROVE Same(w)
    BY <1>2, <1>13 DEF DriveCancel
  <1>14. ASSUME NEW v \in Worker, Wake(v) PROVE Same(w)
    BY <1>2, <1>14 DEF Wake, vars
  <1>15. ASSUME NEW v \in Worker, NEW t \in open, IdleOut(v, t) PROVE Same(w)
    BY <1>2, <1>15 DEF IdleOut
  <1>16. ASSUME NEW t \in open, Rollback(t) PROVE Same(w)
    BY <1>2, <1>16 DEF Rollback
  <1>17. DriveGhost \/ StopAll \/ ChaosTick \/ UNCHANGED chaosVars => Same(w)
    BY <1>2 DEF DriveGhost, StopAll, ChaosTick, Tick, chaosVars, vars
  <1>18. CASE FireBefore(w)
    BY <1>5, <1>6, <1>18 DEF FireBefore
  <1> QED
    BY <1>3, <1>7, <1>8, <1>9, <1>10, <1>11, <1>12, <1>13, <1>14, <1>15, <1>16, <1>17, <1>18
       DEF ChaosNext

LEMMA NoRestart ==
    ASSUME PlanSound, scenario.action # "restart"
    PROVE  ~DriveRestart
  BY DEF PlanSound, DriveRestart

LEMMA PlanKept ==
    ASSUME LedgerInv, HarnessSound, PlanSound, [ChaosNext]_chaosVars
    PROVE  PlanSound'
  <1>1. scenario' = scenario
    BY HarnessStep
  <1>2. plan' = plan => PlanSound'
    BY <1>1 DEF PlanSound
  <1>3. CASE ReplaceTheDead
    <2>1. plan' = plan \/ plan' = [plan EXCEPT !.arms = @ - 1]
      BY <1>3 DEF ReplaceTheDead
    <2>2. plan' = [arms |-> plan'.arms, restarts |-> plan.restarts]
      BY <2>1 DEF PlanSound
    <2> QED
      BY <1>1, <2>2 DEF PlanSound
  <1>4. CASE DriveRestart
    <2>1. plan' = [plan EXCEPT !.restarts = @ - 1] /\ scenario.action = "restart"
      BY <1>4, NoRestart DEF DriveRestart
    <2>2. plan' = [arms |-> plan.arms, restarts |-> plan'.restarts]
      BY <2>1 DEF PlanSound
    <2> QED
      BY <1>1, <2>1, <2>2 DEF PlanSound
  <1>5. ASSUME NEW w \in Worker,
               Work(w) \/ FireBefore(w) \/ Wake(w)
                 \/ \E t \in open : FireBeforeCommit(w, t) \/ FireAfterCommit(w, t) \/ IdleOut(w, t)
        PROVE  plan' = plan
    BY <1>5 DEF Work, FireBefore, Wake, FireBeforeCommit, FireAfterCommit, IdleOut, Fires
  <1>6. (\E j \in Job : DriveCancel(j)) \/ DriveGhost \/ StopAll \/ ChaosTick
           \/ UNCHANGED harnessVars \/ UNCHANGED chaosVars => plan' = plan
    BY DEF DriveCancel, DriveGhost, StopAll, ChaosTick, harnessVars, chaosVars
  <1> QED
    BY <1>2, <1>3, <1>4, <1>5, <1>6 DEF ChaosNext

-----------------------------------------------------------------------------
(* Leases that are kept.                                                   *)

\* A healthy worker that is up is started, and nothing stops it.
LEMMA HealthyRuns ==
    ASSUME HarnessSound, NEW w \in Worker, Healthy(w), workers[w].pc # "down"
    PROVE  w \in Running \ paused
  <1>1. WorkerRecorded(w)
    BY DEF HarnessSound
  <1> QED
    BY <1>1 DEF WorkerRecorded, Healthy, Running, Fresh

LEMMA StaysHealthy ==
    ASSUME LedgerInv, HarnessSound, [ChaosNext]_chaosVars, NEW w \in Worker, Healthy(w)'
    PROVE  Healthy(w)
  BY StaysStruck, HarnessStep DEF Healthy

LEMMA GrantsKept ==
    ASSUME LedgerInv, HarnessSound, ShapesSound, LeasesKept, [ChaosNext]_chaosVars, Steady,
           NEW u \in open', u.owner \in Worker, Healthy(u.owner)'
    PROVE  GrantsLease(u)'
  <1>1. CASE u \notin open
    <2>1. BeganCall(u.owner, u)
      BY <1>1, OpenStep
    <2>2. GrantsLease(u) /\ clock' = clock
      BY <2>1 DEF BeganCall, Begin
    <2> QED
      BY <2>2 DEF GrantsLease
  <1>2. CASE u \in open
    <2>1. Healthy(u.owner) /\ GrantsLease(u)
      BY <1>2, StaysHealthy DEF LeasesKept
    <2>2. workers[u.owner].pc # "down"
      BY <1>2 DEF ShapesSound, CallShape, OwnCalls, ClaimCalls, ReapCalls
    <2>3. u.owner \in Running \ paused
      BY <2>1, <2>2, HealthyRuns
    <2>4. ~ChaosTick
      BY <1>2, <2>3 DEF ChaosTick, OnTime
    <2>5. clock' = clock
      BY <2>4, HarnessStep
    <2> QED
      BY <2>1, <2>5 DEF GrantsLease
  <1> QED
    BY <1>1, <1>2

\* An answer moves its worker on.
LEMMA AnswerMoves ==
    ASSUME Manned, NEW w \in Worker, NEW t, Answer(w, t)
    PROVE  workers'[w].pc # workers[w].pc
  BY AnswerFields DEF AfterReap, OwnCalls, ClaimCalls, ReapCalls, Reported

\* Two workers never hold one attempt.
LEMMA OneHolder ==
    ASSUME Whole, NEW v \in Worker, NEW w \in Worker, NEW j, NEW a, Has(v, j, a), Has(w, j, a)
    PROVE  v = w
  BY AtDesk DEF Has

\* The lease of a worker that does nothing stands.
LEMMA LeaseStands ==
    ASSUME LedgerInv, HarnessSound, PlanSound, ShapesSound, [ChaosNext]_chaosVars, Steady,
           NEW w \in Worker, Healthy(w), KeepsLease(w), Same(w)
    PROVE  KeepsLease(w)'
  <1> SUFFICES ASSUME workers[w].pc \in HoldsJob
               PROVE  KeepsLease(w)'
    BY DEF KeepsLease, Same
  <1> DEFINE j == JobOf(w)
             a == AttemptOf(w)
  <1>1. Whole /\ Manned /\ j \in Job
    BY WholeSplit, AtDesk DEF Whole
  <1>2. HeldLive(jobs[j], a, clock) /\ jobs[j].state \in LeasedStates /\ jobs[j].attempt = a
    BY DEF KeepsLease, RowOf, HeldLive, Held
  <1>3. JobOf(w)' = j /\ AttemptOf(w)' = a
    BY DEF Same, JobOf, AttemptOf
  <1>4. ~DriveRestart
    BY NoRestart DEF Steady
  <1>5. jobs'[j] = jobs[j]
    <2>1. JobStep(j)
      BY <1>1, <1>4, JobSteps
    <2>2. ~ReapedFrom(j)
      BY <1>1, <1>2 DEF ReapedFrom, Lapsed, HeldLive, Whole, Stored, StoreTypeOK, JobRow, Null
    <2>3. ~AskedFor(j)
      BY DEF AskedFor, Steady
    <2>4. \A v : ~TakenBy(v, j)
      BY <1>2 DEF TakenBy, LeasedStates
    <2>5. ASSUME NEW v, NEW t, Awaited(v, t), MovedBy(v, j) PROVE FALSE
      <3>1. v = w
        BY <1>1, <1>2, <2>5, OneHolder DEF MovedBy, Awaited, Has
      <3>2. ~FireAfterCommit(w, t)
        BY DEF FireAfterCommit, Steady
      <3>3. Answer(w, t)
        BY <2>5, <3>1, <3>2 DEF Awaited, Landing
      <3> QED
        BY <1>1, <3>3, AnswerMoves DEF Same
    <2> QED
      BY <2>1, <2>2, <2>3, <2>4, <2>5 DEF JobStep, SameJob
  <1>6. HeldLive(jobs[j], a, clock')
    <2>1. CASE clock' = clock
      BY <1>2, <2>1
    <2>2. CASE ChaosTick
      <3>1. w \in Running \ paused
        BY HealthyRuns DEF HoldsJob
      <3>2. workers[w].pc = "running" /\ jobs[j].lease_expires_at > clock + 1
        BY <1>2, <2>2, <3>1 DEF ChaosTick, OnTime, RowOf, HeldLive, HoldsJob
      <3> QED
        BY <1>2, <2>2, <3>2 DEF ChaosTick, Tick, HeldLive
    <2> QED
      BY <2>1, <2>2, HarnessStep
  <1> QED
    BY <1>3, <1>5, <1>6 DEF KeepsLease, Same, RowOf, HeldLive, Held

\* A worker that goes on with its claim keeps its lease if its row does.
LEMMA KeepsOn ==
    ASSUME NEW w \in Worker, GoesOn(w), clock' = clock,
           workers'[w].pc \in {"start", "running", "heartbeat", "record", "publish"},
           workers'[w].pc # "record",
           HeldLive(jobs'[JobOf(w)], AttemptOf(w), clock)
    PROVE  KeepsLease(w)'
  BY DEF GoesOn, KeepsLease, RowOf, JobOf, AttemptOf, HeldLive, Held

LEMMA StartKeeps ==
    ASSUME Whole, RowsSound, Steady, NEW w \in Worker, KeepsLease(w), Start(w)
    PROVE  KeepsLease(w)'
  <1>1. workers[w].pc = "start" /\ JobOf(w) \in Job /\ HeldLive(RowOf(w), AttemptOf(w), clock)
    BY AtDesk DEF Start, At, KeepsLease, HoldsJob
  <1>2. RowOf(w).cancel_requested_at = Null
    BY <1>1 DEF RowsSound, Steady, NoCancel, RowOf
  <1>3. CASE StartDue(RowOf(w), AttemptOf(w), clock)
    BY <1>1, <1>3, KeepsOn DEF Start, Begin, RowOf, GoesOn
  <1>4. CASE ~StartDue(RowOf(w), AttemptOf(w), clock)
    <2>1. AlreadyStarted(RowOf(w), AttemptOf(w), clock)
      BY <1>1, <1>2, <1>4 DEF StartDue, AlreadyStarted, HeldLive, Held, LeasedStates
    <2>2. Go(w, "running") /\ UNCHANGED storeVars
      BY <1>4, <2>1 DEF Start
    <2> QED
      BY <1>1, <2>2, GoFields, KeepsOn DEF Whole, GoesOn, storeVars, RowOf
  <1> QED
    BY <1>3, <1>4

LEMMA HeartbeatKeeps ==
    ASSUME Whole, NEW w \in Worker, KeepsLease(w), Heartbeat(w)
    PROVE  KeepsLease(w)'
  <1>1. HeldLive(RowOf(w), AttemptOf(w), clock)
    BY DEF Heartbeat, At, KeepsLease, HoldsJob
  <1>2. Go(w, "heartbeat") /\ clock' = clock /\ jobs' = jobs
    BY <1>1 DEF Heartbeat, Begin
  <1> QED
    BY <1>1, <1>2, GoFields, KeepsOn DEF Whole, GoesOn, RowOf

LEMMA RunEndsKeeps ==
    ASSUME Whole, Steady, NEW w \in Worker, KeepsLease(w), RunEnds(w), RunsAsPlanned(w)
    PROVE  KeepsLease(w)'
  <1>1. workers[w].pc = "running" /\ HeldLive(RowOf(w), AttemptOf(w), clock)
    BY DEF RunEnds, At, KeepsLease, HoldsJob
  <1>2. PICK result \in Outcomes \union {RunnerError} :
            \E pc \in {"record", AfterRun(result)} :
               workers' = [workers EXCEPT ![w].pc = pc, ![w].result = result]
    BY DEF RunEnds
  <1>6. PICK pc \in {"record", AfterRun(result)} :
            workers' = [workers EXCEPT ![w].pc = pc, ![w].result = result]
    BY <1>2
  <1>3. /\ workers'[w].pc = pc /\ workers'[w].result = result
        /\ workers'[w].job = workers[w].job /\ workers'[w].attempt = workers[w].attempt
    BY <1>6 DEF Whole, Manned, WorkerState
  <1>4. result # RunnerError
    <2>1. result = RunnerError => EndsRun(w)
      BY <1>1, <1>3 DEF EndsRun, RunnerError
    <2> QED
      BY <1>3, <2>1 DEF RunsAsPlanned, Steady
  <1>5. pc \in {"record", "publish"}
    BY <1>4, <1>6 DEF AfterRun
  <1> QED
    BY <1>1, <1>3, <1>4, <1>5 DEF RunEnds, KeepsLease, storeVars, RowOf, JobOf, AttemptOf, HeldLive, Held

LEMMA RecordKeeps ==
    ASSUME Whole, NEW w \in Worker, KeepsLease(w), RecordExecution(w)
    PROVE  KeepsLease(w)'
  <1>1. workers[w].result # RunnerError /\ HeldLive(RowOf(w), AttemptOf(w), clock)
    BY DEF RecordExecution, At, KeepsLease, HoldsJob
  <1>2. Go(w, "publish") /\ clock' = clock /\ jobs' = jobs
    BY <1>1 DEF RecordExecution, AfterRun
  <1> QED
    BY <1>1, <1>2, GoFields, KeepsOn DEF Whole, GoesOn, RowOf

LEMMA PublishKeeps ==
    ASSUME Whole, NEW w \in Worker, KeepsLease(w), Publish(w)
    PROVE  KeepsLease(w)'
  <1>1. workers[w].pc = "publish" /\ HeldLive(RowOf(w), AttemptOf(w), clock)
    BY DEF Publish, At, KeepsLease, HoldsJob
  <1>2. workers' = workers /\ clock' = clock /\ jobs' = jobs
    BY <1>1 DEF Publish, Begin, RowOf, HeldLive
  <1> QED
    BY <1>1, <1>2, KeepsOn DEF GoesOn, RowOf

LEMMA CommitKeeps ==
    ASSUME Whole, RowsSound, ShapesSound, Steady,
           NEW w \in Worker, KeepsLease(w), NEW t \in open, GrantsLease(t), Commit(w, t)
    PROVE  KeepsLease(w)'
  <1> DEFINE j == JobOf(w)
             a == AttemptOf(w)
  <1>1. CallShape(w, t) /\ Answer(w, t) /\ Manned
    BY DEF ShapesSound, Commit, Whole
  <1>2. /\ DOMAIN t.rows \subseteq Job
        /\ clock' = clock /\ \A i \in DOMAIN t.rows : i \in Job => jobs'[i] = t.rows[i]
    BY DEF Commit, Install, Whole, Stored, StoreTypeOK, TxnOK
  <1>3. CASE workers[w].pc \in ReapCalls
    <2>1. workers'[w].pc \notin HoldsJob
      BY <1>1, <1>3, AnswerFields DEF AfterReap, HoldsJob
    <2> QED
      BY <2>1 DEF KeepsLease
  <1>4. CASE workers[w].pc \in ClaimCalls
    <2>1. ClaimShape(t)
      BY <1>1, <1>4 DEF CallShape, ClaimCalls, OwnCalls, ReapCalls
    <2>2. PICK i \in Job : DOMAIN t.rows = {i} /\ t.rows[i].state = "claimed"
      BY <2>1 DEF ClaimShape
    <2>3. /\ workers'[w].job = i /\ workers'[w].attempt = t.rows[i].attempt
          /\ workers'[w].pc = "start"
      BY <1>1, <1>4, <2>2, AnswerFields
    <2>4. jobs'[i].lease_expires_at > clock /\ jobs'[i] = t.rows[i]
      BY <1>2, <2>2 DEF GrantsLease, LeasedStates
    <2> QED
      BY <1>2, <2>2, <2>3, <2>4
         DEF KeepsLease, RowOf, JobOf, AttemptOf, HeldLive, Held, LeasedStates
  <1>5. CASE workers[w].pc \in OwnCalls
    <2>1. OwnShape(workers[w].pc, j, a, t)
      BY <1>1, <1>5 DEF CallShape, ClaimCalls, OwnCalls, ReapCalls
    <2>2. workers[w].pc \in {"start", "heartbeat", "publish"} /\ j \in Job
      BY <1>5, AtDesk DEF KeepsLease, HoldsJob, OwnCalls
    <2>3. t.rows[j].cancel_requested_at = Null
      BY <2>1 DEF RowsSound, Steady, NoCancel, OwnShape
    <2>4. CASE workers[w].pc \in {"start", "heartbeat"}
      <3>1. HeldLive(jobs'[j], a, clock)
        BY <1>2, <2>1, <2>2, <2>4 DEF OwnShape, HeldLive, Held, GrantsLease
      <3>2. GoesOn(w) /\ workers'[w].pc = "running"
        BY <1>1, <2>3, <2>4, AnswerFields
      <3> QED
        BY <1>2, <3>1, <3>2, KeepsOn
    <2>5. CASE workers[w].pc = "publish"
      <3>1. t.stored # {}
        <4> SUFFICES ASSUME t.stored = {} PROVE FALSE
          OBVIOUS
        <4>1. t.rows[j].state = "cancelled" /\ j \in DOMAIN t.rows
          BY <2>1, <2>5 DEF OwnShape
        <4>2. EndSound(j, t.rows[j])
          BY <4>1 DEF Whole, Books, TxnsSound, LeavesRecords
        <4> QED
          BY <2>3, <4>1, <4>2 DEF EndSound
      <3>2. workers'[w].pc = "step"
        BY <1>1, <2>5, <3>1, AnswerFields DEF Reported
      <3> QED
        BY <3>2 DEF KeepsLease, HoldsJob
    <2> QED
      BY <2>2, <2>4, <2>5
  <1> QED
    BY <1>1, <1>3, <1>4, <1>5, AnswerFields

\* A step that leaves a worker with no job.
LEMMA IdleKeeps ==
    ASSUME Whole, NEW w \in Worker, BeginStep(w) \/ Reap(w) \/ Claim(w)
    PROVE  KeepsLease(w)'
  <1>1. CASE UNCHANGED workers
    <2>1. workers[w].pc \notin HoldsJob
      BY DEF BeginStep, Reap, Claim, At, HoldsJob
    <2> QED
      BY <1>1, <2>1 DEF KeepsLease
  <1>2. ASSUME NEW pc \in {"timer_reap", "claim", "idle_reap", "reclaim", "step"}, Go(w, pc)
        PROVE  KeepsLease(w)'
    <2>1. workers'[w].pc = pc
      BY <1>2, GoFields DEF Whole
    <2> QED
      BY <2>1 DEF KeepsLease, HoldsJob
  <1> QED
    BY <1>1, <1>2 DEF BeginStep, Reap, Claim, AfterReap, AfterNoClaim

LEMMA WorkKeeps ==
    ASSUME LedgerInv, RowsSound, ShapesSound, LeasesKept, Steady,
           NEW w \in Worker, Healthy(w), Work(w)
    PROVE  KeepsLease(w)'
  <1>1. Whole /\ KeepsLease(w) /\ WorkerStep(w) /\ RunsAsPlanned(w)
    BY WholeSplit DEF LeasesKept, Work
  <1>2. ~JobStatus(w) /\ ~AskToEnd(w) /\ ~EndWaited(w)
    BY <1>1 DEF JobStatus, AskToEnd, EndWaited, At, KeepsLease, HoldsJob
  <1>3. ASSUME NEW t \in open, Commit(w, t) PROVE KeepsLease(w)'
    <2>1. GrantsLease(t)
      BY <1>3 DEF Commit, LeasesKept
    <2> QED
      BY <1>1, <1>3, <2>1, CommitKeeps
  <1> QED
    BY <1>1, <1>2, <1>3, IdleKeeps, StartKeeps, HeartbeatKeeps, RunEndsKeeps, RecordKeeps,
       PublishKeeps DEF WorkerStep

\* A worker that nothing has stopped keeps its lease, whatever step is taken.
LEMMA LeasesStayKept ==
    ASSUME LedgerInv, HarnessSound, PlanSound, RowsSound, ShapesSound, LeasesKept,
           [ChaosNext]_chaosVars
    PROVE  LeasesKept'
  <1> SUFFICES ASSUME Steady'
               PROVE  LeasesKept'
    BY DEF LeasesKept
  <1>1. Steady /\ scenario' = scenario
    BY HarnessStep DEF Steady, Moment
  <1>2. ASSUME NEW w \in Worker, Healthy(w)' PROVE KeepsLease(w)'
    <2>1. Healthy(w) /\ KeepsLease(w) /\ Whole /\ Manned
      BY <1>1, <1>2, StaysHealthy, WholeSplit DEF LeasesKept, Whole
    <2>2. CASE Same(w)
      BY <1>1, <2>1, <2>2, LeaseStands
    <2>3. CASE Work(w)
      BY <1>1, <2>1, <2>3, WorkKeeps
    <2>4. CASE workers'[w] = Fresh("down") \/ workers'[w].pc = "step"
      BY <2>4 DEF KeepsLease, HoldsJob, Fresh
    <2>5. CASE /\ FireBefore(w) /\ scenario.action # "kill" /\ GoesOn(w) /\ UNCHANGED storeVars
               /\ workers[w].pc = "running" /\ workers'[w].pc = "heartbeat"
      BY <2>1, <2>5, KeepsOn DEF KeepsLease, HoldsJob, storeVars, RowOf
    <2> QED
      BY <2>2, <2>3, <2>4, <2>5, WorkerMoves
  <1>3. \A u \in open' : u.owner \in Worker /\ Healthy(u.owner)' => GrantsLease(u)'
    BY <1>1, GrantsKept
  <1> QED
    BY <1>2, <1>3 DEF LeasesKept

-----------------------------------------------------------------------------
(* The ghost's jobs and the workers'.                                      *)

\* A worker that keeps its lease gives its job up by a result of it alone.
Publishes(w) ==
    /\ jobs'[JobOf(w)].state \notin LeasedStates
    /\ \E r \in results' : r.job_id = JobOf(w) /\ r.attempt = AttemptOf(w)

LEMMA HolderCommits ==
    ASSUME Whole, ShapesSound, NEW w \in Worker, KeepsLease(w), workers[w].pc \in HoldsJob,
           NEW t \in open, Commit(w, t)
    PROVE  (GoesOn(w) /\ workers'[w].pc \in HoldsJob) \/ Publishes(w)
  <1>1. CallShape(w, t) /\ Answer(w, t) /\ Manned /\ JobOf(w) \in Job
    BY AtDesk DEF ShapesSound, Commit, Whole
  <1>2. workers[w].pc \in {"start", "heartbeat", "publish"}
    BY <1>1 DEF CallShape, KeepsLease, HoldsJob, OwnCalls, ClaimCalls, ReapCalls
  <1>3. JobOf(w) \in DOMAIN t.rows
    BY <1>1, <1>2 DEF CallShape, OwnShape, ClaimCalls, ReapCalls
  <1>4. CASE workers[w].pc = "publish" /\ t.stored # {}
    <2>1. \E r \in t.stored : r.job_id = JobOf(w) /\ r.attempt = AttemptOf(w) /\ r \in ResultRow
                               /\ t.rows[r.job_id].state = r.outcome
      <3>1. PICK r \in t.stored : TRUE
        BY <1>4
      <3>2. r.job_id = JobOf(w) /\ r.attempt = AttemptOf(w)
        BY <1>4 DEF Whole, Desks, CallsSound, AwaitedSound, Commit
      <3>3. TxnOK(t) /\ TxnSound(t)
        BY DEF Whole, Stored, StoreTypeOK, PendingSound
      <3> QED
        BY <3>1, <3>2, <3>3 DEF TxnOK, TxnSound
    <2>2. t.rows[JobOf(w)].state \in ResultStates
      BY <2>1 DEF ResultRow
    <2> QED
      BY <1>1, <1>3, <2>1, <2>2 DEF Commit, Install, ResultStates, LeasedStates, Publishes
  <1>5. CASE ~(workers[w].pc = "publish" /\ t.stored # {})
    BY <1>1, <1>2, <1>5, AnswerFields DEF HoldsJob
  <1> QED
    BY <1>4, <1>5

LEMMA HolderWorks ==
    ASSUME Whole, ShapesSound, NEW w \in Worker, KeepsLease(w), workers[w].pc \in HoldsJob,
           WorkerStep(w)
    PROVE  \/ /\ workers'[w].job = workers[w].job /\ workers'[w].attempt = workers[w].attempt
              /\ workers'[w].pc \in HoldsJob
           \/ Publishes(w)
  <1>1. /\ workers[w].pc \in {"start", "running", "heartbeat", "record", "publish"}
        /\ HeldLive(RowOf(w), AttemptOf(w), clock) /\ Manned
    BY DEF KeepsLease, Whole
  <1>2. ~BeginStep(w) /\ ~Reap(w) /\ ~Claim(w) /\ ~JobStatus(w) /\ ~AskToEnd(w) /\ ~EndWaited(w)
    BY <1>1 DEF BeginStep, Reap, Claim, JobStatus, AskToEnd, EndWaited, At
  <1>3. ASSUME UNCHANGED workers
        PROVE  /\ workers'[w].job = workers[w].job /\ workers'[w].attempt = workers[w].attempt
               /\ workers'[w].pc \in HoldsJob
    BY <1>3
  <1>4. ASSUME NEW pc \in HoldsJob, Go(w, pc)
        PROVE  /\ workers'[w].job = workers[w].job /\ workers'[w].attempt = workers[w].attempt
               /\ workers'[w].pc \in HoldsJob
    BY <1>1, <1>4, GoFields
  <1>5. CASE Start(w)
    BY <1>3, <1>4, <1>5 DEF Start, HoldsJob
  <1>6. CASE Heartbeat(w)
    BY <1>1, <1>4, <1>6 DEF Heartbeat, HoldsJob
  <1>7. CASE RunEnds(w)
    BY <1>1, <1>7 DEF RunEnds, AfterRun, HoldsJob, Manned, WorkerState
  <1>8. CASE RecordExecution(w)
    BY <1>4, <1>8 DEF RecordExecution, AfterRun, HoldsJob
  <1>9. CASE Publish(w)
    BY <1>1, <1>3, <1>4, <1>9 DEF Publish, RowOf, HeldLive, HoldsJob
  <1>10. ASSUME NEW t \in open, Commit(w, t)
         PROVE  \/ GoesOn(w) /\ workers'[w].pc \in HoldsJob
                \/ Publishes(w)
    BY <1>10, HolderCommits
  <1> QED
    BY <1>2, <1>5, <1>6, <1>7, <1>8, <1>9, <1>10 DEF WorkerStep, GoesOn

\* A claim that is answered gives its worker the job.
LEMMA ClaimAnswered ==
    ASSUME Whole, ShapesSound, NEW v \in Worker, NEW t \in open, Install(t), Answer(v, t),
           t.owner = v, workers[v].pc \in ClaimCalls, NEW j \in Job,
           NEW a, a = jobs[j].attempt + 1, jobs'[j].attempt = a
    PROVE  Has(v, j, a)'
  <1>1. CallShape(v, t) /\ Manned
    BY DEF ShapesSound, Whole
  <1>2. ClaimShape(t)
    BY <1>1 DEF CallShape, ClaimCalls, OwnCalls, ReapCalls
  <1>3. PICK i \in Job : DOMAIN t.rows = {i}
    BY <1>2 DEF ClaimShape
  <1>4. jobs[j].attempt \in Nat
    BY DEF Whole, Stored, StoreTypeOK, JobRow
  <1>5. i = j
    <2>1. j \notin DOMAIN t.rows => jobs'[j] = jobs[j]
      BY DEF Install
    <2> QED
      BY <1>3, <1>4, <2>1
  <1>6. /\ workers'[v].job = j /\ workers'[v].attempt = t.rows[j].attempt
        /\ workers'[v].pc = "start"
    BY <1>1, <1>3, <1>5, AnswerFields
  <1>7. jobs'[j] = t.rows[j]
    BY <1>3, <1>5 DEF Install
  <1> QED
    BY <1>6, <1>7 DEF Has, JobOf, AttemptOf, HoldsJob

\* In a ghost's scenario a kill strikes reaps alone, so no holder is struck.
LEMMA GhostRuns ==
    ASSUME HarnessSound, scenario.workload = "ghost"
    PROVE  /\ Steady /\ scenario.action = "kill" /\ Moment = "before_commit"
           /\ workers[Ghost].pc = "down"
           /\ \A w \in Worker : workers[w].pc \in HoldsJob => Healthy(w) /\ ~FiresOn(w)
  <1>1. scenario.point = <<"reap", "before_commit">> /\ scenario.action = "kill"
    BY RunsScenario DEF ScenarioSound
  <1>2. \A w \in Worker : WorkerRecorded(w)
    BY DEF HarnessSound
  <1>3. Ghost \in Worker /\ Ghost \notin started
    BY GhostAssumption DEF HarnessSound
  <1>4. workers[Ghost].pc = "down"
    BY <1>2, <1>3 DEF WorkerRecorded, Fresh
  <1>5. ASSUME NEW w \in Worker, workers[w].pc \in HoldsJob PROVE Healthy(w) /\ ~FiresOn(w)
    <2>1. workers[w].pc # "down" /\ workers[w].pc \notin {"timer_reap", "idle_reap"}
      BY <1>5 DEF HoldsJob
    <2>2. Healthy(w)
      BY <1>1, <1>2, <2>1 DEF WorkerRecorded, Healthy, Fresh
    <2>3. ~AtCall(w)
      BY <1>1, <2>1 DEF AtCall, CallPCs
    <2> QED
      BY <2>2, <2>3 DEF FiresOn, FireBefore, FireBeforeCommit, FireAfterCommit, AtBefore, AtCommit
  <1> QED
    BY <1>1, <1>4, <1>5 DEF Steady, Moment

\* Its holder keeps a job for as long as the job is leased.
LEMMA HolderStays ==
    ASSUME LedgerInv, HarnessSound, ShapesSound, LeasesKept, [ChaosNext]_chaosVars,
           scenario.workload = "ghost",
           NEW w \in Worker, NEW j, NEW a, Has(w, j, a), jobs'[j].state \in LeasedStates
    PROVE  Has(w, j, a)'
  <1>1. Steady /\ Healthy(w) /\ ~FiresOn(w) /\ KeepsLease(w) /\ Whole
    BY GhostRuns, WholeSplit DEF Has, LeasesKept
  <1>2. Same(w) \/ Work(w)
    BY <1>1, WorkerMoves DEF Has, HoldsJob, FiresOn
  <1>3. CASE Same(w)
    BY <1>3 DEF Same, Has, JobOf, AttemptOf
  <1>4. CASE Work(w)
    BY <1>1, <1>4, HolderWorks DEF Work, Has, JobOf, AttemptOf, Publishes
  <1> QED
    BY <1>2, <1>3, <1>4

LEMMA GhostsKept ==
    ASSUME LedgerInv, HarnessSound, PlanSound, ShapesSound, LeasesKept, GhostsSound,
           [ChaosNext]_chaosVars
    PROVE  GhostsSound'
  <1> SUFFICES ASSUME scenario.workload = "ghost"
               PROVE  GhostsSound'
    BY HarnessStep DEF GhostsSound
  <1>1. /\ Steady /\ scenario.action = "kill" /\ Moment = "before_commit"
        /\ workers[Ghost].pc = "down" /\ ~DriveRestart /\ Whole /\ Onward
    BY GhostRuns, NoRestart, ChaosKept, WholeSplit DEF Kept
  <1>2. \A v, t : Awaited(v, t) =>
            /\ v # Ghost /\ v \in Worker /\ t \in open /\ Install(t) /\ Answer(v, t)
            /\ t.owner = v
    <2> SUFFICES ASSUME NEW v, NEW t, Awaited(v, t)
                 PROVE  v # Ghost /\ Answer(v, t)
      BY DEF Awaited, Landing
    <2>1. Answer(v, t)
      BY <1>1 DEF Awaited, Landing, FireAfterCommit
    <2> QED
      BY <1>1, <2>1, AnswerFields
         DEF Awaited, Whole, OwnCalls, ClaimCalls, ReapCalls
  <1>3. ASSUME NEW j \in Job, jobs'[j].state \in LeasedStates
        PROVE  \/ attempts'[<<j, jobs'[j].attempt>>].worker_id = Ghost
               \/ \E w \in Worker : Has(w, j, jobs[j].attempt)'
    <2>1. JobStep(j)
      BY <1>1, JobSteps
    <2>2. CASE jobs[j].state \in LeasedStates /\ jobs'[j].attempt = jobs[j].attempt
      <3>1. attempts'[<<j, jobs[j].attempt>>].worker_id = attempts[<<j, jobs[j].attempt>>].worker_id
        BY <1>1, <2>2, LeasedAttempt
      <3>2. \A w \in Worker : Has(w, j, jobs[j].attempt) => Has(w, j, jobs[j].attempt)'
        BY <1>3, <2>2, HolderStays DEF Has
      <3> QED
        BY <2>2, <3>1, <3>2 DEF GhostsSound
    <2>3. ASSUME NEW v, NEW t, Awaited(v, t), workers[v].pc \in ClaimCalls, TakenBy(v, j)
          PROVE  Has(v, j, jobs[j].attempt)'
      BY <1>1, <1>2, <2>3, ClaimAnswered DEF TakenBy, Has
    <2>4. CASE TakenBy(Ghost, j)
      BY <2>4 DEF TakenBy
    <2> QED
      BY <1>1, <1>2, <1>3, <2>1, <2>2, <2>3, <2>4
         DEF JobStep, SameJob, ReapedFrom, AskedFor, MovedBy, LeasedStates
  <1>4. ASSUME NEW j \in Job, NEW b \in AttemptNo, attempts'[<<j, b>>].worker_id = Ghost
        PROVE  attempts'[<<j, b>>].ended_by \in {NotEnded, "lease_expired"}
    <2>1. JobStep(j)
      BY <1>1, JobSteps
    <2>2. CASE SameLog(<<j, b>>)
      BY <1>4, <2>2 DEF GhostsSound, SameLog
    <2>3. CASE ReapedFrom(j)
      BY <2>2, <2>3 DEF ReapedFrom, OthersSame
    <2>4. ASSUME NEW v, v # Ghost, TakenBy(v, j) PROVE SameLog(<<j, b>>)
      BY <1>4, <2>4 DEF TakenBy, OthersSame
    <2>5. CASE TakenBy(Ghost, j)
      <3>1. b = jobs'[j].attempt \/ SameLog(<<j, b>>)
        BY <2>5 DEF TakenBy, OthersSame
      <3>2. LedgerSound(jobs'[j], Logs(j)', clock')
        BY ChaosKept DEF Kept, LedgerInv, RecordsSound
      <3>3. b = jobs'[j].attempt => attempts'[<<j, b>>].ended_by = NotEnded
        BY <2>5, <3>2 DEF LedgerSound, LatestSound, Logs, TakenBy, LeasedStates
      <3> QED
        BY <2>2, <3>1, <3>3
    <2>6. ASSUME NEW v, NEW t, Awaited(v, t), MovedBy(v, j) PROVE SameLog(<<j, b>>)
      <3>1. attempts[<<j, jobs[j].attempt>>].worker_id = v /\ v # Ghost
        BY <1>1, <1>2, <2>6, AtDesk DEF MovedBy, Has
      <3> QED
        BY <1>4, <2>6, <3>1 DEF MovedBy, OthersSame
    <2> QED
      BY <1>1, <1>2, <1>4, <2>1, <2>2, <2>3, <2>4, <2>5, <2>6 DEF JobStep, SameJob, AskedFor
  <1> QED
    BY <1>3, <1>4 DEF GhostsSound

-----------------------------------------------------------------------------
(* Who has a job, and what was logged of it.                               *)

\* A worker's claim stays as it is but for another claim.
LEMMA ClaimStands ==
    ASSUME Whole, NEW w \in Worker, WorkerStep(w)
    PROVE  \/ workers'[w].job = workers[w].job /\ workers'[w].attempt = workers[w].attempt
           \/ \E t \in open : Commit(w, t) /\ workers[w].pc \in ClaimCalls
  <1> DEFINE Goes == /\ workers'[w].job = workers[w].job
                     /\ workers'[w].attempt = workers[w].attempt
  <1> HIDE DEF Goes
  <1>1. Manned
    BY DEF Whole
  <1>2. UNCHANGED workers => Goes
    BY DEF Goes
  <1>3. ASSUME NEW pc, Go(w, pc) PROVE Goes
    BY <1>1, <1>3, GoFields DEF Goes
  <1>4. ASSUME NEW what, Report(w, what) PROVE Goes
    BY <1>1, <1>4, ReportFields DEF Goes
  <1>5. CASE RunEnds(w)
    BY <1>1, <1>5 DEF RunEnds, Manned, WorkerState, Goes
  <1>6. CASE AskToEnd(w) \/ EndWaited(w)
    <2>1. CASE workers' = [workers EXCEPT ![w].asked = clock]
      BY <1>1, <2>1 DEF Manned, WorkerState, Goes
    <2>2. EarlierAsk(w) => Goes
      BY <1>4 DEF EarlierAsk
    <2>3. ASSUME NEW at, EndAttempt(w, at) PROVE Goes
      BY <1>2, <2>2, <2>3 DEF EndAttempt
    <2> QED
      BY <1>6, <2>1, <2>3 DEF AskToEnd, EndWaited, Goes
  <1>7. ASSUME NEW t \in open, Commit(w, t), workers[w].pc \notin ClaimCalls PROVE Goes
    BY <1>1, <1>7, AnswerFields DEF Goes, GoesOn, Reported, Commit, OwnCalls, ReapCalls
  <1>8. BeginStep(w) \/ Reap(w) \/ Claim(w) \/ Start(w) \/ Heartbeat(w) => Goes
    BY <1>2, <1>3, <1>4 DEF BeginStep, Reap, Claim, Start, Heartbeat
  <1>9. RecordExecution(w) \/ Publish(w) \/ JobStatus(w) => Goes
    BY <1>2, <1>3, <1>4 DEF RecordExecution, Publish, JobStatus
  <1> QED
    BY <1>5, <1>6, <1>7, <1>8, <1>9 DEF WorkerStep, Goes

\* A worker goes on with its claim, or has just made it.
LEMMA ClaimsOn ==
    ASSUME Whole, NEW w \in Worker, WorkerStep(w), workers'[w].pc \in HoldsJob
    PROVE  \/ /\ workers'[w].job = workers[w].job /\ workers'[w].attempt = workers[w].attempt
              /\ workers[w].pc \in HoldsJob
           \/ \E t \in open : Commit(w, t) /\ workers[w].pc \in ClaimCalls
  <1> DEFINE Goes == /\ workers'[w].job = workers[w].job
                     /\ workers'[w].attempt = workers[w].attempt
  <1> HIDE DEF Goes
  <1>1. Manned
    BY DEF Whole
  <1>2. UNCHANGED workers \/ (\E pc \in PC : Go(w, pc)) => Goes
    BY <1>1, GoFields DEF Goes
  <1>3. ASSUME NEW what, Report(w, what) PROVE FALSE
    BY <1>1, <1>3, ReportFields DEF HoldsJob
  <1>4. ASSUME BeginStep(w) \/ Reap(w) \/ Claim(w) PROVE FALSE
    <2>1. UNCHANGED workers => workers'[w].pc \notin HoldsJob
      BY <1>4 DEF BeginStep, Reap, Claim, At, HoldsJob
    <2>2. ASSUME NEW pc \in {"timer_reap", "claim", "idle_reap", "reclaim", "step"}, Go(w, pc)
          PROVE FALSE
      BY <1>1, <2>2, GoFields DEF HoldsJob
    <2> QED
      BY <1>4, <2>1, <2>2 DEF BeginStep, Reap, Claim, AfterReap, AfterNoClaim
  <1>5. CASE Start(w)
    BY <1>2, <1>5 DEF Start, At, HoldsJob, PC, Calls, Goes
  <1>6. CASE Heartbeat(w)
    BY <1>2, <1>3, <1>6 DEF Heartbeat, At, HoldsJob, PC, Calls, Goes
  <1>7. CASE RunEnds(w)
    BY <1>1, <1>7 DEF RunEnds, At, HoldsJob, Manned, WorkerState
  <1>8. CASE RecordExecution(w)
    BY <1>2, <1>8 DEF RecordExecution, At, AfterRun, HoldsJob, PC, Calls, Goes
  <1>9. CASE Publish(w)
    BY <1>2, <1>3, <1>9 DEF Publish, At, HoldsJob, PC, Calls, Goes
  <1>10. ~JobStatus(w)
    BY <1>3 DEF JobStatus
  <1>11. CASE AskToEnd(w) \/ EndWaited(w)
    <2>1. workers[w].pc \in HoldsJob
      BY <1>11 DEF AskToEnd, EndWaited, At, HoldsJob
    <2>2. CASE UNCHANGED workers
      BY <2>1, <2>2
    <2>3. CASE workers' = [workers EXCEPT ![w].asked = clock]
      BY <1>1, <2>1, <2>3 DEF Manned, WorkerState
    <2> QED
      BY <1>3, <1>11, <2>2, <2>3 DEF AskToEnd, EndWaited, EndAttempt, EarlierAsk
  <1>12. ASSUME NEW t \in open, Commit(w, t), workers[w].pc \notin ClaimCalls
         PROVE  Goes /\ workers[w].pc \in HoldsJob
    BY <1>1, <1>12, AnswerFields
       DEF Goes, GoesOn, Reported, Commit, HoldsJob, OwnCalls, ReapCalls, AfterReap
  <1> QED
    BY <1>4, <1>5, <1>6, <1>7, <1>8, <1>9, <1>10, <1>11, <1>12 DEF WorkerStep, Goes

LEMMA HasStep ==
    ASSUME LedgerInv, HarnessSound, ShapesSound, [ChaosNext]_chaosVars,
           NEW w \in Worker, NEW j, NEW a, Has(w, j, a)'
    PROVE  \/ Has(w, j, a)
           \/ /\ Work(w) /\ workers[w].pc \in ClaimCalls
              /\ \E t \in open : Commit(w, t)
              /\ j \in Job /\ a = jobs[j].attempt + 1
              /\ jobs[j].state = "queued" /\ jobs'[j].attempt = a
  <1>1. Whole /\ Manned /\ workers'[w].pc \in HoldsJob
    BY WholeSplit DEF Whole, Has
  <1>2. CASE Same(w)
    BY <1>2 DEF Same, Has, JobOf, AttemptOf
  <1>3. CASE Work(w) /\ workers'[w].job = workers[w].job
               /\ workers'[w].attempt = workers[w].attempt /\ workers[w].pc \in HoldsJob
    BY <1>3 DEF Has, JobOf, AttemptOf
  <1>4. ASSUME Work(w), NEW t \in open, Commit(w, t), workers[w].pc \in ClaimCalls
        PROVE  /\ j \in Job /\ a = jobs[j].attempt + 1
               /\ jobs[j].state = "queued" /\ jobs'[j].attempt = a
    <2>1. CallShape(w, t) /\ Answer(w, t)
      BY <1>4 DEF ShapesSound, Commit
    <2>2. ClaimShape(t)
      BY <1>4, <2>1 DEF CallShape, ClaimCalls, OwnCalls, ReapCalls
    <2>3. PICK i \in Job : /\ DOMAIN t.rows = {i} /\ jobs[i].state = "queued"
                           /\ t.rows[i].attempt = jobs[i].attempt + 1
      BY <2>2 DEF ClaimShape
    <2>4. workers'[w].job = i /\ workers'[w].attempt = t.rows[i].attempt
      BY <1>1, <1>4, <2>1, <2>3, AnswerFields
    <2>5. jobs'[i] = t.rows[i]
      BY <1>4, <2>3 DEF Commit, Install
    <2> QED
      BY <2>3, <2>4, <2>5 DEF Has, JobOf, AttemptOf
  <1>5. ~(workers'[w] = Fresh("down") \/ workers'[w].pc = "step")
    BY <1>1 DEF HoldsJob, Fresh
  <1>6. CASE FireBefore(w) /\ GoesOn(w) /\ workers[w].pc = "running"
    BY <1>6 DEF GoesOn, Has, JobOf, AttemptOf, HoldsJob
  <1>7. CASE Work(w)
    BY <1>1, <1>3, <1>4, <1>7, ClaimsOn DEF Work
  <1> QED
    BY <1>2, <1>5, <1>6, <1>7, WorkerMoves

LEMMA LogsKept ==
    ASSUME LedgerInv, HarnessSound, ShapesSound, LogsSound, [ChaosNext]_chaosVars
    PROVE  LogsSound'
  <1>1. Whole /\ Manned /\ Onward
    BY WholeSplit, ChaosKept DEF Whole, Kept
  <1>2. \A j \in Job : jobs[j].attempt \in Int /\ jobs'[j].attempt \in Int
                          /\ jobs[j].attempt <= jobs'[j].attempt
    BY <1>1, ChaosKept DEF Whole, Onward, Kept, LedgerInv, IndInv, TypeOK, StoreTypeOK, JobRow
  <1>3. ASSUME NEW w \in Worker, NEW j, NEW a, ~Has(w, j, a),
               j \in Job => a \in AttemptNo /\ a <= jobs[j].attempt
        PROVE  /\ ~Has(w, j, a)'
               /\ j \in Job => a \in AttemptNo /\ a <= jobs'[j].attempt
    BY <1>2, <1>3, HasStep DEF AttemptNo
  <1>4. ASSUME NEW entry \in logs
        PROVE  /\ entry[1] \in Worker /\ ~Has(entry[1], entry[3], entry[4])'
               /\ entry[3] \in Job => entry[4] \in AttemptNo /\ entry[4] <= jobs'[entry[3]].attempt
    BY <1>3 DEF LogsSound
  <1>5. ASSUME NEW w \in Worker, NEW entry \in Logged(w)
        PROVE  /\ entry[1] \in Worker /\ ~Has(entry[1], entry[3], entry[4])'
               /\ entry[3] \in Job => entry[4] \in AttemptNo /\ entry[4] <= jobs'[entry[3]].attempt
    <2>1. PICK what : entry = <<w, what, JobOf(w), AttemptOf(w)>>
      BY <1>5 DEF Logged
    <2>2. workers'[w].pc = "step"
      BY <1>5 DEF Logged
    <2>3. ~Has(w, entry[3], entry[4])'
      BY <2>2 DEF Has, HoldsJob
    <2>4. JobOf(w) \in Job => AttemptOf(w) \in AttemptNo /\ AttemptOf(w) <= jobs[JobOf(w)].attempt
      BY <1>1, AtDesk DEF WorkerLedger
    <2>5. entry[1] = w /\ entry[3] = JobOf(w) /\ entry[4] = AttemptOf(w)
      BY <2>1
    <2> QED
      BY <1>2, <2>3, <2>4, <2>5 DEF AttemptNo
  <1>6. \A entry \in logs' : entry \in logs \/ \E w \in Worker : entry \in Logged(w)
    BY HarnessStep DEF Work
  <1> QED
    BY <1>4, <1>5, <1>6 DEF LogsSound

-----------------------------------------------------------------------------
(* What a fired failpoint logs.                                            *)

\* One of several, if there is only one.
LEMMA TheOne == ASSUME NEW j, NEW S, S = {j} PROVE (CHOOSE x \in S : TRUE) = j
  OBVIOUS

\* At a claim, the job and its next attempt.
ClaimOf(w, t, f) ==
    /\ f.job \in Job /\ f.attempt \in AttemptNo /\ f.attempt = jobs[f.job].attempt + 1
    /\ DOMAIN t.rows = {f.job} /\ jobs[f.job].state = "queued"
    /\ t.rows[f.job].state = "claimed" /\ t.rows[f.job].attempt = f.attempt
    /\ <<f.job, f.attempt>> \in DOMAIN t.logs
    /\ t.logs[<<f.job, f.attempt>>].worker_id = w

LEMMA ClaimLine ==
    ASSUME Whole, ShapesSound, NEW w \in Worker, NEW t \in open, t.owner = w,
           workers[w].pc \in ClaimCalls
    PROVE  ClaimOf(w, t, FaultLine(w, t))
  <1>1. CallShape(w, t)
    BY DEF ShapesSound
  <1>2. ClaimShape(t)
    BY <1>1 DEF CallShape, ClaimCalls, OwnCalls, ReapCalls
  <1>3. PICK j \in Job : /\ DOMAIN t.rows = {j} /\ jobs[j].state = "queued"
                         /\ t.rows[j].state = "claimed"
                         /\ t.rows[j].attempt = jobs[j].attempt + 1
    BY <1>2 DEF ClaimShape
  <1>4. /\ <<j, t.rows[j].attempt>> \in DOMAIN t.logs
        /\ t.logs[<<j, t.rows[j].attempt>>].worker_id = w
    BY <1>3 DEF Whole, Desks, CallsSound, AwaitedSound, ClaimCalls
  <1>5. t.rows[j].attempt \in AttemptNo
    BY <1>3 DEF Whole, Stored, PendingSound, TxnSound
  <1>6. t.logs # NoRows
    BY <1>4 DEF NoRows
  <1>7. FaultLine(w, t).job = j /\ FaultLine(w, t).attempt = t.rows[j].attempt
    BY <1>3, <1>6, TheOne DEF FaultLine
  <1> QED
    BY <1>3, <1>4, <1>5, <1>7 DEF ClaimOf

\* At a call for a job of its own, that job and its attempt.
LEMMA OwnLine ==
    ASSUME Whole, ShapesSound, NEW w \in Worker, NEW t \in open, t.owner = w,
           workers[w].pc \in OwnCalls
    PROVE  /\ FaultLine(w, t).job = JobOf(w) /\ FaultLine(w, t).attempt = AttemptOf(w)
           /\ OwnShape(workers[w].pc, JobOf(w), AttemptOf(w), t)
           /\ JobOf(w) \in Job /\ AttemptOf(w) \in AttemptNo
           /\ Has(w, JobOf(w), AttemptOf(w))
  <1>1. CallShape(w, t)
    BY DEF ShapesSound
  <1>2. OwnShape(workers[w].pc, JobOf(w), AttemptOf(w), t)
    BY <1>1 DEF CallShape, ClaimCalls, OwnCalls, ReapCalls
  <1>3. workers[w].pc \in HoldsJob
    BY DEF OwnCalls, HoldsJob
  <1>4. DOMAIN t.rows = {JobOf(w)} /\ t.rows[JobOf(w)].attempt = AttemptOf(w)
    BY <1>2 DEF OwnShape
  <1>5. FaultLine(w, t).job = JobOf(w) /\ FaultLine(w, t).attempt = AttemptOf(w)
    BY <1>4, TheOne DEF FaultLine
  <1> QED
    BY <1>2, <1>3, <1>5, AtDesk DEF Has

\* Before a call, the worker's own too.
LEMMA BeforeLine ==
    ASSUME NEW w
    PROVE  LET f == FaultLine(w, Txn(w, NoRows, NoRows, {}))
           IN  f.job = JobOf(w) /\ f.attempt = AttemptOf(w) /\ f.at = clock
  BY DEF FaultLine, Txn, NoRows

-----------------------------------------------------------------------------
(* What later steps leave of an attempt.                                   *)

\* An attempt that some worker claimed.
LEMMA ClaimedLog ==
    ASSUME Whole, NEW j \in Job, NEW a \in AttemptNo, attempts[<<j, a>>].worker_id \in Worker
    PROVE  attempts[<<j, a>>].claimed_at # Null /\ a <= jobs[j].attempt
  <1>1. LedgerSound(jobs[j], Logs(j), clock) /\ jobs[j].attempt \in Int /\ a \in Int
    BY DEF Whole, Books, RecordsSound, Stored, StoreTypeOK, JobRow, AttemptNo
  <1>2. a > jobs[j].attempt => Logs(j)[a] = NoAttempt
    BY <1>1 DEF LedgerSound
  <1>3. a <= jobs[j].attempt
    BY <1>1, <1>2, NoAttemptFields, WorkerAssumption DEF Logs
  <1> QED
    BY <1>1, <1>3 DEF LedgerSound, Logs

\* One that has not ended is the job's latest, and the job is leased.
LEMMA LiveLog ==
    ASSUME Whole, NEW j \in Job, NEW a \in AttemptNo, attempts[<<j, a>>].worker_id \in Worker,
           attempts[<<j, a>>].ended_by = NotEnded
    PROVE  a = jobs[j].attempt /\ jobs[j].state \in LeasedStates
  <1>1. LedgerSound(jobs[j], Logs(j), clock) /\ jobs[j] \in JobRow /\ a \in Int
    BY DEF Whole, Books, RecordsSound, Stored, StoreTypeOK, AttemptNo
  <1>2. a <= jobs[j].attempt
    BY ClaimedLog
  <1>5. Logs(j)[a].ended_by = NotEnded /\ NotEnded \notin RetryEndings
    BY NotEndedFacts DEF Logs, RetryEndings, Endings
  <1>6. ~(a < jobs[j].attempt)
    BY <1>1, <1>5 DEF LedgerSound
  <1>3. a = jobs[j].attempt
    BY <1>1, <1>2, <1>6 DEF JobRow
  <1>4. LatestSound(jobs[j], Logs(j)[a])
    BY <1>1, <1>3 DEF LedgerSound
  <1> QED
    BY <1>1, <1>3, <1>4, NotEndedFacts
       DEF LatestSound, Logs, RetryEndings, Endings, JobRow, Unfinished, FinalStates,
           LeasedStates, ResultStates

\* Its holder and its end stay.
LEMMA ClaimStays ==
    ASSUME Whole, Onward, NEW j \in Job, NEW a \in AttemptNo,
           attempts[<<j, a>>].worker_id \in Worker
    PROVE  attempts'[<<j, a>>].worker_id = attempts[<<j, a>>].worker_id
  BY ClaimedLog DEF Onward

LEMMA EndStays ==
    ASSUME Whole, Onward, StoreTypeOK', NEW j \in Job, NEW a \in AttemptNo,
           attempts[<<j, a>>].ended_by # NotEnded
    PROVE  attempts'[<<j, a>>].ended_by = attempts[<<j, a>>].ended_by
  <1> DEFINE old == attempts[<<j, a>>]
             new == attempts'[<<j, a>>]
  <1>1. old \in AttemptRow /\ new \in AttemptRow
    BY DEF Whole, Stored, StoreTypeOK
  <1>2. [new EXCEPT !.execution = FALSE] = [old EXCEPT !.execution = FALSE]
    BY DEF Onward
  <1>3. [new EXCEPT !.execution = FALSE].ended_by = new.ended_by
        /\ [old EXCEPT !.execution = FALSE].ended_by = old.ended_by
    BY <1>1 DEF AttemptRow
  <1> QED
    BY <1>2, <1>3

\* A job that has a result has ended with it.
LEMMA ResultEnds ==
    ASSUME Whole, NEW r \in results
    PROVE  jobs[r.job_id].state \in ResultStates
  BY DEF Whole, Stored, OneResultPerJob, OneResult, ResultsOf, StoreTypeOK, ResultRow

LEMMA LeasedUnpublished ==
    ASSUME Whole, NEW j \in Job, jobs[j].state \in Unfinished
    PROVE  ResultOf(j) = {}
  BY ResultEnds DEF ResultOf, Unfinished, LeasedStates, ResultStates

-----------------------------------------------------------------------------
(* What a step does to a worker that was struck.                           *)

LEMMA StruckOnce ==
    ASSUME LedgerInv, HarnessSound, NEW w \in Worker, FiresOn(w)
    PROVE  ~Struck(w)
  BY FiresFacts DEF FiresOn, FireBefore, FireBeforeCommit, FireAfterCommit

LEMMA StruckMoves ==
    ASSUME LedgerInv, HarnessSound, [ChaosNext]_chaosVars, NEW w \in Worker, Struck(w)
    PROVE  \/ Same(w)
           \/ Work(w)
           \/ workers[w].pc = "down" /\ workers'[w].pc = "step"
  BY WorkerMoves, StruckOnce DEF FiresOn

\* It stays as stopped as it is, until it is woken.
LEMMA PausedStep ==
    ASSUME LedgerInv, HarnessSound, [ChaosNext]_chaosVars, NEW w \in Worker, Struck(w)
    PROVE  /\ w \in paused' => w \in paused
           /\ w \in paused /\ w \notin paused' => Wake(w)
  <1>1. paused' = paused \/ (\E v \in Worker : FiresOn(v)) \/ \E v \in Worker : Wake(v)
    <2>1. ASSUME NEW v \in Worker, Work(v) \/ \E t \in open : IdleOut(v, t)
          PROVE  paused' = paused
      BY <2>1 DEF Work, IdleOut
    <2>2. (\E j \in Job : DriveCancel(j)) \/ ReplaceTheDead \/ DriveGhost \/ DriveRestart
             \/ StopAll \/ ChaosTick \/ UNCHANGED harnessVars \/ UNCHANGED chaosVars
            => paused' = paused
      BY DEF DriveCancel, ReplaceTheDead, DriveGhost, DriveRestart, StopAll, ChaosTick,
             harnessVars, chaosVars
    <2> QED
      BY <2>1, <2>2 DEF ChaosNext, FiresOn
  <1>2. ASSUME NEW v \in Worker, FiresOn(v) PROVE w \in paused' <=> w \in paused
    <2>1. v # w
      BY <1>2, StruckOnce
    <2>2. paused' = paused \/ paused' = paused \union {v}
      BY <1>2 DEF FiresOn, FireBefore, FireBeforeCommit, FireAfterCommit, Fires
    <2> QED
      BY <2>1, <2>2
  <1>3. ASSUME NEW v \in Worker, Wake(v)
        PROVE  (w \in paused' => w \in paused) /\ (w \in paused /\ w \notin paused' => Wake(w))
    BY <1>3 DEF Wake
  <1> QED
    BY <1>1, <1>2, <1>3

\* A worker that finds its attempt taken from it goes from its heartbeat or its
\* publish to the end of its step, the publish by way of the job's status.
LEMMA PowerlessWorks ==
    ASSUME Whole, NEW w \in Worker, NEW j \in Job, NEW a \in AttemptNo, Has(w, j, a),
           Free(w), WorkerStep(w), ~HeldLive(jobs[j], a, clock),
           attempts[<<j, a>>].ended_by # "published",
           workers[w].pc \in {"heartbeat", "publish", "job_status"}
    PROVE  \/ workers[w].pc = "heartbeat" /\ Report(w, "lost")
           \/ workers[w].pc = "publish" /\ Go(w, "job_status") /\ UNCHANGED storeVars
           \/ workers[w].pc = "job_status" /\ JobStatus(w)
  <1>1. RowOf(w) = jobs[j] /\ JobOf(w) = j /\ AttemptOf(w) = a
    BY DEF Has, RowOf
  <1>2. StoredBefore(w) = {}
    <2>1. \A r \in results : r.job_id = j /\ r.attempt = a => FALSE
      BY DEF Whole, Books, RecordsSound, ResultSound, Logs
    <2> QED
      BY <1>1, <2>1 DEF StoredBefore
  <1>3. \A t \in open : ~Commit(w, t)
    BY DEF Commit, Free
  <1>4. /\ ~BeginStep(w) /\ ~Reap(w) /\ ~Claim(w) /\ ~Start(w) /\ ~RunEnds(w)
        /\ ~RecordExecution(w) /\ ~AskToEnd(w) /\ ~EndWaited(w)
    BY DEF BeginStep, Reap, Claim, Start, RunEnds, RecordExecution, AskToEnd, EndWaited, At
  <1>5. CASE Heartbeat(w)
    BY <1>1, <1>5 DEF Heartbeat, At
  <1>6. CASE Publish(w)
    BY <1>1, <1>2, <1>6 DEF Publish, At, HeldLive
  <1>7. CASE JobStatus(w)
    BY <1>7 DEF JobStatus, At
  <1> QED
    BY <1>3, <1>4, <1>5, <1>6, <1>7 DEF WorkerStep

-----------------------------------------------------------------------------
(* The faults' effects.  An orphaned attempt is a reap's to end.           *)

\* A worker wakes to a lease that has run out.
LEMMA WokenLate ==
    ASSUME Whole, NEW w \in Worker, Wake(w), NEW f, f = faults[w], f.at \in Nat,
           f.job \in Job, jobs[f.job].attempt = f.attempt, f.attempt \in AttemptNo,
           jobs[f.job].lease_expires_at <= f.at + Lease
    PROVE  jobs[f.job].lease_expires_at <= clock
  <1>1. ~Overtaken(f)
    BY DEF Overtaken, AttemptNo
  <1>2. clock >= f.at + PAUSE \/ clock > f.at + OVERTAKE
    BY <1>1 DEF Wake, WakeDue
  <1>3. jobs[f.job].lease_expires_at \in Int /\ clock \in Nat
    BY NullFacts DEF Whole, Stored, StoreTypeOK, JobRow
  <1> QED
    BY <1>2, <1>3, PlanAssumption, LeaseAssumption

LEMMA PowerlessKept ==
    ASSUME LedgerInv, HarnessSound, ShapesSound, [ChaosNext]_chaosVars,
           NEW w \in Worker, Struck(w), NEW f, f = faults[w], Powerless(w, f),
           f.job \in Job, f.attempt \in AttemptNo, jobs[f.job].attempt = f.attempt,
           jobs[f.job].state \in LeasedStates,
           attempts[<<f.job, f.attempt>>].ended_by = NotEnded,
           jobs'[f.job].lease_expires_at = jobs[f.job].lease_expires_at
    PROVE  Powerless(w, f)'
  <1> DEFINE j == f.job
             a == f.attempt
  <1> SUFFICES ASSUME Has(w, j, a)'
               PROVE  Powerless(w, f)'
    BY DEF Powerless
  <1>1. Whole /\ Manned /\ f.at \in Nat
    BY WholeSplit DEF Whole, HarnessSound, WorkerRecorded
  <1>2. jobs[j].lease_expires_at \in Int /\ clock \in Nat /\ clock' \in Nat /\ clock <= clock'
    BY <1>1, HarnessStep, NullFacts DEF Whole, Stored, StoreTypeOK, JobRow
  <1>3. Has(w, j, a)
    BY HasStep DEF LeasedStates
  <1>4. Same(w) \/ Work(w)
    BY <1>3, StruckMoves DEF Has, HoldsJob
  <1>5. CASE w \in paused
    <2>1. ~Work(w) /\ workers'[w].pc = workers[w].pc
      BY <1>4, <1>5 DEF Work, Same
    <2>2. CASE w \in paused'
      BY <1>3, <1>5, <2>1, <2>2 DEF Powerless
    <2>3. CASE w \notin paused'
      <3>1. Wake(w)
        BY <1>5, <2>3, PausedStep
      <3>2. jobs[j].lease_expires_at <= clock
        BY <1>1, <1>3, <1>5, <3>1, WokenLate DEF Powerless
      <3>3. \A t \in open' : t.owner # w
        BY <3>1 DEF Wake, vars, storeVars
      <3> QED
        BY <1>2, <1>3, <2>1, <2>3, <3>2, <3>3 DEF Powerless
    <2> QED
      BY <2>2, <2>3
  <1>6. CASE w \notin paused
    <2>1. /\ w \notin paused' /\ Free(w) /\ jobs[j].lease_expires_at <= clock
          /\ workers[w].pc \in {"heartbeat", "publish", "job_status"}
      BY <1>3, <1>6, PausedStep DEF Powerless, Free
    <2>2. jobs[j].lease_expires_at <= clock'
      BY <1>2, <2>1
    <2>3. CASE Work(w)
      <3>1. ~HeldLive(jobs[j], a, clock) /\ attempts[<<j, a>>].ended_by # "published"
        BY <1>2, <2>1, NotEndedFacts DEF HeldLive, Endings
      <3>2. \A what : ~Report(w, what)
        BY <1>1, ReportFields DEF Has, HoldsJob
      <3>3. workers[w].pc = "publish" /\ Go(w, "job_status") /\ UNCHANGED storeVars
        BY <1>1, <1>3, <2>1, <2>3, <3>1, <3>2, PowerlessWorks DEF Work, JobStatus
      <3>4. workers'[w].pc = "job_status" /\ \A t \in open' : t.owner # w
        BY <1>1, <2>1, <3>3, GoFields DEF storeVars, Free
      <3> QED
        BY <2>1, <2>2, <3>4 DEF Powerless
    <2>4. CASE ~Work(w)
      <3>1. workers'[w].pc = workers[w].pc
        BY <1>4, <2>4 DEF Same
      <3>2. \A t \in open' : t.owner # w
        BY <2>1, <2>4, OpenStep DEF Free
      <3> QED
        BY <2>1, <2>2, <3>1, <3>2 DEF Powerless
    <2> QED
      BY <2>3, <2>4
  <1> QED
    BY <1>5, <1>6

\* Nobody but a reap ends it.
LEMMA OrphanKept ==
    ASSUME LedgerInv, HarnessSound, PlanSound, ShapesSound, [ChaosNext]_chaosVars,
           scenario.action # "restart",
           NEW w \in Worker, Struck(w), NEW f, f = faults[w], Orphaned(w, f)
    PROVE  Orphaned(w, f)'
  <1> DEFINE j == f.job
             a == f.attempt
  <1>1. Whole /\ Onward /\ StoreTypeOK' /\ ~DriveRestart
    BY WholeSplit, ChaosKept, NoRestart DEF Kept, LedgerInv, IndInv, TypeOK
  <1>2. j \in Job /\ a \in AttemptNo /\ attempts[<<j, a>>].worker_id = w
    BY DEF Orphaned, Names, LogOf
  <1>3. attempts'[<<j, a>>].worker_id = w
    BY <1>1, <1>2, ClaimStays
  <1>4. CASE attempts[<<j, a>>].ended_by = "lease_expired"
    BY <1>1, <1>2, <1>3, <1>4, EndStays, NotEndedFacts DEF Orphaned, Names, LogOf, Endings
  <1>5. CASE attempts[<<j, a>>].ended_by = NotEnded /\ Powerless(w, f)
    <2>1. a = jobs[j].attempt /\ jobs[j].state \in LeasedStates /\ JobStep(j)
      BY <1>1, <1>2, <1>5, LiveLog, JobSteps
    <2>2. \A v, t : Awaited(v, t) => ~MovedBy(v, j)
      <3> SUFFICES ASSUME NEW v, NEW t, Awaited(v, t), MovedBy(v, j)
                   PROVE  FALSE
        OBVIOUS
      <3>1. v \in Worker /\ Has(v, j, a) /\ t \in open /\ t.owner = v /\ v \notin paused
        BY <2>1 DEF Awaited, Landing, MovedBy
      <3>2. v = w
        BY <1>1, <1>2, <3>1, AtDesk DEF Has
      <3> QED
        BY <1>5, <3>1, <3>2 DEF Powerless
    <2>3. CASE ReapedFrom(j)
      BY <1>2, <1>3, <2>1, <2>3 DEF ReapedFrom, Orphaned, Names, LogOf
    <2>4. CASE SameJob(j) \/ AskedFor(j)
      <3>1. /\ jobs'[j].lease_expires_at = jobs[j].lease_expires_at
            /\ attempts'[<<j, a>>].ended_by = NotEnded
        BY <1>2, <1>5, <2>4 DEF SameJob, AskedFor, SameLog
      <3>2. Powerless(w, f)'
        BY <1>2, <1>5, <2>1, <3>1, PowerlessKept
      <3> QED
        BY <1>2, <1>3, <3>1, <3>2 DEF Orphaned, Names, LogOf
    <2> QED
      BY <2>1, <2>2, <2>3, <2>4 DEF JobStep, TakenBy, LeasedStates
  <1> QED
    BY <1>4, <1>5 DEF Orphaned, LogOf

\* A cancel request stays on its row.
LEMMA CancelStays ==
    ASSUME LedgerInv, HarnessSound, [ChaosNext]_chaosVars, ~DriveRestart, NEW j \in Job,
           jobs[j].cancel_requested_at # Null
    PROVE  jobs'[j].cancel_requested_at # Null
  <1>1. Whole /\ jobs \in [Job -> JobRow]
    BY WholeSplit DEF Whole, Stored, StoreTypeOK
  <1>2. ASSUME NEW v \in Worker, NEW t \in open, Landing(v, t)
        PROVE  jobs'[j].cancel_requested_at # Null
    <2>1. jobs'[j] = IF j \in DOMAIN t.rows THEN t.rows[j] ELSE jobs[j]
      BY <1>2 DEF Landing, Install
    <2>2. Moves(t)
      BY <1>1 DEF Whole, Books, TxnsSound
    <2>3. j \in DOMAIN t.rows => t.rows[j].cancel_requested_at # Null
      BY <2>2 DEF Moves, Takes, Keeps, AsksCancel, Finishes, GivesBack
    <2> QED
      BY <2>1, <2>3
  <1>3. ASSUME DriveGhost PROVE jobs'[j].cancel_requested_at # Null
    BY <1>1, <1>3 DEF DriveGhost, Claimed, JobRow
  <1>4. ASSUME NEW i \in Job, DriveCancel(i) PROVE jobs'[j].cancel_requested_at # Null
    BY <1>1, <1>4 DEF DriveCancel, CancelAsked, JobRow
  <1> QED
    BY <1>2, <1>3, <1>4, TableStep DEF SameTables

\* A killed worker's claim that was undone stays so.
LEMMA UndoneKept ==
    ASSUME LedgerInv, HarnessSound, PlanSound, ShapesSound, [ChaosNext]_chaosVars,
           scenario.action = "kill", scenario.workload # "ghost",
           NEW w \in Worker, Struck(w), NEW f, Names(f), LogOf(f).worker_id # w
    PROVE  LogOf(f)'.worker_id # w
  <1> DEFINE j == f.job
             a == f.attempt
  <1>1. ~DriveRestart /\ workers[w].pc = "down"
    BY NoRestart DEF HarnessSound, WorkerRecorded
  <1>2. j \in Job /\ a \in AttemptNo /\ attempts[<<j, a>>].worker_id # w
    BY DEF Names, LogOf
  <1>3. JobStep(j)
    BY <1>1, <1>2, JobSteps
  <1>4. \A v : workers[v].pc \in ClaimCalls => v # w
    BY <1>1 DEF ClaimCalls
  <1>5. attempts'[<<j, a>>].worker_id # w
    BY <1>2, <1>3, <1>4
       DEF JobStep, SameJob, SameLog, ReapedFrom, AskedFor, TakenBy, MovedBy, OthersSame
  <1> QED
    BY <1>5 DEF LogOf

\* A result stays, and with it the attempt that stored it.
LEMMA ResultStays ==
    ASSUME LedgerInv, HarnessSound, [ChaosNext]_chaosVars, NEW f, ResultFrom(f)
    PROVE  ResultFrom(f)'
  BY ChaosKept DEF Kept, Onward, ResultFrom, ResultOf

LEMMA StandsKept ==
    ASSUME LedgerInv, HarnessSound, [ChaosNext]_chaosVars, NEW f, Names(f), Stands(f)
    PROVE  Stands(f)'
  <1>1. Whole /\ Onward
    BY WholeSplit, ChaosKept DEF Kept
  <1>2. jobs[f.job].state \in FinalStates
    BY <1>1, ResultEnds DEF Stands, ResultFrom, ResultOf, FinalStates
  <1>3. jobs'[f.job] = jobs[f.job]
    BY <1>1, <1>2 DEF Onward, Names
  <1> QED
    BY <1>3, ResultStays DEF Stands

\* A worker whose connection dropped goes on to its result.
LEMMA SameAttemptKept ==
    ASSUME LedgerInv, HarnessSound, RowsSound, ShapesSound, LeasesKept, [ChaosNext]_chaosVars,
           Steady, scenario.action = "drop",
           NEW w \in Worker, Struck(w), NEW f, Has(w, f.job, f.attempt) \/ ResultFrom(f)
    PROVE  (Has(w, f.job, f.attempt) \/ ResultFrom(f))'
  <1> SUFFICES ASSUME Has(w, f.job, f.attempt)
               PROVE  (Has(w, f.job, f.attempt) \/ ResultFrom(f))'
    BY ResultStays
  <1>1. Whole /\ KeepsLease(w) /\ workers[w].pc \in HoldsJob
    BY WholeSplit DEF LeasesKept, Healthy, Has
  <1>2. Same(w) \/ Work(w)
    BY <1>1, StruckMoves DEF HoldsJob
  <1>3. CASE Same(w)
    BY <1>3 DEF Same, Has, JobOf, AttemptOf
  <1>4. CASE Work(w)
    BY <1>1, <1>4, HolderWorks DEF Work, Publishes, ResultFrom, ResultOf, Has, JobOf, AttemptOf
  <1> QED
    BY <1>2, <1>3, <1>4

\* A hung worker writes no result.
LEMMA UnblockedKept ==
    ASSUME LedgerInv, HarnessSound, PlanSound, ShapesSound, [ChaosNext]_chaosVars,
           scenario.action = "hang", NEW w \in Worker, Struck(w), NEW j \in Job,
           \A r \in ResultOf(j) : r.worker_id # w
    PROVE  \A r \in ResultOf(j)' : r.worker_id # w
  <1>1. ~DriveRestart /\ w \in paused
    BY NoRestart DEF HarnessSound, WorkerRecorded
  <1>2. JobStep(j)
    BY <1>1, JobSteps
  <1>3. \A v, t : Awaited(v, t) => v # w
    BY <1>1 DEF Awaited, Landing
  <1> QED
    BY <1>2, <1>3 DEF JobStep, SameJob, ReapedFrom, AskedFor, TakenBy, MovedBy

\* A ghost's attempt stays on the record.
LEMMA GhostStays ==
    ASSUME LedgerInv, HarnessSound, [ChaosNext]_chaosVars, NEW j \in Job,
           \E a \in AttemptNo : attempts[<<j, a>>].worker_id = Ghost
    PROVE  \E a \in AttemptNo : attempts'[<<j, a>>].worker_id = Ghost
  <1>1. Whole /\ Onward
    BY WholeSplit, ChaosKept DEF Kept
  <1> QED
    BY <1>1, ClaimStays, GhostAssumption

\* What a worker logs, it logs as it goes.
LEMMA LogStep ==
    ASSUME LedgerInv, HarnessSound, [ChaosNext]_chaosVars
    PROVE  /\ logs \subseteq logs'
           /\ \A entry \in logs' : entry \in logs \/ \E v \in Worker : Work(v) /\ entry \in Logged(v)
           /\ \A v \in Worker : Work(v) => Logged(v) \subseteq logs'
  BY HarnessStep DEF Work

\* A worker whose result was stored unheard publishes it again, and is told so.
LEMMA CountedWorks ==
    ASSUME Whole, ShapesSound, NEW w \in Worker, NEW r \in results, r.worker_id = w,
           Has(w, r.job_id, r.attempt), workers[w].pc = "publish", WorkerStep(w)
    PROVE  Report(w, "published")
  <1>1. JobOf(w) = r.job_id /\ AttemptOf(w) = r.attempt /\ jobs[r.job_id].state \in ResultStates
    BY ResultEnds DEF Has
  <1>2. ~Held(jobs[JobOf(w)], AttemptOf(w))
    BY <1>1 DEF Held, ResultStates, LeasedStates
  <1>3. r \in StoredBefore(w)
    <2>1. r \in Mine(w)
      BY <1>1 DEF Mine, Written
    <2>2. workers[w].pc \in HoldsJob
      BY DEF HoldsJob
    <2> QED
      BY <1>1, <2>1, <2>2, AtDesk DEF StoredBefore
  <1>4. \A t \in open : ~Commit(w, t)
    <2> SUFFICES ASSUME NEW t \in open, Commit(w, t) PROVE FALSE
      OBVIOUS
    <2>1. OwnShape(workers[w].pc, JobOf(w), AttemptOf(w), t)
      BY OwnLine DEF Commit, OwnCalls
    <2> QED
      BY <1>2, <2>1 DEF OwnShape
  <1>5. /\ ~BeginStep(w) /\ ~Reap(w) /\ ~Claim(w) /\ ~Start(w) /\ ~RunEnds(w) /\ ~Heartbeat(w)
        /\ ~RecordExecution(w) /\ ~AskToEnd(w) /\ ~EndWaited(w) /\ ~JobStatus(w)
    BY DEF BeginStep, Reap, Claim, Start, RunEnds, Heartbeat, RecordExecution, AskToEnd,
           EndWaited, JobStatus, At
  <1>6. CASE Publish(w)
    BY <1>2, <1>3, <1>6 DEF Publish
  <1> QED
    BY <1>4, <1>5, <1>6 DEF WorkerStep

LEMMA CountedKept ==
    ASSUME LedgerInv, HarnessSound, ShapesSound, [ChaosNext]_chaosVars,
           NEW w \in Worker, Struck(w), NEW f, LeftSound("counted", w, f)
    PROVE  LeftSound("counted", w, f)'
  <1> DEFINE j == f.job
             a == f.attempt
  <1>1. Whole /\ Manned /\ Onward /\ LedgerInv'
    BY WholeSplit, ChaosKept DEF Kept, Whole
  <1>2. PICK r \in results : r.job_id = j /\ r.attempt = a /\ r.worker_id = w
    BY DEF LeftSound
  <1>3. r \in results' /\ jobs[j].state \in ResultStates /\ j \in Job
    BY <1>1, <1>2, ResultEnds DEF Onward, Whole, Stored, StoreTypeOK, ResultRow
  <1>4. ASSUME Has(w, j, a)' PROVE workers'[w].pc = "publish"
    <2>1. Has(w, j, a)
      BY <1>3, <1>4, HasStep DEF ResultStates
    <2>2. workers[w].pc = "publish"
      BY <2>1 DEF LeftSound
    <2>3. CASE Same(w)
      BY <2>2, <2>3 DEF Same
    <2>4. CASE Work(w)
      <3>1. Report(w, "published")
        BY <1>1, <1>2, <2>1, <2>2, <2>4, CountedWorks DEF Work
      <3>2. workers'[w].pc = "step"
        BY <1>1, <3>1, ReportFields
      <3> QED
        BY <1>4, <3>2 DEF Has, HoldsJob
    <2> QED
      BY <2>2, <2>3, <2>4, StruckMoves
  <1>5. ~Refusal(w, f)'
    <2> SUFFICES ASSUME Refusal(w, f)' PROVE FALSE
      OBVIOUS
    <2>1. <<w, "rejected", j, a>> \in logs' /\ <<w, "rejected", j, a>> \notin logs
      BY DEF Refusal, LeftSound
    <2>2. PICK v \in Worker : Work(v) /\ <<w, "rejected", j, a>> \in Logged(v)
      BY <2>1, LogStep
    <2>3. /\ v = w /\ j = JobOf(w) /\ a = AttemptOf(w)
          /\ workers'[w].report = "rejected" /\ workers'[w].pc = "step"
      BY <2>2 DEF Logged
    <2>4. workers'[w].job = j /\ workers'[w].attempt = a
      <3>1. ASSUME NEW t \in open, Commit(w, t), workers[w].pc \in ClaimCalls PROVE FALSE
        BY <1>1, <2>3, <3>1, AnswerFields DEF Commit
      <3> QED
        BY <1>1, <2>2, <2>3, <3>1, ClaimStands DEF Work, JobOf, AttemptOf
    <2>5. ReportsAreTrue'
      BY <1>1 DEF LedgerInv
    <2> QED
      BY <1>2, <1>3, <2>3, <2>4, <2>5 DEF ReportsAreTrue, JobOf, AttemptOf
  <1> QED
    BY <1>2, <1>3, <1>4, <1>5 DEF LeftSound

\* A stopped worker that wakes finds its attempt gone.
LEMMA OrphanWorks ==
    ASSUME Whole, NEW w \in Worker, NEW f, Orphaned(w, f), Has(w, f.job, f.attempt),
           w \notin paused, Free(w), WorkerStep(w),
           workers[w].pc \in {"heartbeat", "publish", "job_status"}
    PROVE  \/ workers[w].pc = "heartbeat" /\ Report(w, "lost")
           \/ workers[w].pc = "publish" /\ Go(w, "job_status") /\ UNCHANGED storeVars
           \/ workers[w].pc = "job_status" /\ JobStatus(w)
  <1> DEFINE j == f.job
             a == f.attempt
  <1>1. j \in Job /\ a \in AttemptNo
    BY DEF Orphaned, Names
  <1>2. attempts[<<j, a>>].ended_by # "published"
    BY NotEndedFacts DEF Orphaned, LogOf, Endings
  <1>3. ~HeldLive(jobs[j], a, clock)
    <2>1. CASE attempts[<<j, a>>].ended_by = "lease_expired"
      <3>1. LedgerSound(jobs[j], Logs(j), clock)
        BY <1>1 DEF Whole, Books, RecordsSound
      <3>2. Held(jobs[j], a) => attempts[<<j, a>>].ended_by = NotEnded
        BY <1>1, <3>1 DEF LedgerSound, LatestSound, Logs, Held
      <3> QED
        BY <2>1, <3>2, NotEndedFacts DEF HeldLive, Endings
    <2>2. CASE Powerless(w, f)
      <3>1. jobs[j].lease_expires_at <= clock
        BY <2>2 DEF Powerless
      <3>2. jobs[j].lease_expires_at \in Int /\ clock \in Int
        BY <1>1, NullFacts DEF Whole, Stored, StoreTypeOK, JobRow
      <3> QED
        BY <3>1, <3>2 DEF HeldLive
    <2> QED
      BY <2>1, <2>2 DEF Orphaned, LogOf
  <1> QED
    BY <1>1, <1>2, <1>3, PowerlessWorks

\* One that takes no step waits on.
LEMMA AwaitsStays ==
    ASSUME LedgerInv, HarnessSound, ShapesSound, [ChaosNext]_chaosVars,
           NEW w \in Worker, Struck(w), ~Work(w), NEW f, NEW pcs, Awaits(w, f, pcs)
    PROVE  Awaits(w, f, pcs)'
  <1>1. Same(w)
    BY StruckMoves DEF Awaits, Has, HoldsJob
  <1>2. \A t \in open' : t.owner # w
    BY OpenStep DEF Awaits
  <1> QED
    BY <1>1, <1>2 DEF Awaits, Same, Has, JobOf, AttemptOf

\* What a worker at its job logs as its step ends.
LEMMA ReportLogged ==
    ASSUME Whole, NEW w \in Worker, Work(w), NEW what \in {"lost", "rejected"}, Report(w, what),
           workers[w].pc \in HoldsJob, workers[w].pc # "finish_cancelled"
    PROVE  <<w, what, JobOf(w), AttemptOf(w)>> \in Logged(w)
  <1>1. workers'[w].pc = "step" /\ workers'[w].report = what
    BY ReportFields DEF Whole
  <1> QED
    BY <1>1 DEF Logged, HoldsJob

LEMMA FencedKept ==
    ASSUME LedgerInv, HarnessSound, ShapesSound, [ChaosNext]_chaosVars,
           NEW w \in Worker, Struck(w), NEW f, Orphaned(w, f), LeftSound("fenced", w, f)
    PROVE  LeftSound("fenced", w, f)'
  <1>1. CASE <<w, "lost", f.job, f.attempt>> \in logs
    BY <1>1, LogStep DEF LeftSound
  <1>2. CASE Awaits(w, f, {"heartbeat"}) /\ ~Work(w)
    BY <1>2, AwaitsStays DEF LeftSound
  <1>3. CASE Awaits(w, f, {"heartbeat"}) /\ Work(w)
    <2>1. Has(w, f.job, f.attempt) /\ workers[w].pc = "heartbeat" /\ Free(w) /\ Whole
      BY <1>3, WholeSplit DEF Awaits, Free
    <2>2. Report(w, "lost")
      BY <1>3, <2>1, OrphanWorks DEF Work
    <2>3. <<w, "lost", f.job, f.attempt>> \in Logged(w)
      BY <1>3, <2>1, <2>2, ReportLogged DEF Has
    <2> QED
      BY <1>3, <2>3, LogStep DEF LeftSound
  <1> QED
    BY <1>1, <1>2, <1>3 DEF LeftSound

LEMMA RefusedKept ==
    ASSUME LedgerInv, HarnessSound, RowsSound, ShapesSound, [ChaosNext]_chaosVars,
           scenario.workload # "cancel",
           NEW w \in Worker, Struck(w), NEW f, Orphaned(w, f), LeftSound("refused", w, f)
    PROVE  LeftSound("refused", w, f)'
  <1> DEFINE pcs == {"publish", "job_status"}
  <1>1. CASE Refusal(w, f)
    BY <1>1, LogStep DEF LeftSound, Refusal
  <1>2. CASE Awaits(w, f, pcs) /\ ~Work(w)
    BY <1>2, AwaitsStays DEF LeftSound
  <1>3. CASE Awaits(w, f, pcs) /\ Work(w)
    <2>1. /\ Has(w, f.job, f.attempt) /\ workers[w].pc \in pcs /\ Free(w) /\ Whole /\ Manned
          /\ f.job \in Job
      BY <1>3, WholeSplit DEF Awaits, Free, Orphaned, Names, Whole
    <2>2. CASE Go(w, "job_status") /\ UNCHANGED storeVars
      <3>1. workers'[w].pc = "job_status" /\ Has(w, f.job, f.attempt)'
        BY <2>1, <2>2, GoFields DEF Has, JobOf, AttemptOf, HoldsJob
      <3>2. Awaits(w, f, pcs)'
        BY <2>1, <2>2, <3>1 DEF Awaits, Free, storeVars
      <3> QED
        BY <3>2 DEF LeftSound
    <2>3. CASE JobStatus(w)
      <3>1. jobs[f.job].state # "cancelled"
        BY <2>1 DEF RowsSound, NoCancel, Whole, Books, RecordsSound, EndSound
      <3>2. Report(w, "rejected")
        BY <2>1, <2>3, <3>1 DEF JobStatus, RowOf, Has
      <3>3. <<w, "rejected", f.job, f.attempt>> \in Logged(w)
        BY <1>3, <2>1, <3>2, ReportLogged DEF Has
      <3> QED
        BY <1>3, <3>3, LogStep DEF LeftSound, Refusal
    <2> QED
      BY <1>3, <2>1, <2>2, <2>3, OrphanWorks DEF Work
  <1> QED
    BY <1>1, <1>2, <1>3 DEF LeftSound

-----------------------------------------------------------------------------
(* What a fault has left stays.                                            *)

LEMMA LeftKept ==
    ASSUME ChaosInv, [ChaosNext]_chaosVars, NEW w \in Worker, Struck(w), NEW f, f = faults[w],
           NEW effect \in scenario.effects, LeftSound(effect, w, f)
    PROVE  LeftSound(effect, w, f)'
  <1>1. /\ LedgerInv /\ HarnessSound /\ PlanSound /\ RowsSound /\ ShapesSound /\ LeasesKept
        /\ FaultsSound
    BY DEF ChaosInv
  <1>2. ScenarioSound(scenario)
    BY <1>1, RunsScenario
  <1>3. "retried" \in scenario.effects => Orphaned(w, f)
    BY <1>1 DEF FaultsSound, LeftSound
  <1>4. CASE effect = "claim_undone"
    BY <1>1, <1>2, <1>4, UndoneKept DEF LeftSound, ScenarioSound, Names
  <1>5. CASE effect = "retried"
    BY <1>1, <1>2, <1>5, OrphanKept DEF LeftSound, ScenarioSound
  <1>6. CASE effect = "cancelled"
    BY <1>1, <1>2, <1>6, OrphanKept, CancelStays, NoRestart
       DEF LeftSound, ScenarioSound, Orphaned, Names
  <1>7. CASE effect = "same_attempt"
    <2>1. Steady /\ scenario.action = "drop"
      BY <1>2, <1>7 DEF ScenarioSound, Steady, Moment
    <2> QED
      BY <1>1, <1>7, <2>1, SameAttemptKept DEF LeftSound
  <1>8. CASE effect = "stands"
    BY <1>1, <1>8, StandsKept DEF LeftSound, Names
  <1>9. CASE effect = "counted"
    BY <1>1, <1>9, CountedKept
  <1>10. CASE effect = "fenced"
    BY <1>1, <1>2, <1>3, <1>10, FencedKept DEF ScenarioSound
  <1>11. CASE effect = "refused"
    BY <1>1, <1>2, <1>3, <1>11, RefusedKept DEF ScenarioSound
  <1>12. CASE effect = "unblocked"
    BY <1>1, <1>2, <1>12, UnblockedKept DEF LeftSound, ScenarioSound, Names
  <1>13. CASE effect = "reaped_once"
    BY <1>1, <1>13, GhostStays DEF LeftSound
  <1>14. CASE effect \notin {"claim_undone", "retried", "cancelled", "same_attempt", "stands",
                             "counted", "fenced", "refused", "unblocked", "reaped_once"}
    BY <1>14 DEF LeftSound
  <1> QED
    BY <1>4, <1>5, <1>6, <1>7, <1>8, <1>9, <1>10, <1>11, <1>12, <1>13, <1>14

-----------------------------------------------------------------------------
(* What a fault leaves as it strikes.                                      *)

\* A held job's attempt, whose worker can do nothing for it any more.
LEMMA OwnOrphan ==
    ASSUME Whole, NEW w \in Worker, NEW f, Has(w, f.job, f.attempt),
           Held(jobs[f.job], f.attempt), attempts' = attempts, Powerless(w, f)'
    PROVE  Orphaned(w, f)'
  <1>1. f.job \in Job /\ f.attempt \in AttemptNo /\ attempts[<<f.job, f.attempt>>].worker_id = w
    BY AtDesk DEF Has
  <1>2. attempts[<<f.job, f.attempt>>].ended_by = NotEnded
    BY <1>1, HeldLedger DEF Whole, Stored, Rows, Books, Held
  <1> QED
    BY <1>1, <1>2 DEF Orphaned, Names, LogOf

\* A worker that no fault has struck is at its call under a live lease.
LEMMA UnstruckHolds ==
    ASSUME LedgerInv, HarnessSound, RowsSound, LeasesKept, Steady, scenario.workload # "ghost",
           NEW w \in Worker, ~Struck(w), workers[w].pc \in {"running", "heartbeat", "publish"}
    PROVE  LET j == JobOf(w)
           IN  /\ Has(w, j, AttemptOf(w)) /\ Held(jobs[j], AttemptOf(w))
               /\ jobs[j].lease_expires_at <= clock + Lease
  <1>1. KeepsLease(w) /\ JobOf(w) \in Job /\ workers[w].pc \in HoldsJob
    BY WholeSplit, AtDesk DEF LeasesKept, Healthy, HoldsJob
  <1> QED
    BY <1>1 DEF KeepsLease, RowOf, HeldLive, Has, RowsSound, LeasesBounded

\* A point at the worker's own heartbeat or publish.
LEMMA OwnPoints ==
    ASSUME NEW w, AtCall(w)
    PROVE  /\ scenario.point = <<"heartbeat", "before">> => workers[w].pc \in {"running", "heartbeat"}
           /\ scenario.point[1] = "publish" => workers[w].pc = "publish"
           /\ scenario.point[1] = "claim" => workers[w].pc \in ClaimCalls
           /\ scenario.point[1] = "start" => workers[w].pc = "start"
           /\ scenario.point[1] = "release" => workers[w].pc = "release"
           /\ scenario.point[1] = "cancel" => workers[w].pc = "finish_cancelled"
           /\ scenario.point[1] = "reap" => workers[w].pc \in ReapCalls
  BY DEF AtCall, CallPCs, ClaimCalls, ReapCalls

\* A worker that is stopped or cut off at its call waits there.
LEMMA BeforeWaits ==
    ASSUME Whole, NEW w \in Worker, FireBefore(w), scenario.action # "kill",
           workers[w].pc \in {"running", "heartbeat", "publish"}
    PROVE  /\ Has(w, JobOf(w), AttemptOf(w)) /\ GoesOn(w)
           /\ workers'[w].pc = IF workers[w].pc = "publish" THEN "publish" ELSE "heartbeat"
           /\ Free(w) /\ UNCHANGED storeVars
  BY GoFields DEF FireBefore, AtBefore, At, Free, Whole, GoesOn, Has, HoldsJob

LEMMA BeforeLeaves ==
    ASSUME ChaosInv, NEW w \in Worker, FireBefore(w),
           NEW f, f = FaultLine(w, Txn(w, NoRows, NoRows, {})),
           NEW effect \in scenario.effects
    PROVE  LeftSound(effect, w, f)'
  <1>1. /\ LedgerInv /\ HarnessSound /\ RowsSound /\ LeasesKept /\ Whole /\ Manned
        /\ ScenarioSound(scenario)
    BY RunsScenario, WholeSplit DEF ChaosInv, Whole
  <1>2. /\ f.job = JobOf(w) /\ f.attempt = AttemptOf(w) /\ f.at = clock
        /\ AtCall(w) /\ Moment = "before"
        /\ ~Struck(w) /\ paused' = IF scenario.action \in {"stop", "hang"} THEN paused \union {w} ELSE paused
    BY <1>1, BeforeLine, FiresFacts DEF FireBefore, AtBefore
  <1>3. effect \in {"retried", "same_attempt", "fenced", "refused"}
           => scenario.point \in {<<"heartbeat", "before">>, <<"publish", "before">>}
    BY <1>1, <1>2 DEF ScenarioSound, Moment
  <1>4. scenario.point \in {<<"heartbeat", "before">>, <<"publish", "before">>}
           => workers[w].pc \in {"running", "heartbeat", "publish"}
    BY <1>2, OwnPoints
  <1>5. CASE effect = "retried"
    <2>1. /\ scenario.workload \in {"sleep", "long"} /\ scenario.action \in {"kill", "stop"}
          /\ workers[w].pc \in {"running", "heartbeat", "publish"}
      BY <1>1, <1>2, <1>3, <1>4, <1>5 DEF ScenarioSound, Moment
    <2>2. /\ Has(w, f.job, f.attempt) /\ Held(jobs[f.job], f.attempt)
          /\ jobs[f.job].lease_expires_at <= f.at + Lease
      BY <1>1, <1>2, <2>1, UnstruckHolds DEF Steady
    <2>3. attempts' = attempts /\ Powerless(w, f)'
      <3>1. CASE scenario.action = "kill"
        <4>1. Crash(w)
          BY <3>1 DEF FireBefore
        <4>2. attempts' = attempts /\ workers'[w].pc = "down"
          BY <1>1, <4>1, CrashFields
        <4> QED
          BY <4>2 DEF Powerless, Has, HoldsJob
      <3>2. CASE scenario.action = "stop"
        BY <1>1, <1>2, <2>1, <2>2, <3>2, BeforeWaits DEF Powerless, storeVars
      <3> QED
        BY <2>1, <3>1, <3>2
    <2> QED
      BY <1>1, <1>5, <2>2, <2>3, OwnOrphan DEF LeftSound
  <1>6. CASE effect = "same_attempt"
    <2>1. Has(w, f.job, f.attempt) /\ GoesOn(w) /\ workers'[w].pc \in {"heartbeat", "publish"}
      BY <1>1, <1>2, <1>3, <1>4, <1>6, BeforeWaits DEF ScenarioSound
    <2> QED
      BY <1>6, <2>1 DEF LeftSound, Has, GoesOn, JobOf, AttemptOf, HoldsJob
  <1>7. CASE effect \in {"fenced", "refused"}
    <2>1. /\ Has(w, f.job, f.attempt) /\ GoesOn(w) /\ Free(w) /\ open' = open
          /\ workers'[w].pc = IF workers[w].pc = "publish" THEN "publish" ELSE "heartbeat"
      BY <1>1, <1>2, <1>3, <1>4, <1>7, BeforeWaits DEF ScenarioSound, storeVars
    <2>2. IF effect = "refused" THEN workers[w].pc = "publish"
          ELSE workers[w].pc \in {"running", "heartbeat"}
      BY <1>1, <1>2, <1>7, OwnPoints DEF ScenarioSound
    <2> QED
      BY <1>7, <2>1, <2>2 DEF LeftSound, Awaits, Has, GoesOn, JobOf, AttemptOf, HoldsJob, Free
  <1>8. CASE effect \notin {"retried", "same_attempt", "fenced", "refused"}
    <2>1. effect \notin {"claim_undone", "cancelled", "stands", "counted", "unblocked", "reaped_once"}
      BY <1>1, <1>2 DEF ScenarioSound, Moment
    <2> QED
      BY <1>8, <2>1 DEF LeftSound
  <1> QED
    BY <1>5, <1>6, <1>7, <1>8

\* What a fault before the commit leaves of the tables.
LEMMA UncommittedFields ==
    ASSUME LedgerInv, HarnessSound, ShapesSound,
           NEW w \in Worker, NEW t \in open, FireBeforeCommit(w, t)
    PROVE  /\ UNCHANGED <<clock, jobs, attempts, results>>
           /\ t.owner = w /\ AtCall(w) /\ Moment = "before_commit" /\ ~Struck(w)
           /\ paused' = IF scenario.action \in {"stop", "hang"} THEN paused \union {w} ELSE paused
           /\ scenario.action = "kill" => workers'[w].pc = "down"
           /\ scenario.action # "kill" => workers' = workers
  <1>1. Manned
    BY WholeSplit DEF Whole
  <1>2. Crash(w) => UNCHANGED <<clock, jobs, attempts, results>> /\ workers'[w].pc = "down"
    BY <1>1, CrashFields
  <1>3. ~Struck(w) /\ paused' = IF scenario.action \in {"stop", "hang"} THEN paused \union {w} ELSE paused
    BY FiresFacts DEF FireBeforeCommit
  <1> QED
    BY <1>2, <1>3 DEF FireBeforeCommit, AtCommit, vars, storeVars

\* A cancelled job whose worker dies in its transaction.
LEMMA FinishingAsked ==
    ASSUME Whole, ShapesSound, NEW w \in Worker, NEW t \in open, t.owner = w,
           workers[w].pc = "finish_cancelled"
    PROVE  jobs[JobOf(w)].cancel_requested_at # Null
  <1> DEFINE j == JobOf(w)
  <1>1. DOMAIN t.rows = {j} /\ jobs[j].state \in LeasedStates
    BY OwnLine DEF OwnCalls, OwnShape, Held
  <1>2. t.rows[j].state = "cancelled"
    BY DEF Whole, Desks, CallsSound, AwaitedSound
  <1>3. Moves(t)
    BY DEF Whole, Books, TxnsSound
  <1>4. Outcomes \subseteq ResultStates
    BY OutcomeAssumption DEF ResultStates
  <1>5. AsksCancel(jobs[j], t.rows[j]) => FALSE
    BY <1>1, <1>2 DEF AsksCancel, LeasedStates
  <1>6. ~Takes(jobs[j], t.rows[j]) /\ ~Keeps(jobs[j], t.rows[j]) /\ ~Finishes(jobs[j], t.rows[j])
    BY <1>2, <1>4 DEF Takes, Keeps, Finishes, LeasedStates, ResultStates
  <1>7. GivesBack(j, jobs[j], t.rows[j])
    BY <1>1, <1>3, <1>5, <1>6 DEF Moves
  <1> QED
    BY <1>2, <1>7 DEF GivesBack

\* A reap about to commit, with the ghosts' jobs alone to end.
LEMMA ReapsGhosts ==
    ASSUME LedgerInv, HarnessSound, ShapesSound, LeasesKept, GhostsSound,
           scenario.workload = "ghost",
           NEW w \in Worker, NEW t \in open, t.owner = w, workers[w].pc \in ReapCalls,
           NEW j \in DOMAIN t.rows
    PROVE  j \in Job /\ \E a \in AttemptNo : attempts[<<j, a>>].worker_id = Ghost
  <1> DEFINE a == jobs[j].attempt
  <1>1. Whole /\ j \in Job
    BY WholeSplit DEF Whole, Stored, StoreTypeOK, TxnOK
  <1>2. ReapShape(t)
    BY DEF ShapesSound, CallShape, OwnCalls, ClaimCalls, ReapCalls
  <1>3. Lapsed(jobs[j], clock) /\ jobs[j].state \in LeasedStates
    BY <1>2 DEF ReapShape, Lapsed
  <1>4. a \in AttemptNo
    BY <1>1, <1>3, HeldAttempt DEF Whole, Stored, Rows
  <1>5. ASSUME NEW v \in Worker, Has(v, j, a) PROVE FALSE
    <2>1. Steady /\ Healthy(v)
      BY <1>5, GhostRuns DEF Has
    <2>2. HeldLive(jobs[j], a, clock)
      BY <1>5, <2>1 DEF LeasesKept, KeepsLease, Has, RowOf
    <2>3. jobs[j].lease_expires_at \in Int /\ clock \in Int
      BY <1>1, NullFacts DEF Whole, Stored, StoreTypeOK, JobRow
    <2> QED
      BY <1>3, <2>2, <2>3 DEF HeldLive, Lapsed
  <1> QED
    BY <1>1, <1>3, <1>4, <1>5 DEF GhostsSound

LEMMA BeforeCommitLeaves ==
    ASSUME ChaosInv, NEW w \in Worker, NEW t \in open, FireBeforeCommit(w, t),
           NEW f, f = FaultLine(w, t), NEW effect \in scenario.effects
    PROVE  LeftSound(effect, w, f)'
  <1>1. /\ LedgerInv /\ HarnessSound /\ RowsSound /\ ShapesSound /\ LeasesKept /\ GhostsSound
        /\ Whole /\ Manned /\ ScenarioSound(scenario)
    BY RunsScenario, WholeSplit DEF ChaosInv, Whole
  <1>2. /\ UNCHANGED <<clock, jobs, attempts, results>>
        /\ t.owner = w /\ AtCall(w) /\ Moment = "before_commit" /\ ~Struck(w)
        /\ paused' = IF scenario.action \in {"stop", "hang"} THEN paused \union {w} ELSE paused
        /\ scenario.action = "kill" => workers'[w].pc = "down"
        /\ scenario.action # "kill" => workers' = workers
    BY <1>1, UncommittedFields
  <1>3. f.at = clock /\ clock \in Nat
    BY <1>1, FaultLineAt
  <1>4. workers[w].pc \in OwnCalls =>
           /\ f.job = JobOf(w) /\ f.attempt = AttemptOf(w)
           /\ f.job \in Job /\ f.attempt \in AttemptNo
           /\ Has(w, f.job, f.attempt) /\ Held(jobs[f.job], f.attempt)
    BY <1>1, <1>2, OwnLine DEF OwnShape
  <1>5. workers[w].pc \in ClaimCalls =>
           /\ f.job \in Job /\ f.attempt \in AttemptNo /\ f.attempt = jobs[f.job].attempt + 1
           /\ jobs[f.job].state = "queued"
    <2>1. workers[w].pc \in ClaimCalls => ClaimOf(w, t, f)
      BY <1>1, <1>2, ClaimLine
    <2> QED
      BY <2>1 DEF ClaimOf
  <1>6. scenario.action = "kill" => Powerless(w, f)'
    BY <1>2 DEF Powerless, Has, HoldsJob
  <1>7. CASE effect = "claim_undone"
    <2>1. workers[w].pc \in ClaimCalls
      BY <1>1, <1>2, <1>7, OwnPoints DEF ScenarioSound
    <2>2. jobs[f.job].attempt \in Int
      BY <1>1, <1>5, <2>1 DEF Whole, Stored, StoreTypeOK, JobRow
    <2>3. attempts[<<f.job, f.attempt>>].worker_id # w
      BY <1>1, <1>5, <2>1, <2>2, ClaimedLog
    <2> QED
      BY <1>2, <1>5, <1>7, <2>1, <2>3 DEF LeftSound, Names, LogOf
  <1>8. CASE effect = "retried"
    <2>1. workers[w].pc \in {"release", "publish"}
      BY <1>1, <1>2, <1>8, OwnPoints DEF ScenarioSound, Moment
    <2>2. Powerless(w, f)'
      <3>1. CASE scenario.action = "stop"
        <4>1. scenario.workload # "ghost" /\ workers[w].pc = "publish"
          BY <1>1, <1>2, <1>8, <3>1, OwnPoints DEF ScenarioSound, Moment
        <4>2. jobs[f.job].lease_expires_at <= f.at + Lease
          BY <1>1, <1>3, <1>4, <4>1 DEF RowsSound, LeasesBounded, OwnCalls
        <4> QED
          BY <1>2, <3>1, <4>1, <4>2 DEF Powerless
      <3> QED
        BY <1>1, <1>2, <1>6, <1>8, <3>1 DEF ScenarioSound, Moment
    <2> QED
      BY <1>1, <1>2, <1>4, <1>8, <2>1, <2>2, OwnOrphan DEF LeftSound, OwnCalls
  <1>9. CASE effect = "cancelled"
    <2>1. workers[w].pc = "finish_cancelled" /\ scenario.action = "kill"
      BY <1>1, <1>2, <1>9, OwnPoints DEF ScenarioSound
    <2>2. jobs'[f.job].cancel_requested_at # Null
      BY <1>1, <1>2, <1>4, <2>1, FinishingAsked DEF OwnCalls
    <2> QED
      BY <1>1, <1>2, <1>4, <1>6, <1>9, <2>1, <2>2, OwnOrphan DEF LeftSound, OwnCalls
  <1>10. CASE effect = "same_attempt"
    <2>1. workers[w].pc = "publish" /\ workers' = workers
      BY <1>1, <1>2, <1>10, OwnPoints DEF ScenarioSound, Moment
    <2> QED
      BY <1>4, <1>10, <2>1 DEF LeftSound, Has, JobOf, AttemptOf, OwnCalls
  <1>11. CASE effect = "unblocked"
    <2>1. workers[w].pc \in ClaimCalls \/ workers[w].pc = "publish"
      BY <1>1, <1>2, <1>11, OwnPoints DEF ScenarioSound
    <2>2. f.job \in Job /\ f.attempt \in AttemptNo /\ jobs[f.job].state \in Unfinished
      BY <1>4, <1>5, <2>1 DEF OwnCalls, Held, Unfinished
    <2>3. ResultOf(f.job)' = {}
      BY <1>1, <1>2, <2>2, LeasedUnpublished DEF ResultOf
    <2> QED
      BY <1>11, <2>2, <2>3 DEF LeftSound, Names
  <1>12. CASE effect = "reaped_once"
    <2>1. workers[w].pc \in ReapCalls /\ scenario.workload = "ghost"
      BY <1>1, <1>2, <1>12, OwnPoints DEF ScenarioSound
    <2>2. f.jobs = DOMAIN t.rows
      BY DEF FaultLine
    <2> QED
      BY <1>1, <1>2, <1>12, <2>1, <2>2, ReapsGhosts DEF LeftSound
  <1>13. CASE effect \notin {"claim_undone", "retried", "cancelled", "same_attempt",
                             "unblocked", "reaped_once"}
    <2>1. effect \notin {"stands", "counted", "fenced", "refused"}
      BY <1>1, <1>2 DEF ScenarioSound, Moment
    <2> QED
      BY <1>13, <2>1 DEF LeftSound
  <1> QED
    BY <1>7, <1>8, <1>9, <1>10, <1>11, <1>12, <1>13

\* A leased job's attempt has not ended.
LeasedLive == \A j \in Job : jobs[j].state \in LeasedStates =>
                               attempts[<<j, jobs[j].attempt>>].ended_by = NotEnded

LEMMA WholeLive == Whole => LeasedLive
  BY HeldLedger DEF Whole, Stored, Rows, Books, LeasedLive

\* A fault after the commit comes once the tables say what it wrote.
LEMMA CommittedFields ==
    ASSUME LedgerInv, HarnessSound, ShapesSound,
           NEW w \in Worker, NEW t \in open, FireAfterCommit(w, t)
    PROVE  /\ LeasedLive' /\ Onward /\ Install(t)
           /\ t.owner = w /\ AtCall(w) /\ Moment = "after_commit" /\ logs' = logs
           /\ scenario.action = "kill" => workers'[w].pc = "down"
           /\ scenario.action # "kill" => workers' = workers
           /\ workers[w].pc = "publish" => t.stored # {}
  <1>1. LedgerInv' /\ Onward
    BY FireAfterCommitKept DEF Kept
  <1>2. LedgerInv => LeasedLive
    BY WholeSplit, WholeLive
  <1>3. LeasedLive'
    BY <1>1, <1>2, WholeSplit, WholeLive, PTL
  <1>4. workers \in [Worker -> WorkerState]
    BY WholeSplit DEF Whole, Manned
  <1>5. /\ Install(t)
        /\ \/ workers' = [workers EXCEPT ![w] = Fresh("down")] /\ scenario.action = "kill"
           \/ workers' = workers /\ scenario.action = "drop"
    BY DEF FireAfterCommit
  <1>6. /\ t.owner = w /\ AtCall(w) /\ Moment = "after_commit" /\ logs' = logs
        /\ workers[w].pc = "publish" => t.stored # {}
    BY DEF FireAfterCommit, AtCommit, Fires
  <1> QED
    BY <1>1, <1>3, <1>4, <1>5, <1>6 DEF Fresh

\* A claim, or a start, that its worker never hears of, leaves it an orphan.
LEMMA UnheardOrphan ==
    ASSUME LeasedLive', Onward, Whole, NEW w \in Worker, NEW f, f.job \in Job, f.attempt \in AttemptNo,
           jobs'[f.job].state \in LeasedStates, jobs'[f.job].attempt = f.attempt,
           attempts'[<<f.job, f.attempt>>].worker_id = w, Powerless(w, f)'
    PROVE  Orphaned(w, f)'
  <1>1. attempts'[<<f.job, f.attempt>>].ended_by = NotEnded
    BY DEF LeasedLive
  <1> QED
    BY <1>1 DEF Orphaned, Names, LogOf

LEMMA AfterCommitLeaves ==
    ASSUME ChaosInv, NEW w \in Worker, NEW t \in open, FireAfterCommit(w, t),
           NEW f, f = FaultLine(w, t), NEW effect \in scenario.effects
    PROVE  LeftSound(effect, w, f)'
  <1>1. LedgerInv /\ HarnessSound /\ ShapesSound /\ LogsSound /\ Whole /\ ScenarioSound(scenario)
    BY RunsScenario, WholeSplit DEF ChaosInv
  <1>2. /\ LeasedLive' /\ Onward /\ Install(t)
        /\ t.owner = w /\ AtCall(w) /\ Moment = "after_commit" /\ logs' = logs
        /\ scenario.action = "kill" => workers'[w].pc = "down"
        /\ scenario.action # "kill" => workers' = workers
        /\ workers[w].pc = "publish" => t.stored # {}
    BY <1>1, CommittedFields
  <1>3. CASE effect = "retried"
    <2>1. \/ workers[w].pc \in ClaimCalls /\ scenario.action \in {"kill", "drop"}
          \/ workers[w].pc = "start" /\ scenario.action = "kill"
      BY <1>1, <1>2, <1>3, OwnPoints DEF ScenarioSound, Moment
    <2>2. Powerless(w, f)'
      BY <1>2, <2>1 DEF Powerless, Has, HoldsJob, ClaimCalls
    <2>3. CASE workers[w].pc \in ClaimCalls
      <3>1. ClaimOf(w, t, f)
        BY <1>1, <1>2, <2>3, ClaimLine
      <3>2. /\ f.job \in Job /\ f.attempt \in AttemptNo
            /\ jobs'[f.job].state = "claimed" /\ jobs'[f.job].attempt = f.attempt
            /\ attempts'[<<f.job, f.attempt>>].worker_id = w
        BY <1>1, <1>2, <3>1, LandingRow DEF ClaimOf
      <3> QED
        BY <1>1, <1>2, <1>3, <2>2, <3>2, UnheardOrphan DEF LeftSound, LeasedStates
    <2>4. CASE workers[w].pc = "start"
      <3>1. /\ f.job = JobOf(w) /\ f.attempt = AttemptOf(w)
            /\ OwnShape("start", f.job, f.attempt, t) /\ f.job \in Job /\ f.attempt \in AttemptNo
            /\ Has(w, f.job, f.attempt)
        BY <1>1, <1>2, <2>4, OwnLine DEF OwnCalls
      <3>2. jobs'[f.job] = t.rows[f.job]
        BY <1>1, <1>2, <3>1, LandingRow DEF OwnShape
      <3>3. jobs'[f.job].state \in LeasedStates /\ jobs'[f.job].attempt = f.attempt
        BY <3>1, <3>2 DEF OwnShape
      <3>4. attempts'[<<f.job, f.attempt>>].worker_id = w
        BY <1>1, <1>2, <3>1, AtDesk, ClaimStays DEF Has
      <3> QED
        BY <1>1, <1>2, <1>3, <2>2, <3>1, <3>3, <3>4, UnheardOrphan DEF LeftSound
    <2> QED
      BY <2>1, <2>3, <2>4
  <1>4. CASE effect \in {"stands", "counted"}
    <2>1. workers[w].pc = "publish" /\ (effect = "counted" => scenario.action = "drop")
      BY <1>1, <1>2, <1>4, OwnPoints DEF ScenarioSound
    <2>2. /\ f.job = JobOf(w) /\ f.attempt = AttemptOf(w)
          /\ OwnShape("publish", f.job, f.attempt, t) /\ f.job \in Job /\ f.attempt \in AttemptNo
          /\ Has(w, f.job, f.attempt)
      BY <1>1, <1>2, <2>1, OwnLine DEF OwnCalls
    <2>3. PICK r \in t.stored : r.job_id = f.job /\ r.attempt = f.attempt /\ r.worker_id = w
      BY <1>1, <1>2, <2>1, <2>2 DEF Whole, Desks, CallsSound, AwaitedSound
    <2>4. r \in results' /\ r \in ResultOf(f.job)'
      BY <1>2, <2>3 DEF Install, ResultOf
    <2>5. CASE effect = "stands"
      <3>1. jobs'[f.job].attempt = f.attempt
        BY <1>1, <1>2, <2>2, LandingRow DEF OwnShape
      <3>2. ResultFrom(f)'
        BY <2>3, <2>4 DEF ResultFrom
      <3> QED
        BY <2>2, <2>5, <3>1, <3>2 DEF LeftSound, Names, Stands
    <2>6. CASE effect = "counted"
      <3>1. \E s \in results' : s.job_id = f.job /\ s.attempt = f.attempt /\ s.worker_id = w
        BY <2>3, <2>4
      <3>2. workers'[w].pc = "publish"
        BY <1>2, <2>1, <2>6
      <3>3. ~Refusal(w, f)
        BY <1>1, <2>2 DEF LogsSound, Refusal
      <3> QED
        BY <1>2, <2>6, <3>1, <3>2, <3>3 DEF LeftSound, Refusal
    <2> QED
      BY <1>4, <2>5, <2>6
  <1>5. CASE effect \notin {"retried", "stands", "counted"}
    <2>1. effect \notin {"claim_undone", "cancelled", "same_attempt", "fenced", "refused",
                         "unblocked", "reaped_once"}
      BY <1>1, <1>2 DEF ScenarioSound, Moment
    <2> QED
      BY <1>5, <2>1 DEF LeftSound
  <1> QED
    BY <1>3, <1>4, <1>5

LEMMA FaultsKept ==
    ASSUME ChaosInv, [ChaosNext]_chaosVars
    PROVE  FaultsSound'
  <1>1. LedgerInv /\ HarnessSound /\ FaultsSound
    BY DEF ChaosInv
  <1>2. scenario' = scenario /\ (faults' = faults \/ \E v \in Worker : FiresOn(v))
    BY <1>1, HarnessStep
  <1> SUFFICES ASSUME NEW w \in Worker, Struck(w)', NEW effect \in scenario.effects,
                      NEW f, f = faults'[w]
               PROVE  LeftSound(effect, w, f)'
    BY <1>2 DEF FaultsSound
  <1>3. CASE Struck(w)
    <2>1. f = faults[w] /\ LeftSound(effect, w, f)
      BY <1>1, <1>3, StaysStruck DEF FaultsSound
    <2> QED
      BY <1>3, <2>1, LeftKept
  <1>4. CASE ~Struck(w)
    <2>1. PICK v \in Worker : FiresOn(v)
      BY <1>2, <1>4 DEF Struck
    <2>2. ASSUME NEW line, Fires(v, line) PROVE w = v /\ f = line
      <3>1. faults'[v] = line /\ \A u \in Worker \ {v} : faults'[u] = faults[u]
        BY <1>1, <2>2, FiresFacts
      <3> QED
        BY <1>4, <3>1 DEF Struck
    <2>3. CASE FireBefore(v)
      <3>1. w = v /\ f = FaultLine(w, Txn(w, NoRows, NoRows, {}))
        BY <2>2, <2>3 DEF FireBefore
      <3> QED
        BY <2>3, <3>1, BeforeLeaves
    <2>4. ASSUME NEW t \in open, FireBeforeCommit(v, t) PROVE LeftSound(effect, w, f)'
      <3>1. w = v /\ f = FaultLine(w, t)
        BY <2>2, <2>4 DEF FireBeforeCommit
      <3> QED
        BY <2>4, <3>1, BeforeCommitLeaves
    <2>5. ASSUME NEW t \in open, FireAfterCommit(v, t) PROVE LeftSound(effect, w, f)'
      <3>1. w = v /\ f = FaultLine(w, t)
        BY <2>2, <2>5 DEF FireAfterCommit
      <3> QED
        BY <2>5, <3>1, AfterCommitLeaves
    <2> QED
      BY <2>1, <2>3, <2>4, <2>5 DEF FiresOn
  <1> QED
    BY <1>3, <1>4

-----------------------------------------------------------------------------
(* The invariant.                                                          *)

\* Once every job is final, no failpoint stops a worker any more.
LEMMA NoneStopsLate ==
    ASSUME ChaosInv, stopping, scenario.action = "stop", NEW w \in Worker
    PROVE  ~FiresOn(w)
  <1> SUFFICES ASSUME FiresOn(w) PROVE FALSE
    OBVIOUS
  <1>1. /\ LedgerInv /\ HarnessSound /\ RowsSound /\ ShapesSound /\ LeasesKept /\ Whole
        /\ ScenarioSound(scenario)
    BY RunsScenario, WholeSplit DEF ChaosInv
  <1>2. /\ scenario.workload \in {"sleep", "long"}
        /\ scenario.point \in {<<"heartbeat", "before">>, <<"publish", "before">>,
                               <<"publish", "before_commit">>}
    BY <1>1 DEF ScenarioSound
  <1>3. ~Struck(w) /\ Steady /\ \A j \in Job : jobs[j].state \notin LeasedStates
    BY <1>1, <1>2, StruckOnce DEF Steady, Moment, HarnessSound, FinalStates, LeasedStates, ResultStates
  <1>4. CASE FireBefore(w)
    <2>1. workers[w].pc \in {"running", "heartbeat", "publish"}
      BY <1>2, <1>4, OwnPoints DEF FireBefore, AtBefore, Moment
    <2>2. Has(w, JobOf(w), AttemptOf(w)) /\ Held(jobs[JobOf(w)], AttemptOf(w))
      BY <1>1, <1>2, <1>3, <2>1, UnstruckHolds
    <2> QED
      BY <1>1, <1>3, <2>2, AtDesk DEF Has, Held
  <1>5. ASSUME NEW t \in open, FireBeforeCommit(w, t) PROVE FALSE
    <2>1. workers[w].pc = "publish" /\ t.owner = w
      BY <1>2, <1>5, OwnPoints DEF FireBeforeCommit, AtCommit, Moment
    <2> QED
      BY <1>1, <1>3, <2>1, OwnLine DEF OwnCalls, OwnShape, Held
  <1>6. ASSUME NEW t \in open, FireAfterCommit(w, t) PROVE FALSE
    BY <1>2, <1>6 DEF FireAfterCommit, Moment
  <1> QED
    BY <1>4, <1>5, <1>6 DEF FiresOn

LEMMA AwakeKept ==
    ASSUME ChaosInv, [ChaosNext]_chaosVars
    PROVE  AwakeAtEnd'
  <1>1. LedgerInv /\ HarnessSound /\ AwakeAtEnd
    BY DEF ChaosInv
  <1> SUFFICES ASSUME stopping', scenario'.action = "stop" PROVE paused' = {}
    BY DEF AwakeAtEnd
  <1>2. scenario' = scenario
    BY <1>1, HarnessStep
  <1>3. StopAll => paused' = {}
    BY <1>2 DEF StopAll, Drained
  <1>4. ASSUME NEW w \in Worker,
               Work(w) \/ Wake(w) \/ FiresOn(w) \/ \E t \in open : IdleOut(w, t)
        PROVE  paused' = {}
    <2>1. stopping' = stopping
      BY <1>4 DEF Work, Wake, IdleOut, FiresOn, FireBefore, FireBeforeCommit,
                  FireAfterCommit, Fires
    <2>2. ~FiresOn(w) /\ paused = {}
      BY <1>1, <1>2, <2>1, NoneStopsLate DEF AwakeAtEnd
    <2> QED
      BY <1>4, <2>2 DEF Work, Wake, IdleOut
  <1>5. ASSUME \/ UNCHANGED harnessVars \/ ReplaceTheDead \/ DriveGhost \/ DriveRestart
               \/ ChaosTick \/ (\E j \in Job : DriveCancel(j)) \/ UNCHANGED chaosVars
        PROVE  stopping' = stopping /\ paused' = paused
    BY <1>5 DEF ReplaceTheDead, DriveGhost, DriveRestart, ChaosTick, DriveCancel, harnessVars,
                chaosVars
  <1>6. stopping' = stopping /\ paused' = paused => paused' = {}
    BY <1>1, <1>2 DEF AwakeAtEnd
  <1>7. \/ StopAll
        \/ UNCHANGED harnessVars \/ ReplaceTheDead \/ DriveGhost \/ DriveRestart \/ ChaosTick
        \/ (\E j \in Job : DriveCancel(j)) \/ UNCHANGED chaosVars
        \/ \E w \in Worker :
             Work(w) \/ Wake(w) \/ FiresOn(w) \/ \E t \in open : IdleOut(w, t)
    BY DEF ChaosNext, FiresOn
  <1> QED
    BY <1>3, <1>4, <1>5, <1>6, <1>7

LEMMA InitPlanned == ChaosInit => PlanSound /\ workers \in [Worker -> {Fresh("step"), Fresh("down")}]
  <1> SUFFICES ASSUME ChaosInit
               PROVE  PlanSound /\ workers \in [Worker -> {Fresh("step"), Fresh("down")}]
    OBVIOUS
  <1>1. PICK name \in Scenarios, W \in SUBSET (Worker \ {Ghost}) :
          LET s == SCENARIOS[name]
              n == IF s.action = "restart" THEN 0 ELSE Faults(s)
          IN  /\ scenario = s
              /\ plan = [arms |-> n - Cardinality({w \in W : arms[w] # 0}),
                         restarts |-> IF s.action = "restart" THEN Faults(s) ELSE 0]
              /\ workers = [w \in Worker |-> Fresh(IF w \in W THEN "step" ELSE "down")]
    BY DEF ChaosInit
  <1>2. PICK a, b : plan = [arms |-> a, restarts |-> b] /\ (scenario.action # "restart" => b = 0)
    BY <1>1
  <1> QED
    BY <1>1, <1>2 DEF PlanSound

LEMMA InitInvariant == ChaosInit => ChaosInv
  <1> SUFFICES ASSUME ChaosInit PROVE ChaosInv
    OBVIOUS
  <1>1. LedgerInv /\ HarnessSound /\ PlanSound /\ AwakeAtEnd
    BY InitRecorded, InitPlanned DEF ChaosInit, AwakeAtEnd
  <1>2. /\ StoreInit /\ logs = {} /\ faults = [w \in Worker |-> NoFault]
        /\ workers \in [Worker -> {Fresh("step"), Fresh("down")}]
    BY InitPlanned DEF ChaosInit
  <1>3. clock = 0 /\ open = {} /\ Lease \in Nat
    BY <1>2, LeaseAssumption DEF StoreInit
  <1>4. \A j \in Job : /\ jobs[j].state = "queued" /\ jobs[j].cancel_requested_at = Null
                       /\ jobs[j].lease_expires_at = Null
    BY <1>2 DEF StoreInit
  <1>5. \A k \in Job \X AttemptNo : attempts[k].worker_id = NoWorker
    BY <1>2, NoAttemptFields DEF StoreInit
  <1>6. RowsSound
    BY <1>3, <1>4, NullFacts DEF RowsSound, NoCancel, LeasesBounded
  <1>7. \A w \in Worker : workers[w].pc \in {"step", "down"}
    BY <1>2 DEF Fresh
  <1>8. ShapesSound /\ LeasesKept
    BY <1>3, <1>7 DEF ShapesSound, LeasesKept, KeepsLease, HoldsJob
  <1>9. GhostsSound
    BY <1>4, <1>5, GhostAssumption, WorkerAssumption DEF GhostsSound, LeasedStates
  <1>10. LogsSound /\ FaultsSound
    BY <1>2 DEF LogsSound, FaultsSound, Struck
  <1> QED
    BY <1>1, <1>6, <1>8, <1>9, <1>10 DEF ChaosInv

\* The harness's invariant is inductive: from the workers it starts to the end
\* of the batch, under every fault of every scenario (chaos/scenarios.py), what
\* a fault has left so far is what its worker, its job's row and that row's
\* attempts say, and only a reap is left to end what it orphaned.
THEOREM ChaosInductive == ChaosSpec => []ChaosInv
  <1>1. ChaosInv /\ [ChaosNext]_chaosVars => ChaosInv'
    <2> SUFFICES ASSUME ChaosInv, [ChaosNext]_chaosVars PROVE ChaosInv'
      OBVIOUS
    <2>1. /\ LedgerInv /\ HarnessSound /\ PlanSound /\ RowsSound /\ ShapesSound
          /\ LeasesKept /\ GhostsSound /\ LogsSound
      BY DEF ChaosInv
    <2>2. LedgerInv' /\ HarnessSound' /\ PlanSound' /\ AwakeAtEnd'
      BY <2>1, ChaosKept, RecordsKept, PlanKept, AwakeKept DEF Kept
    <2>3. RowsSound' /\ ShapesSound' /\ LeasesKept'
      BY <2>1, RowsKept, ShapesKept, LeasesStayKept
    <2>4. GhostsSound' /\ LogsSound' /\ FaultsSound'
      BY <2>1, GhostsKept, LogsKept, FaultsKept
    <2> QED
      BY <2>2, <2>3, <2>4 DEF ChaosInv
  <1> QED
    BY <1>1, InitInvariant, PTL DEF ChaosSpec

-----------------------------------------------------------------------------
(* What the record shows once every process has stopped.                   *)

\* An orphaned attempt was reaped, since its job is final.
LEMMA OrphanReaped ==
    ASSUME Whole, NEW w \in Worker, NEW f, Orphaned(w, f), jobs[f.job].state \in FinalStates
    PROVE  LogOf(f).worker_id = w /\ LogOf(f).ended_by = "lease_expired"
  <1>1. jobs[f.job].state \notin LeasedStates
    BY DEF FinalStates, LeasedStates, ResultStates
  <1> QED
    BY <1>1, LiveLog DEF Orphaned, Names, LogOf

\* With attempts left, such a job went on to another.
LEMMA OrphanRetried ==
    ASSUME Whole, NoCancel, NEW w \in Worker, NEW f, Orphaned(w, f),
           jobs[f.job].state \in FinalStates
    PROVE  WasRetried(w, f)
  <1> DEFINE j == f.job
             a == f.attempt
  <1>1. /\ j \in Job /\ a \in AttemptNo /\ LogOf(f).worker_id = w
        /\ LogOf(f).ended_by = "lease_expired"
    BY OrphanReaped DEF Orphaned, Names
  <1>2. /\ jobs[j] \in JobRow /\ RowSound(j, jobs[j]) /\ EndSound(j, jobs[j])
        /\ LedgerSound(jobs[j], Logs(j), clock)
    BY <1>1 DEF Whole, Stored, StoreTypeOK, CommittedSound, Books, RecordsSound
  <1>3. a <= jobs[j].attempt
    BY <1>1, ClaimedLog DEF LogOf
  <1>4. jobs[j].attempt <= MaxAttempts[j]
    BY <1>2 DEF RowSound, JobChecks
  <1>5. jobs[j].attempt \in Nat /\ a \in Nat /\ MaxAttempts[j] \in Nat
    BY <1>1, <1>2, BudgetAssumption DEF JobRow, AttemptNo
  <1>6. ASSUME a = jobs[j].attempt
        PROVE  jobs[j].state = "dead_lettered" /\ jobs[j].attempt >= MaxAttempts[j]
    <2>1. LatestSound(jobs[j], Logs(j)[a]) /\ Logs(j)[a].ended_by = "lease_expired"
      BY <1>1, <1>2, <1>6 DEF LedgerSound, Logs, LogOf
    <2>2. jobs[j].state \notin ResultStates
      BY <2>1 DEF LatestSound
    <2>3. jobs[j].state # "cancelled"
      BY <1>1, <1>2 DEF NoCancel, EndSound
    <2> QED
      BY <1>2, <2>2, <2>3 DEF FinalStates, EndSound
  <1> QED
    BY <1>1, <1>3, <1>4, <1>5, <1>6 DEF WasRetried, Final

\* A worker that is not paused holds no job any more.
LEMMA StoppedFree ==
    ASSUME HarnessSound, Stopped, NEW w \in Worker, Struck(w), w \notin paused, NEW j, NEW a
    PROVE  ~Has(w, j, a)
  <1>1. w \in started
    BY DEF HarnessSound, WorkerRecorded
  <1> QED
    BY <1>1 DEF Stopped, Has, HoldsJob

LEMMA EffectHolds ==
    ASSUME ChaosInv, Stopped, NEW w \in Worker, Struck(w), NEW effect \in scenario.effects,
           NEW f, f = faults[w]
    PROVE  EFFECT_CHECKS(effect, w, f)
  <1>1. /\ LedgerInv /\ HarnessSound /\ AwakeAtEnd /\ RowsSound /\ GhostsSound /\ Whole
        /\ ScenarioSound(scenario) /\ LeftSound(effect, w, f)
    BY RunsScenario, WholeSplit DEF ChaosInv, FaultsSound
  <1>2. /\ WorkerRecorded(w) /\ w \in started
        /\ \A j \in Job : jobs[j].state \in FinalStates
    BY <1>1 DEF HarnessSound, WorkerRecorded, Stopped
  <1>3. scenario.action \in {"drop", "stop"} => w \notin paused
    BY <1>1, <1>2 DEF WorkerRecorded, AwakeAtEnd, Stopped
  <1>4. CASE effect \in {"died", "survived"}
    BY <1>1, <1>2, <1>4 DEF ScenarioSound, WorkerRecorded, EFFECT_CHECKS, Died, Survived
  <1>5. CASE effect = "claim_undone"
    BY <1>1, <1>5 DEF LeftSound, EFFECT_CHECKS, ClaimUndone
  <1>6. CASE effect = "retried"
    <2>1. NoCancel /\ Orphaned(w, f) /\ f.job \in Job
      BY <1>1, <1>6 DEF ScenarioSound, RowsSound, LeftSound, Orphaned, Names
    <2> QED
      BY <1>1, <1>2, <1>6, <2>1, OrphanRetried DEF EFFECT_CHECKS
  <1>7. CASE effect = "cancelled"
    <2>1. Orphaned(w, f) /\ f.job \in Job /\ jobs[f.job].cancel_requested_at # Null
      BY <1>1, <1>7 DEF LeftSound, Orphaned, Names
    <2>2. jobs[f.job].state = "cancelled"
      BY <1>1, <1>2, <2>1
         DEF Whole, Stored, CommittedSound, RowSound, FinalStates, LeasedStates, ResultStates
    <2>3. ResultOf(f.job) = {}
      BY <1>1, <2>1, <2>2, OutcomeAssumption, ResultEnds DEF ResultOf, ResultStates
    <2> QED
      BY <1>1, <1>2, <1>7, <2>1, <2>2, <2>3, OrphanReaped DEF EFFECT_CHECKS, WasCancelled
  <1>8. CASE effect = "same_attempt"
    <2>1. ~Has(w, f.job, f.attempt)
      BY <1>1, <1>3, <1>8, StoppedFree DEF ScenarioSound
    <2> QED
      BY <1>1, <1>8, <2>1 DEF LeftSound, EFFECT_CHECKS
  <1>9. CASE effect \in {"stands", "counted"}
    BY <1>1, <1>9 DEF LeftSound, EFFECT_CHECKS
  <1>10. CASE effect \in {"fenced", "refused"}
    <2>1. scenario.action = "stop" /\ "retried" \in scenario.effects
      BY <1>1, <1>10 DEF ScenarioSound
    <2>2. ~Has(w, f.job, f.attempt) /\ LeftSound("retried", w, f)
      BY <1>1, <1>3, <2>1, StoppedFree DEF ChaosInv, FaultsSound
    <2>3. f.attempt \in AttemptNo
      BY <2>2 DEF LeftSound, Orphaned, Names
    <2> QED
      BY <1>1, <1>10, <2>2, <2>3 DEF LeftSound, Awaits, EFFECT_CHECKS, Fenced
  <1>11. CASE effect = "unblocked"
    BY <1>1, <1>2, <1>11 DEF LeftSound, Names, EFFECT_CHECKS, Unblocked, Final
  <1>12. CASE effect = "reaped_once"
    <2>1. scenario.workload = "ghost"
      BY <1>1, <1>12 DEF ScenarioSound
    <2> SUFFICES ASSUME NEW j \in f.jobs
                 PROVE  LET ghost == {a \in AttemptNo : attempts[<<j, a>>].worker_id = Ghost}
                        IN  /\ ghost # {} /\ Final(j)
                            /\ \A a \in ghost : attempts[<<j, a>>].ended_by = "lease_expired"
      BY <1>12 DEF EFFECT_CHECKS, ReapedOnce
    <2>2. j \in Job /\ (\E a \in AttemptNo : attempts[<<j, a>>].worker_id = Ghost) /\ Final(j)
      BY <1>1, <1>2, <1>12 DEF LeftSound, Final
    <2>3. ASSUME NEW a \in AttemptNo, attempts[<<j, a>>].worker_id = Ghost
          PROVE  attempts[<<j, a>>].ended_by = "lease_expired"
      <3>1. attempts[<<j, a>>].ended_by \in {NotEnded, "lease_expired"}
        BY <1>1, <2>1, <2>2, <2>3 DEF GhostsSound
      <3>2. attempts[<<j, a>>].ended_by # NotEnded
        BY <1>1, <1>2, <2>2, <2>3, LiveLog, GhostAssumption DEF FinalStates, LeasedStates, ResultStates
      <3> QED
        BY <3>1, <3>2
    <2> QED
      BY <2>2, <2>3
  <1>13. CASE effect = "all_survived"
    BY <1>1, <1>13 DEF ScenarioSound, HarnessSound, WorkerRecorded, EFFECT_CHECKS, Survived
  <1> QED
    BY <1>1, <1>4, <1>5, <1>6, <1>7, <1>8, <1>9, <1>10, <1>11, <1>12, <1>13 DEF ScenarioSound

\* The harness reads the run with the fleet's checker itself.
LEMMA CheckersAgree ==
    ASSUME NEW j \in Job, jobs[j].state \in FinalStates,
           OneResult(j), NoStaleWrite(j), Accounting(j)
    PROVE  /\ jobs[j].state \in Checker!FinalStates
           /\ Checker!OneResult(j) /\ Checker!NoStaleWrite(j) /\ Checker!Accounting(j)
  <1>1. /\ Checker!ResultStates = ResultStates /\ Checker!FinalStates = FinalStates
        /\ Checker!RetryEndings = RetryEndings /\ Checker!LiveEndings = LiveEndings
        /\ Checker!AttemptNo = AttemptNo /\ Checker!Null = Null
    BY DEF Checker!ResultStates, ResultStates, Checker!FinalStates, FinalStates,
           Checker!RetryEndings, RetryEndings, Checker!LiveEndings, LiveEndings,
           Checker!AttemptNo, AttemptNo, Checker!Null, Null
  <1>2. Checker!Log(j) = Log(j) /\ Checker!ResultsOf(j) = ResultsOf(j)
    BY <1>1 DEF Checker!Log, Log, Checker!ResultsOf, ResultsOf
  <1>3. Checker!OneResult(j)
    BY <1>1, <1>2 DEF Checker!OneResult, OneResult
  <1>4. \A r \in ResultsOf(j) : Checker!Entitled(j, r)
    BY <1>1, <1>2 DEF NoStaleWrite, Checker!Entitled, Entitled
  <1>5. Checker!NoOverlap(j)
    BY <1>1, <1>2 DEF NoStaleWrite, Checker!NoOverlap, NoOverlap
  <1>6. \A a : (Checker!IsLast(j, a) <=> IsLast(j, a))
    BY <1>2 DEF Checker!IsLast, IsLast
  <1>7. \A log : (Checker!EndedInTime(log) <=> EndedInTime(log))
    BY <1>1 DEF Checker!EndedInTime, EndedInTime
  <1>8. Checker!Accounting(j)
    BY <1>1, <1>2, <1>6, <1>7 DEF Checker!Accounting, Accounting
  <1> QED
    BY <1>1, <1>2, <1>3, <1>4, <1>5, <1>8 DEF Checker!NoStaleWrite

\* The record checker (chaos/harness.py, _record) finds every effect that
\* chaos/scenarios.py says a fault must leave, for any number of workers, jobs,
\* faults and ticks, whichever scenario runs and whatever each fault hits.
THEOREM EffectsLeft == ChaosSpec => []FaultsLeaveTheirEffects
  <1>1. ChaosInv => FaultsLeaveTheirEffects
    <2> SUFFICES ASSUME ChaosInv, Stopped PROVE Violations = {}
      BY DEF FaultsLeaveTheirEffects
    <2>1. LedgerInv /\ HarnessSound /\ stopping
      BY DEF ChaosInv, Stopped
    <2>2. Checker!Check(Job)
      <3>1. FinalJobsPassCheck /\ \A j \in Job : jobs[j].state \in FinalStates
        BY <2>1, FinalChecked DEF HarnessSound
      <3>2. \A j \in Job : OneResult(j) /\ NoStaleWrite(j) /\ Accounting(j)
        BY <3>1 DEF FinalJobsPassCheck, CheckJobs
      <3> QED
        BY <3>1, <3>2, CheckersAgree DEF Checker!Check, Checker!NothingLost, Checker!CheckJobs
    <2>3. \A w \in Worker, effect \in scenario.effects :
             faults[w] # NoFault => EFFECT_CHECKS(effect, w, faults[w])
      BY EffectHolds DEF Struck
    <2> QED
      BY <2>2, <2>3 DEF Violations
  <1> QED
    BY <1>1, ChaosInductive, PTL
=============================================================================
