------------------------------- MODULE Fleet --------------------------------
(***************************************************************************)
(* The fleet: worker processes (backend/fleet/worker.py) making store      *)
(* calls on one Postgres, a client of the api cancelling jobs, dropped     *)
(* connections, killed workers, and time.                                  *)
(*                                                                         *)
(* A call is two steps, its statements and its commit, and anything may    *)
(* happen in between.  A worker whose connection drops makes the call      *)
(* again on a fresh one (connections.py, ride_through) and a killed worker *)
(* never does; either way the session it leaves behind still holds its     *)
(* locks, and later commits (the COMMIT was on its way) or rolls back (it  *)
(* was not, and the server noticed or timed the session out).              *)
(***************************************************************************)
EXTENDS JobStore

CONSTANTS
    Cancellable,  \* the jobs clients ask to cancel
    MaxClock      \* bounds the clock

ASSUME CancelAssumption == Cancellable \subseteq Job
ASSUME ClockAssumption  == MaxClock \in Nat

VARIABLE workers

vars == <<storeVars, workers>>

RunnerError == "runner error"
Reports     == {"none", "published", "rejected", "lost", "released", "cancelled"}

\* Where Worker.step is: the call it makes next, or is making.
Calls == {"timer_reap", "claim", "idle_reap", "reclaim", "start", "heartbeat",
          "record", "publish", "release", "finish_cancelled", "job_status"}
PC    == Calls \union {"step", "running", "down"}

\* job and attempt are the latest claimed; result is what the run came to;
\* asked is the clock reading of a statement that waits for a row lock; and
\* report is which counter the step that ended last bumped.
WorkerState ==
    [pc : PC, job : Job \union {Null}, attempt : Nat,
     result : Outcomes \union {RunnerError, "none"},
     asked : Nat \union {Null}, report : Reports]

Fresh(pc) ==
    [pc |-> pc, job |-> Null, attempt |-> 0, result |-> "none",
     asked |-> Null, report |-> "none"]

Init == StoreInit /\ workers = [w \in Worker |-> Fresh("step")]

-----------------------------------------------------------------------------
JobOf(w)     == workers[w].job
AttemptOf(w) == workers[w].attempt
RowOf(w)     == jobs[JobOf(w)]

\* w is at this call with no transaction of its own open.
At(w, pc) ==
    /\ workers[w].pc = pc
    /\ \A t \in open : t.owner # w

Go(w, pc) == workers' = [workers EXCEPT ![w].pc = pc]

\* The step is over, having bumped a counter.
Report(w, what) ==
    workers' = [workers EXCEPT ![w].pc = "step", ![w].asked = Null,
                               ![w].result = "none", ![w].report = what]

Begin(t) == open' = open \union {t} /\ UNCHANGED <<clock, jobs, attempts, results>>

-----------------------------------------------------------------------------
(* Worker.step, call by call.                                              *)

\* The reap timer is due, or it is not.
BeginStep(w) ==
    /\ At(w, "step")
    /\ \/ Go(w, "timer_reap")
       \/ Go(w, "claim")
    /\ UNCHANGED storeVars

\* reap passes the rows others hold and takes every lapsed job left.
AfterReap(w) == IF workers[w].pc = "timer_reap" THEN "claim" ELSE "reclaim"

Reap(w) ==
    /\ At(w, "timer_reap") \/ At(w, "idle_reap")
    /\ LET lapsed == {j \in Job : Unlocked(j) /\ Lapsed(jobs[j], clock)}
       IN  \/ /\ lapsed = {}
              /\ Go(w, AfterReap(w))
              /\ UNCHANGED storeVars
           \/ /\ lapsed # {}
              /\ Begin(EndAttemptsTxn(w, lapsed, clock, "lease_expired"))
              /\ UNCHANGED workers

\* claim passes locked rows too, and takes the oldest job left.
AfterNoClaim(w) == IF workers[w].pc = "claim" THEN "idle_reap" ELSE "step"

Claim(w) ==
    /\ At(w, "claim") \/ At(w, "reclaim")
    /\ LET ready == {j \in Job : Unlocked(j) /\ Claimable(jobs[j], clock)}
       IN  \/ /\ ready = {}
              /\ Go(w, AfterNoClaim(w))
              /\ UNCHANGED storeVars
           \/ \E j \in ready :
                /\ \A k \in ready : j <= k
                /\ Begin(ClaimTxn(w, j, clock))
                /\ UNCHANGED workers

\* start waits for the row's lock only if the committed row passes its test;
\* if it does not, the job may be running already, by an earlier ask.
StartDue(row, a, at) ==
    HeldLive(row, a, at) /\ row.state = "claimed" /\ row.cancel_requested_at = Null

AlreadyStarted(row, a, at) ==
    HeldLive(row, a, at) /\ row.state = "running" /\ row.cancel_requested_at = Null

Start(w) ==
    /\ At(w, "start")
    /\ \/ /\ StartDue(RowOf(w), AttemptOf(w), clock)
          /\ Unlocked(JobOf(w))
          /\ Begin(StartTxn(w, JobOf(w)))
          /\ UNCHANGED workers
       \/ /\ ~StartDue(RowOf(w), AttemptOf(w), clock)
          /\ Go(w, IF AlreadyStarted(RowOf(w), AttemptOf(w), clock)
                   THEN "running" ELSE "finish_cancelled")
          /\ UNCHANGED storeVars

\* _run's timer: a heartbeat that finds its lease gone stops the run.
Heartbeat(w) ==
    /\ At(w, "running") \/ At(w, "heartbeat")
    /\ \/ /\ HeldLive(RowOf(w), AttemptOf(w), clock)
          /\ Unlocked(JobOf(w))
          /\ Begin(HeartbeatTxn(w, JobOf(w), AttemptOf(w), clock))
          /\ Go(w, "heartbeat")
       \/ /\ ~HeldLive(RowOf(w), AttemptOf(w), clock)
          /\ Report(w, "lost")
          /\ UNCHANGED storeVars

\* The run ends with an outcome or a RunnerError, and if it ran in a
\* container, with an execution to record first.
AfterRun(result) == IF result = RunnerError THEN "release" ELSE "publish"

RunEnds(w) ==
    /\ At(w, "running")
    /\ \E result \in Outcomes \union {RunnerError} :
         \E pc \in {"record", AfterRun(result)} :
           workers' = [workers EXCEPT ![w].pc = pc, ![w].result = result]
    /\ UNCHANGED storeVars

RecordExecution(w) ==
    /\ At(w, "record")
    /\ LogUnlocked(<<JobOf(w), AttemptOf(w)>>)
    /\ attempts' = [attempts EXCEPT ![<<JobOf(w), AttemptOf(w)>>].execution = TRUE]
    /\ Go(w, AfterRun(workers[w].result))
    /\ UNCHANGED <<clock, jobs, results, open>>

\* Broken: a publish made again does not know its own result.
StoredBeforeUnknown(w) == {}

\* The very result w publishes, stored by an earlier ask.
StoredBefore(w) ==
    {r \in results : /\ r.job_id = JobOf(w) /\ r.attempt = AttemptOf(w)
                     /\ r.worker_id = w /\ r.outcome = workers[w].result}

\* publish, once it has the row's lock: refuse a job no longer held (unless
\* by this very result), end a cancelled one, check the lease, or store.
Publish(w) ==
    LET j == JobOf(w)
        a == AttemptOf(w)
        own == StoredBefore(w)
        held == Held(jobs[j], a)
        live == jobs[j].lease_expires_at > clock
        asked == jobs[j].cancel_requested_at # Null
    IN  /\ At(w, "publish")
        /\ held => Unlocked(j)
        /\ \/ /\ ~held /\ own # {}
              /\ Report(w, "published")
              /\ UNCHANGED storeVars
           \/ /\ (~held /\ own = {}) \/ (held /\ ~live)
              /\ Go(w, "job_status")
              /\ UNCHANGED storeVars
           \/ /\ held /\ asked /\ live
              /\ Begin(FinishCancelledTxn(w, j, a, clock))
              /\ UNCHANGED workers
           \/ /\ held /\ ~asked /\ live
              /\ Begin(PublishTxn(w, j, a, clock, workers[w].result))
              /\ UNCHANGED workers

\* Which counter a refused publish bumps.
JobStatus(w) ==
    /\ At(w, "job_status")
    /\ Report(w, IF RowOf(w).state = "cancelled" THEN "cancelled" ELSE "rejected")
    /\ UNCHANGED storeVars

\* release and finish_cancelled read the clock once, before they wait for
\* the row's lock, and test the row they get against that reading.
ReleaseDue(w, at) ==
    workers[w].pc = "release" /\ HeldLive(RowOf(w), AttemptOf(w), at)
FinishDue(w, at) ==
    workers[w].pc = "finish_cancelled" /\ CancelDue(RowOf(w), AttemptOf(w), at)

\* Nothing to end: an earlier ask may have ended it, else it is lost.
EarlierAsk(w) ==
    LET ending == IF workers[w].pc = "release" THEN "released" ELSE "cancelled"
    IN  /\ Report(w, IF EndedBy(JobOf(w), AttemptOf(w), ending) THEN ending ELSE "lost")
        /\ UNCHANGED storeVars

EndDue(w, at) == ReleaseDue(w, at) \/ FinishDue(w, at)

\* What the statement does with the lock it gets, having read the clock at at.
EndAttempt(w, at) ==
    \/ /\ ReleaseDue(w, at)
       /\ Begin(EndAttemptsTxn(w, {JobOf(w)}, at, "released"))
       /\ UNCHANGED workers
    \/ /\ FinishDue(w, at)
       /\ Begin(FinishCancelledTxn(w, JobOf(w), AttemptOf(w), at))
       /\ UNCHANGED workers
    \/ /\ ~EndDue(w, at)
       /\ EarlierAsk(w)

AskToEnd(w) ==
    /\ At(w, "release") \/ At(w, "finish_cancelled")
    /\ workers[w].asked = Null
    /\ \/ /\ EndDue(w, clock) => Unlocked(JobOf(w))
          /\ EndAttempt(w, clock)
       \/ /\ EndDue(w, clock) /\ ~Unlocked(JobOf(w))
          /\ workers' = [workers EXCEPT ![w].asked = clock]
          /\ UNCHANGED storeVars

EndWaited(w) ==
    /\ At(w, "release") \/ At(w, "finish_cancelled")
    /\ workers[w].asked # Null
    /\ Unlocked(JobOf(w))
    /\ EndAttempt(w, workers[w].asked)

-----------------------------------------------------------------------------
(* A commit that is answered, and what the worker does next.               *)

Answer(w, t) ==
    LET pc == workers[w].pc
    IN  \/ /\ pc \in {"timer_reap", "idle_reap"}
           /\ Go(w, AfterReap(w))
        \/ /\ pc \in {"claim", "reclaim"}
           /\ \E j \in DOMAIN t.rows :
                workers' = [workers EXCEPT
                    ![w] = [Fresh("start") EXCEPT !.job = j,
                                                  !.attempt = t.rows[j].attempt]]
        \/ /\ pc = "start"
           /\ Go(w, "running")
        \/ /\ pc = "heartbeat"
           /\ Go(w, IF t.rows[JobOf(w)].cancel_requested_at # Null
                    THEN "finish_cancelled" ELSE "running")
        \/ /\ pc = "publish"
           /\ IF t.stored # {} THEN Report(w, "published") ELSE Go(w, "job_status")
        \/ /\ pc = "release"
           /\ Report(w, "released")
        \/ /\ pc = "finish_cancelled"
           /\ Report(w, "cancelled")

Commit(w, t) ==
    /\ t.owner = w
    /\ Install(t)
    /\ Answer(w, t)

\* The session's connection is gone: whoever awaited it no longer does.
Abandon(w) ==
    open' = {IF t.owner = w THEN [t EXCEPT !.owner = NoWorker] ELSE t : t \in open}

InCall(w) == workers[w].asked # Null \/ \E t \in open : t.owner = w

\* ride_through: the same call again, from its start.
Drop(w) ==
    /\ InCall(w)
    /\ Abandon(w)
    /\ workers' = [workers EXCEPT ![w].asked = Null]
    /\ UNCHANGED <<clock, jobs, attempts, results>>

\* A killed worker, or one whose database stayed away too long.
Crash(w) ==
    /\ workers[w].pc # "down"
    /\ Abandon(w)
    /\ workers' = [workers EXCEPT ![w] = Fresh("down")]
    /\ UNCHANGED <<clock, jobs, attempts, results>>

Restart(w) ==
    /\ workers[w].pc = "down"
    /\ Go(w, "step")
    /\ UNCHANGED storeVars

\* An abandoned session ends: its COMMIT had been sent, or it had not.
LateCommit(t) ==
    /\ t.owner = NoWorker
    /\ Install(t)
    /\ UNCHANGED workers

Rollback(t) ==
    /\ t.owner = NoWorker
    /\ open' = open \ {t}
    /\ UNCHANGED <<clock, jobs, attempts, results, workers>>

\* Broken: a finished job can be cancelled.
CancelAnyState(j) ==
    /\ Unlocked(j)
    /\ Begin(CancelTxn(j, clock))
    /\ UNCHANGED workers

\* The api's cancel; its session ends as the abandoned ones do.
Cancel(j) ==
    /\ jobs[j].state \in Unfinished
    /\ Unlocked(j)
    /\ Begin(CancelTxn(j, clock))
    /\ UNCHANGED workers

Tick ==
    /\ clock < MaxClock
    /\ clock' = clock + 1
    /\ UNCHANGED <<jobs, attempts, results, open, workers>>

-----------------------------------------------------------------------------
WorkerStep(w) ==
    \/ BeginStep(w) \/ Reap(w) \/ Claim(w) \/ Start(w) \/ Heartbeat(w)
    \/ RunEnds(w) \/ RecordExecution(w) \/ Publish(w) \/ JobStatus(w)
    \/ AskToEnd(w) \/ EndWaited(w)
    \/ \E t \in open : Commit(w, t)

Fault(w) == Drop(w) \/ Crash(w) \/ Restart(w)

Next ==
    \/ \E w \in Worker : WorkerStep(w) \/ Fault(w)
    \/ \E t \in open : LateCommit(t) \/ Rollback(t)
    \/ \E j \in Cancellable : Cancel(j)
    \/ Tick

Spec == Init /\ [][Next]_vars

-----------------------------------------------------------------------------
\* Every variable holds a value of its type.
TypeOK == StoreTypeOK /\ workers \in [Worker -> WorkerState]

=============================================================================
