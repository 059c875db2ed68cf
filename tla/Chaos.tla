-------------------------------- MODULE Chaos --------------------------------
(***************************************************************************)
(* The fault injection harness (backend/chaos) driving a fleet: the only   *)
(* faults are the ones its scenario arms (fleet/failpoints.py) or makes    *)
(* itself, and once the batch has drained every one of them must have left *)
(* its scenario's effects on the record.  The api's own scenario is in     *)
(* Submission.                                                             *)
(*                                                                         *)
(* The effects hold of workers that keep their leases unless a fault stops *)
(* them, so time is bounded below by OnTime: it passes a healthy worker's  *)
(* lease by no tick, as heartbeats every third of a lease see to it.       *)
(***************************************************************************)
EXTENDS Fleet, FiniteSets

CONSTANTS
    Ghost,        \* the worker id the harness claims under
    WORKERS,      \* workers started first
    FAULTS,       \* a scenario's faults, unless it is a hang
    GHOST_LEASE,  \* GHOST_LEASE_SECONDS, PAUSE_SECONDS and OVERTAKE_SECONDS,
    PAUSE,        \* in ticks
    OVERTAKE,
    LongJobs,     \* the jobs that run until they are cancelled, if cancels come
    Scenarios     \* the scenarios to run, by name

ASSUME GhostAssumption == Ghost \in Worker
ASSUME PlanAssumption  == /\ {WORKERS, FAULTS} \subseteq Nat \ {0}
                          /\ {GHOST_LEASE, PAUSE, OVERTAKE} \subseteq Nat
                          /\ Lease < PAUSE /\ Lease <= OVERTAKE

VARIABLES
    scenario,  \* the one that runs
    plan,      \* the arms no worker has been started with, and the restarts to make
    started,   \* workers the harness has started
    arms,      \* how many arrivals before a worker's failpoint fires; 0: unarmed
    paused,    \* workers stopped by SIGSTOP
    faults,    \* what each fired failpoint logged, by the worker it hit
    cancelled, \* Run.cancelled
    logs,      \* what the workers logged of leases lost and results refused
    stopping   \* the batch has drained, and every process is told to stop

chaosVars == <<vars, scenario, plan, started, arms, paused, faults, cancelled,
               logs, stopping>>

-----------------------------------------------------------------------------
(* The scenarios: where the fault lands, what it does, what it must leave. *)

Scenario(point, action, effects) ==
    [point |-> point, action |-> action, effects |-> effects, workload |-> "sleep",
     hits |-> 1 .. 2, wake |-> "timer", spares |-> 0, replace |-> "at_once"]

Kill(point, effects) == Scenario(point, "kill", {"died"} \union effects)

Hang(point) == [Scenario(point, "hang", {"unblocked"}) EXCEPT !.hits = {1}]

\* A chore any worker may do first: the dead are replaced after the faults.
Chore(point, effect, workload) ==
    [Kill(point, {effect}) EXCEPT
        !.workload = workload, !.hits = {1}, !.replace = "after_faults"]

SCENARIOS ==
    [claim_before_kill           |-> Kill(<<"claim", "before">>, {}),
     claim_before_commit_kill    |-> Kill(<<"claim", "before_commit">>, {"claim_undone"}),
     claim_before_commit_drop    |-> Scenario(<<"claim", "before_commit">>, "drop", {"survived"}),
     claim_before_commit_hang    |-> Hang(<<"claim", "before_commit">>),
     claim_after_commit_kill     |-> Kill(<<"claim", "after_commit">>, {"retried"}),
     claim_after_commit_drop     |->
         Scenario(<<"claim", "after_commit">>, "drop", {"survived", "retried"}),
     start_after_commit_kill     |-> Kill(<<"start", "after_commit">>, {"retried"}),
     heartbeat_before_kill       |-> Kill(<<"heartbeat", "before">>, {"retried"}),
     heartbeat_before_stop       |-> Scenario(<<"heartbeat", "before">>, "stop", {"retried", "fenced"}),
     heartbeat_before_drop       |->
         Scenario(<<"heartbeat", "before">>, "drop", {"survived", "same_attempt"}),
     publish_before_commit_kill  |-> Kill(<<"publish", "before_commit">>, {"retried"}),
     publish_before_stop         |->
         [Scenario(<<"publish", "before">>, "stop", {"retried", "refused"}) EXCEPT
             !.workload = "long", !.wake = "overtaken", !.spares = 1],
     publish_before_commit_stop  |-> Scenario(<<"publish", "before_commit">>, "stop", {"retried"}),
     publish_before_commit_hang  |-> Hang(<<"publish", "before_commit">>),
     publish_before_commit_drop  |->
         Scenario(<<"publish", "before_commit">>, "drop", {"survived", "same_attempt"}),
     publish_after_commit_kill   |-> Kill(<<"publish", "after_commit">>, {"stands"}),
     publish_after_commit_drop   |->
         Scenario(<<"publish", "after_commit">>, "drop", {"survived", "stands", "counted"}),
     release_before_commit_kill  |->
         [Kill(<<"release", "before_commit">>, {"retried"}) EXCEPT !.workload = "crash"],
     reap_before_commit_kill     |-> Chore(<<"reap", "before_commit">>, "reaped_once", "ghost"),
     cancel_before_commit_kill   |-> Chore(<<"cancel", "before_commit">>, "cancelled", "cancel"),
     postgres_restart            |->
         Scenario(<<"postgres", "restart">>, "restart", {"all_survived"})]

ASSUME ScenarioAssumption == Scenarios \subseteq DOMAIN SCENARIOS

Faults(s) ==
    IF s.action = "hang" THEN 1 ELSE FAULTS

Planned == Faults(scenario)

\* What a failpoint that has not fired has logged.
NoFault == [job |-> Null, attempt |-> 0, jobs |-> {}, at |-> Null]

\* The first workers' arms: each takes the next, to fire on one of its hits.
Armed(s, W, n) ==
    {f \in [Worker -> {0} \union s.hits] :
        /\ \A w \in Worker : f[w] # 0 => w \in W
        /\ Cardinality({w \in W : f[w] # 0}) =
             IF Cardinality(W) < n THEN Cardinality(W) ELSE n}

ChaosInit ==
    /\ StoreInit
    /\ \E name \in Scenarios :
         LET s == SCENARIOS[name]
             n == IF s.action = "restart" THEN 0 ELSE Faults(s)
         IN  /\ scenario = s
             /\ \E W \in SUBSET (Worker \ {Ghost}) :
                  /\ Cardinality(W) = WORKERS + s.spares
                  /\ started = W
                  /\ arms \in Armed(s, W, n)
                  /\ plan = [arms |-> n - Cardinality({w \in W : arms[w] # 0}),
                             restarts |-> IF s.action = "restart" THEN Faults(s) ELSE 0]
                  /\ workers = [w \in Worker |-> Fresh(IF w \in W THEN "step" ELSE "down")]
    /\ paused = {}
    /\ faults = [w \in Worker |-> NoFault]
    /\ cancelled = {}
    /\ logs = {}
    /\ stopping = FALSE

-----------------------------------------------------------------------------
(* A worker's failpoints.                                                  *)

CallPCs ==
    [claim |-> {"claim", "reclaim"}, start |-> {"start"},
     heartbeat |-> {"running", "heartbeat"}, publish |-> {"publish"},
     release |-> {"release"}, reap |-> {"timer_reap", "idle_reap"},
     cancel |-> {"finish_cancelled"}, postgres |-> {}]

Moment == scenario.point[2]
AtCall(w) == workers[w].pc \in CallPCs[scenario.point[1]]

\* w is about to make the call; or has written t and not committed it.
AtBefore(w) == Moment = "before" /\ AtCall(w) /\ At(w, workers[w].pc)
AtCommit(w, t) ==
    /\ Moment \in {"before_commit", "after_commit"}
    /\ AtCall(w) /\ t.owner = w
    /\ workers[w].pc = "publish" => t.stored # {}

EndsRun(w) == workers[w].pc = "running" /\ workers'[w].result # "none"

\* The step w takes goes past the point.
Arrives(w) == \/ AtBefore(w) /\ ~EndsRun(w)
              \/ \E t \in open : AtCommit(w, t)

\* What the step logged: a lease lost on the way, or a result refused.
Logged(w) ==
    LET ends == workers[w].pc # "step" /\ workers'[w].pc = "step"
    IN  {<<w, what, JobOf(w), AttemptOf(w)>> :
            what \in {workers'[w].report} \intersect
                     (IF ends /\ workers[w].pc # "finish_cancelled"
                      THEN {"lost", "rejected"} ELSE {})}

\* The workload: which runs end of themselves, and how.
RunsAsPlanned(w) ==
    EndsRun(w) =>
        /\ workers'[w].result = RunnerError => scenario.workload = "crash"
        /\ ~(scenario.workload = "cancel" /\ JobOf(w) \in LongJobs)

Work(w) ==
    /\ w \notin paused
    /\ stopping => workers[w].pc # "step"
    /\ WorkerStep(w)
    /\ RunsAsPlanned(w)
    /\ \/ ~Arrives(w) /\ UNCHANGED arms
       \/ Arrives(w) /\ arms[w] = 0 /\ UNCHANGED arms
       \/ Arrives(w) /\ arms[w] > 1 /\ arms' = [arms EXCEPT ![w] = @ - 1]
    /\ logs' = logs \union Logged(w)
    /\ UNCHANGED <<scenario, plan, started, paused, faults, cancelled, stopping>>

\* What the point logs, and then does.
FaultLine(w, t) ==
    LET j == IF t.logs = NoRows THEN JobOf(w) ELSE CHOOSE x \in DOMAIN t.rows : TRUE
    IN  [job |-> j,
         attempt |-> IF j \in DOMAIN t.rows THEN t.rows[j].attempt ELSE AttemptOf(w),
         jobs |-> DOMAIN t.rows, at |-> clock]

Fires(w, fault) ==
    /\ w \notin paused
    /\ arms[w] = 1
    /\ arms' = [arms EXCEPT ![w] = 0]
    /\ faults' = [faults EXCEPT ![w] = fault]
    /\ paused' = IF scenario.action \in {"stop", "hang"} THEN paused \union {w} ELSE paused
    /\ UNCHANGED <<scenario, plan, started, cancelled, logs, stopping>>

\* Before the call.  A heartbeat has left the run's wait by then.
FireBefore(w) ==
    /\ AtBefore(w)
    /\ Fires(w, FaultLine(w, Txn(w, NoRows, NoRows, {})))
    /\ \/ scenario.action = "kill" /\ Crash(w)
       \/ /\ scenario.action # "kill"
          /\ Go(w, IF workers[w].pc = "running" THEN "heartbeat" ELSE workers[w].pc)
          /\ UNCHANGED storeVars

\* Inside the transaction: a drop has Postgres end the session there and then.
FireBeforeCommit(w, t) ==
    /\ Moment = "before_commit" /\ AtCommit(w, t)
    /\ Fires(w, FaultLine(w, t))
    /\ \/ scenario.action = "kill" /\ Crash(w)
       \/ /\ scenario.action = "drop"
          /\ open' = open \ {t}
          /\ UNCHANGED <<clock, jobs, attempts, results, workers>>
       \/ scenario.action \in {"stop", "hang"} /\ UNCHANGED vars

\* The commit landed; its answer never does.
FireAfterCommit(w, t) ==
    /\ Moment = "after_commit" /\ AtCommit(w, t)
    /\ Fires(w, FaultLine(w, t))
    /\ Install(t)
    /\ \/ scenario.action = "kill" /\ workers' = [workers EXCEPT ![w] = Fresh("down")]
       \/ scenario.action = "drop" /\ UNCHANGED workers

\* Postgres ends a session idle in its transaction for a lease.
IdleOut(w, t) ==
    /\ w \in paused /\ t.owner = w
    /\ clock >= faults[w].at + Lease
    /\ open' = open \ {t}
    /\ UNCHANGED <<clock, jobs, attempts, results, workers>>
    /\ UNCHANGED <<scenario, plan, started, arms, paused, faults, cancelled, logs, stopping>>

-----------------------------------------------------------------------------
(* The harness, each turn of its loop.                                     *)

harnessVars == <<scenario, plan, started, arms, paused, faults, cancelled, logs, stopping>>

Fired   == Cardinality({w \in Worker : faults[w] # NoFault})
Running == {w \in started : workers[w].pc # "down"}

\* resume_due and _wake_overtaken, once the session it held is gone.
Overtaken(f) == jobs[f.job].attempt > f.attempt /\ jobs[f.job].state \in LeasedStates

WakeDue(w) ==
    \/ scenario.wake = "timer" /\ clock >= faults[w].at + PAUSE
    \/ scenario.wake = "overtaken" /\ Overtaken(faults[w])
    \/ scenario.wake = "overtaken" /\ clock > faults[w].at + OVERTAKE

Wake(w) ==
    /\ w \in paused /\ scenario.action = "stop"
    /\ \A t \in open : t.owner # w
    /\ WakeDue(w)
    /\ paused' = paused \ {w}
    /\ UNCHANGED <<vars, scenario, plan, started, arms, faults, cancelled, logs, stopping>>

\* replace_the_dead, with start_worker taking the next arm.
Holding == scenario.replace = "after_faults" /\ Fired < Planned

ReplaceTheDead ==
    /\ ~stopping /\ ~Holding
    /\ Cardinality(Running) < WORKERS + scenario.spares
    /\ \E w \in Worker \ (started \union {Ghost}) :
         /\ started' = started \union {w}
         /\ Go(w, "step")
         /\ \/ /\ plan.arms = 0 /\ UNCHANGED <<plan, arms>>
            \/ /\ plan.arms > 0 /\ plan' = [plan EXCEPT !.arms = @ - 1]
               /\ \E hit \in scenario.hits : arms' = [arms EXCEPT ![w] = hit]
    /\ UNCHANGED <<storeVars, scenario, paused, faults, cancelled, logs, stopping>>

\* _drive: cancels, ghost claims and Postgres restarts.
DriveCancel(j) ==
    /\ ~stopping /\ scenario.workload = "cancel"
    /\ j \in LongJobs \ cancelled
    /\ jobs[j].state = "running" /\ Unlocked(j)
    /\ jobs' = [jobs EXCEPT ![j] = CancelAsked(@, clock)]
    /\ cancelled' = cancelled \union {j}
    /\ UNCHANGED <<clock, attempts, results, open, workers>>
    /\ UNCHANGED <<scenario, plan, started, arms, paused, faults, logs, stopping>>

DriveGhost ==
    /\ ~stopping /\ scenario.workload = "ghost" /\ Fired < Planned
    /\ LET ready == {j \in Job : Unlocked(j) /\ Claimable(jobs[j], clock)}
           until == clock + GHOST_LEASE
       IN  \E j \in ready :
             /\ \A k \in ready : j <= k
             /\ jobs' = [jobs EXCEPT
                   ![j] = [Claimed(@, clock) EXCEPT !.lease_expires_at = until]]
             /\ attempts' = [attempts EXCEPT
                   ![<<j, jobs[j].attempt + 1>>] =
                        [Opened(Ghost, clock) EXCEPT !.lease_expires_at = until]]
    /\ UNCHANGED <<clock, results, open, workers, harnessVars>>

RESTART_AT == <<20, 45, 70>>

\* Every session goes at once, one of them perhaps just after its commit.
DriveRestart ==
    /\ ~stopping /\ plan.restarts > 0
    /\ 100 * Cardinality({j \in Job : jobs[j].state \in FinalStates})
          >= RESTART_AT[Planned - plan.restarts + 1] * Cardinality(Job)
    /\ plan' = [plan EXCEPT !.restarts = @ - 1]
    /\ \/ UNCHANGED <<clock, jobs, attempts, results>> /\ open' = {}
       \/ \E t \in open :
            /\ jobs'     = [j \in Job |-> IF j \in DOMAIN t.rows THEN t.rows[j] ELSE jobs[j]]
            /\ attempts' = [k \in Job \X AttemptNo |->
                              IF k \in DOMAIN t.logs THEN t.logs[k] ELSE attempts[k]]
            /\ results'  = results \union t.stored
            /\ open'     = {}
            /\ UNCHANGED clock
    /\ workers' = [w \in Worker |-> [workers[w] EXCEPT !.asked = Null]]
    /\ UNCHANGED <<scenario, started, arms, paused, faults, cancelled, logs, stopping>>

\* Drained: every job is final, and no paused worker is still to be woken.
Drained ==
    /\ \A j \in Job : jobs[j].state \in FinalStates
    /\ scenario.action = "stop" => paused = {}

StopAll ==
    /\ ~stopping /\ Drained
    /\ stopping' = TRUE
    /\ UNCHANGED <<vars, scenario, plan, started, arms, paused, faults, cancelled, logs>>

\* A healthy worker is in no call when time passes, and beats in time.
OnTime ==
    \A w \in Running \ paused :
        /\ workers[w].pc \in {"step", "running"}
        /\ \A t \in open : t.owner # w
        /\ workers[w].pc = "running" /\ Held(RowOf(w), AttemptOf(w))
              => RowOf(w).lease_expires_at > clock + 1

ChaosTick == ~stopping /\ OnTime /\ Tick /\ UNCHANGED harnessVars

-----------------------------------------------------------------------------
ChaosNext ==
    \/ \E w \in Worker :
         \/ Work(w) \/ FireBefore(w) \/ Wake(w)
         \/ \E t \in open :
              FireBeforeCommit(w, t) \/ FireAfterCommit(w, t) \/ IdleOut(w, t)
    \/ \E t \in open : Rollback(t) /\ UNCHANGED harnessVars
    \/ ReplaceTheDead \/ DriveGhost \/ DriveRestart \/ StopAll \/ ChaosTick
    \/ \E j \in Job : DriveCancel(j)

ChaosSpec == ChaosInit /\ [][ChaosNext]_chaosVars

-----------------------------------------------------------------------------
(* The record: what a fault on w, having logged f, must have left behind.  *)

LogOf(f)    == attempts[<<f.job, f.attempt>>]
ResultOf(j) == {r \in results : r.job_id = j}
Final(j)    == jobs[j].state \in FinalStates
ResultFrom(f) == \E r \in ResultOf(f.job) : r.attempt = f.attempt
Refusal(w, f) == <<w, "rejected", f.job, f.attempt>> \in logs

Died(w)        == workers[w].pc = "down"
Survived(w)    == workers[w].pc # "down"
ClaimUndone(w, f) == LogOf(f).worker_id # w

WasRetried(w, f) ==
    /\ LogOf(f).worker_id = w /\ LogOf(f).ended_by = "lease_expired"
    /\ IF f.attempt = MaxAttempts[f.job]
       THEN jobs[f.job].state = "dead_lettered" /\ jobs[f.job].attempt = f.attempt
       ELSE jobs[f.job].attempt > f.attempt /\ Final(f.job)

Stands(f)    == ResultFrom(f) /\ jobs[f.job].attempt = f.attempt
Fenced(w, f) == \E a \in AttemptNo : <<w, "lost", f.job, a>> \in logs

Unblocked(w, f) == Final(f.job) /\ \A r \in ResultOf(f.job) : r.worker_id # w

ReapedOnce(f) ==
    \A j \in f.jobs :
        LET ghost == {a \in AttemptNo : attempts[<<j, a>>].worker_id = Ghost}
        IN  /\ ghost # {} /\ Final(j)
            /\ \A a \in ghost : attempts[<<j, a>>].ended_by = "lease_expired"

WasCancelled(f) ==
    /\ jobs[f.job].state = "cancelled" /\ ResultOf(f.job) = {}
    /\ LogOf(f).ended_by = "lease_expired"

EFFECT_CHECKS(effect, w, f) ==
    CASE effect = "died"         -> Died(w)
      [] effect = "survived"     -> Survived(w)
      [] effect = "claim_undone" -> ClaimUndone(w, f)
      [] effect = "retried"      -> WasRetried(w, f)
      [] effect = "same_attempt" -> ResultFrom(f)
      [] effect = "stands"       -> Stands(f)
      [] effect = "fenced"       -> Fenced(w, f)
      [] effect = "refused"      -> Refusal(w, f)
      [] effect = "counted"      -> ~Refusal(w, f)
      [] effect = "unblocked"    -> Unblocked(w, f)
      [] effect = "reaped_once"  -> ReapedOnce(f)
      [] effect = "cancelled"    -> WasCancelled(f)
      [] effect = "all_survived" -> \A v \in started : Survived(v)

Checker == INSTANCE RunChecker

\* What the record finds wrong with a run: by the invariant checker, and by
\* the effects each fault must have had.
Violations ==
    {kind \in {"invariants", "effects"} :
        CASE kind = "invariants" -> ~Checker!Check(Job)
          [] kind = "effects" ->
               \E w \in Worker, effect \in scenario.effects :
                   faults[w] # NoFault /\ ~EFFECT_CHECKS(effect, w, faults[w])}

\* Every process has ended what it was doing, or is hung and was killed.
Stopped ==
    /\ stopping
    /\ \A w \in started \ paused : workers[w].pc \in {"step", "down"}

-----------------------------------------------------------------------------
\* The harness's verdict (harness.py, _record): once a run has drained and its
\* processes have stopped, the tables pass the fleet's own checker, and every
\* fault that fired has left every effect scenarios.py says it must, whatever
\* it hit and whatever the other faults did meanwhile.
FaultsLeaveTheirEffects == Stopped => Violations = {}
=============================================================================
