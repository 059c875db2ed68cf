--------------------------- MODULE ChaosInvariant ---------------------------
(***************************************************************************)
(* Why every fault leaves its effects: an inductive invariant over the     *)
(* fleet's own, LedgerInv, which the harness's faults preserve too.  A     *)
(* worker no fault has stopped keeps its lease; what a worker awaits is    *)
(* the call it is at; and an attempt whose worker was stopped is its to    *)
(* end no more, so that only a reap will.                                  *)
(***************************************************************************)
EXTENDS Chaos, FleetLedger

-----------------------------------------------------------------------------
(* The harness's own records.                                              *)

Struck(w) == faults[w] # NoFault

\* A worker that was started is up unless a kill struck it, one that was not
\* is down, and one that was struck is never struck again.
WorkerRecorded(w) ==
    /\ w \in started => (workers[w].pc = "down" <=> Struck(w) /\ scenario.action = "kill")
    /\ w \notin started => workers[w] = Fresh("down") /\ ~Struck(w)
    /\ Struck(w) => arms[w] = 0 /\ faults[w].at \in Nat /\ faults[w].at <= clock
    /\ Struck(w) /\ scenario.action = "hang" => w \in paused
    /\ w \in paused => Struck(w) /\ scenario.action \in {"stop", "hang"}

\* Nobody has asked to cancel a job.
NoCancel ==
    /\ \A j \in Job : jobs[j].cancel_requested_at = Null
    /\ \A t \in open : \A j \in DOMAIN t.rows : t.rows[j].cancel_requested_at = Null

\* No lease is longer than Lease.
LeasesBounded ==
    /\ \A j \in Job : jobs[j].lease_expires_at <= clock + Lease
    /\ \A t \in open : \A j \in DOMAIN t.rows : t.rows[j].lease_expires_at <= clock + Lease

HarnessSound ==
    /\ scenario \in {SCENARIOS[name] : name \in Scenarios}
    /\ started \subseteq Worker \ {Ghost}
    /\ arms \in [Worker -> Nat]
    /\ faults = [w \in Worker |-> faults[w]]
    /\ \A w \in Worker : WorkerRecorded(w)
    /\ stopping => \A j \in Job : jobs[j].state \in FinalStates

\* Postgres is restarted in its own scenario alone.
PlanSound ==
    /\ plan = [arms |-> plan.arms, restarts |-> plan.restarts]
    /\ scenario.action # "restart" => plan.restarts = 0

\* Workers that are to be woken are awake once the batch has drained: a fault
\* strikes at a call for a job that is under a lease.
AwakeAtEnd == stopping /\ scenario.action = "stop" => paused = {}

RowsSound ==
    /\ scenario.workload # "cancel" => NoCancel
    /\ scenario.workload # "ghost" => LeasesBounded

-----------------------------------------------------------------------------
(* The call a worker awaits.                                               *)

OwnCalls   == {"start", "heartbeat", "publish", "release", "finish_cancelled"}
ClaimCalls == {"claim", "reclaim"}
ReapCalls  == {"timer_reap", "idle_reap"}

\* A call for the worker's own job is made while it holds the job; a claim
\* takes one queued job; a reap ends lapsed attempts.
OwnShape(pc, j, a, t) ==
    /\ DOMAIN t.rows = {j} /\ Held(jobs[j], a) /\ t.rows[j].attempt = a
    /\ pc \in {"start", "heartbeat"} => t.rows[j].state \in LeasedStates
    /\ pc = "publish" /\ t.stored = {} => t.rows[j].state = "cancelled"

ClaimShape(t) ==
    \E j \in Job : /\ DOMAIN t.rows = {j} /\ jobs[j].state = "queued"
                   /\ t.rows[j].state = "claimed"
                   /\ t.rows[j].attempt = jobs[j].attempt + 1

ReapShape(t) ==
    \A j \in DOMAIN t.rows :
        LET k == <<j, jobs[j].attempt>>
        IN  /\ Lapsed(jobs[j], clock)
            /\ t.rows[j].attempt = jobs[j].attempt
            /\ t.rows[j].state \notin LeasedStates
            /\ k \in DOMAIN t.logs /\ t.logs[k].ended_by = "lease_expired"

CallShape(w, t) ==
    LET pc == workers[w].pc
    IN  \/ pc \in OwnCalls /\ OwnShape(pc, JobOf(w), AttemptOf(w), t)
        \/ pc \in ClaimCalls /\ ClaimShape(t)
        \/ pc \in ReapCalls /\ ReapShape(t)

ShapesSound == \A t \in open : t.owner \in Worker => CallShape(t.owner, t)

-----------------------------------------------------------------------------
(* Leases that are kept.                                                   *)

\* Nothing but a fault ends a run here, and no answer is lost.
Steady ==
    /\ scenario.workload \notin {"crash", "cancel"}
    /\ Moment # "after_commit" /\ scenario.action # "restart"

Healthy(w) == ~Struck(w) \/ scenario.action = "drop"

\* Past its claim, such a worker holds its job under a live lease.
KeepsLease(w) ==
    workers[w].pc \in HoldsJob =>
        /\ workers[w].pc \in {"start", "running", "heartbeat", "record", "publish"}
        /\ workers[w].pc = "record" => workers[w].result # RunnerError
        /\ HeldLive(RowOf(w), AttemptOf(w), clock)

\* And what it is about to be granted is live too.
GrantsLease(t) ==
    \A j \in DOMAIN t.rows : t.rows[j].state \in LeasedStates => t.rows[j].lease_expires_at > clock

LeasesKept ==
    Steady =>
        /\ \A w \in Worker : Healthy(w) => KeepsLease(w)
        /\ \A t \in open : t.owner \in Worker /\ Healthy(t.owner) => GrantsLease(t)

\* A worker has the job, by this attempt.
Has(w, j, a) == workers[w].pc \in HoldsJob /\ JobOf(w) = j /\ AttemptOf(w) = a

\* A job under a lease is the ghost's or some worker's, and the ghost's
\* attempts end as lapsed leases do.
GhostsSound ==
    scenario.workload = "ghost" =>
        /\ \A j \in Job : jobs[j].state \in LeasedStates =>
              \/ attempts[<<j, jobs[j].attempt>>].worker_id = Ghost
              \/ \E w \in Worker : Has(w, j, jobs[j].attempt)
        /\ \A k \in Job \X AttemptNo :
              attempts[k].worker_id = Ghost => attempts[k].ended_by \in {NotEnded, "lease_expired"}

-----------------------------------------------------------------------------
(* What a fault on w that logged f has left so far.                        *)

Names(f) == f.job \in Job /\ f.attempt \in AttemptNo

\* Should w still be at the attempt, it can do nothing for it: it is stopped,
\* for longer than the lease lasts, or it has found the lease run out.
Powerless(w, f) ==
    Has(w, f.job, f.attempt) =>
        /\ workers[w].pc \in {"heartbeat", "publish", "job_status"}
        /\ IF w \in paused THEN jobs[f.job].lease_expires_at <= f.at + Lease
           ELSE (\A t \in open : t.owner # w) /\ jobs[f.job].lease_expires_at <= clock

\* The attempt is left for a reap to end.
Orphaned(w, f) ==
    /\ Names(f) /\ LogOf(f).worker_id = w
    /\ \/ LogOf(f).ended_by = "lease_expired"
       \/ LogOf(f).ended_by = NotEnded /\ Powerless(w, f)

Awaits(w, f, pcs) ==
    Has(w, f.job, f.attempt) /\ workers[w].pc \in pcs /\ \A t \in open : t.owner # w

LeftSound(effect, w, f) ==
    CASE effect = "claim_undone" -> Names(f) /\ LogOf(f).worker_id # w
      [] effect = "retried"      -> Orphaned(w, f)
      [] effect = "cancelled"    ->
            Orphaned(w, f) /\ jobs[f.job].cancel_requested_at # Null
      [] effect = "same_attempt" -> Has(w, f.job, f.attempt) \/ ResultFrom(f)
      [] effect = "stands"       -> Names(f) /\ Stands(f)
      [] effect = "counted"      ->
            /\ \E r \in results : r.job_id = f.job /\ r.attempt = f.attempt /\ r.worker_id = w
            /\ Has(w, f.job, f.attempt) => workers[w].pc = "publish"
            /\ ~Refusal(w, f)
      [] effect = "fenced"       ->
            \/ <<w, "lost", f.job, f.attempt>> \in logs
            \/ Awaits(w, f, {"heartbeat"})
      [] effect = "refused"      -> Refusal(w, f) \/ Awaits(w, f, {"publish", "job_status"})
      [] effect = "unblocked"    -> Names(f) /\ \A r \in ResultOf(f.job) : r.worker_id # w
      [] effect = "reaped_once"  ->
            \A j \in f.jobs : j \in Job /\ \E a \in AttemptNo : attempts[<<j, a>>].worker_id = Ghost
      [] OTHER -> TRUE

FaultsSound ==
    \A w \in Worker : Struck(w) => \A effect \in scenario.effects : LeftSound(effect, w, faults[w])

\* What was logged of an attempt, its worker has done with.
LogsSound ==
    \A entry \in logs :
        LET w == entry[1]
            j == entry[3]
            a == entry[4]
        IN  /\ w \in Worker /\ ~Has(w, j, a)
            /\ j \in Job => a \in AttemptNo /\ a <= jobs[j].attempt

\* The inductive invariant of the harness and its fleet.
ChaosInv ==
    /\ LedgerInv
    /\ HarnessSound
    /\ PlanSound
    /\ AwakeAtEnd
    /\ RowsSound
    /\ ShapesSound
    /\ LeasesKept
    /\ GhostsSound
    /\ LogsSound
    /\ FaultsSound
=============================================================================
