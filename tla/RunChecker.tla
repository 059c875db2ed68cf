----------------------------- MODULE RunChecker -----------------------------
(***************************************************************************)
(* The fleet's own invariant checker (backend/fleet/invariants.py), which  *)
(* reads a drained run back from the three tables and reports what is      *)
(* wrong with it.  Here each of its tests is the predicate that the test   *)
(* finds nothing.                                                          *)
(***************************************************************************)
EXTENDS JobStore

RetryEndings == {"lease_expired", "released"}
LiveEndings  == {"released", "cancelled"}

\* snapshot: the attempt numbers a job has rows for, and its results.
Log(j)       == {a \in AttemptNo : attempts[<<j, a>>].claimed_at # Null}
ResultsOf(j) == {r \in results : r.job_id = j}
IsLast(j, a) == \A b \in Log(j) : b <= a

NothingLost(submitted) ==
    \A j \in submitted : j \in Job /\ jobs[j].state \in FinalStates

OneResult(j) ==
    IF jobs[j].state \notin ResultStates
    THEN ResultsOf(j) = {}
    ELSE \E r \in results : /\ ResultsOf(j) = {r}
                            /\ r.attempt = jobs[j].result_id
                            /\ r.outcome = jobs[j].state

\* A result comes from the job's last attempt, by its holder, inside its
\* lease, and closed it, before any cancel ...
Entitled(j, r) ==
    LET owner == attempts[<<j, r.attempt>>]
    IN  /\ r.attempt = jobs[j].attempt
        /\ r.attempt \in Log(j)
        /\ r.worker_id = owner.worker_id
        /\ r.published_at < owner.lease_expires_at
        /\ owner.ended_by = "published" /\ owner.ended_at = r.published_at
        /\ jobs[j].cancel_requested_at # Null =>
             r.published_at < jobs[j].cancel_requested_at

\* ... and no attempt was claimed while an earlier one was still held.
NoOverlap(j) ==
    \A a, b \in Log(j) :
        a + 1 = b => /\ attempts[<<j, a>>].ended_at # Null
                     /\ attempts[<<j, a>>].ended_at <= attempts[<<j, b>>].claimed_at

NoStaleWrite(j) == (\A r \in ResultsOf(j) : Entitled(j, r)) /\ NoOverlap(j)

EndedInTime(log) ==
    /\ log.ended_at # Null
    /\ log.ended_by = "lease_expired" => log.ended_at >= log.lease_expires_at
    /\ log.ended_by \in LiveEndings => log.ended_at < log.lease_expires_at

Accounting(j) ==
    LET row == jobs[j]
    IN  /\ Log(j) = 1 .. row.attempt
        /\ row.attempt <= MaxAttempts[j]
        /\ \A a \in Log(j) :
             LET log == attempts[<<j, a>>]
                 final(s) == row.state = s /\ IsLast(j, a)
             IN  /\ EndedInTime(log)
                 /\ ~IsLast(j, a) => log.ended_by \in RetryEndings
                 /\ (\E s \in ResultStates : final(s)) => log.ended_by = "published"
                 /\ final("dead_lettered") => log.ended_by \in RetryEndings
                 /\ final("cancelled") => log.ended_by \in RetryEndings \union {"cancelled"}
                 /\ log.ended_by = "cancelled" => row.state = "cancelled"
        /\ row.state \in ResultStates \union {"dead_lettered"} => Log(j) # {}
        /\ row.state = "dead_lettered" => /\ row.attempt >= MaxAttempts[j]
                                          /\ row.cancel_requested_at = Null
        /\ row.state = "cancelled" => row.cancel_requested_at # Null

\* check finds nothing wrong with these jobs.
CheckJobs(S) == \A j \in S : OneResult(j) /\ NoStaleWrite(j) /\ Accounting(j)

Check(submitted) == NothingLost(submitted) /\ CheckJobs(Job)
=============================================================================
