------------------------- MODULE ContainersInvariant -------------------------
(***************************************************************************)
(* What Docker, the runs and the reapers have to do with one another in    *)
(* every reachable state of Containers: the inductive invariant behind its *)
(* safety properties.                                                      *)
(*                                                                         *)
(* It has three parts.  Nothing is known of an attempt before its claim.   *)
(* While a run is at its calls, its locals account for everything Docker   *)
(* has of its attempt, and nothing asked for is still to come; its sweep   *)
(* inherits that.  And while a lease is live and heartbeats commit in      *)
(* time, only the run itself takes anything away from its attempt.         *)
(***************************************************************************)
EXTENDS Containers

States   == {"absent", "created", "running", "exited", "expired"}
Leases   == {"unclaimed", "live", "lapsed", "ended"}
Endings  == {"none", "returned", "raised", "stopped"}
Results  == {"none", "outcome", "timeout", "memory_limit", "error"}
InRun    == RunCalls \union {"sweep"}

RunState ==
    [pc : InRun \union ReapCalls \union {"idle", "down"},
     attempt : Attempt \union {NoAttempt}, created : SUBSET Containers,
     network : BOOLEAN, timed_out : BOOLEAN, limit : BOOLEAN,
     result : Results, tidy : BOOLEAN, ending : Endings]

ReapState ==
    [containers : SUBSET Object, networks : SUBSET Object, alive : SUBSET Attempt]

\* The type invariant: every variable is a table of its own kind of record.
Shapes ==
    /\ docker \in [Object -> States]
    /\ late \in SUBSET Object
    /\ lease \in [Attempt -> Leases]
    /\ beating \in SUBSET Attempt
    /\ runs \in [Worker -> RunState]
    /\ reapers \in [Worker -> ReapState]
    /\ over \in [Attempt -> Endings \union {"no", "untidy"}]
    /\ faults \in Nat

-----------------------------------------------------------------------------
(* Attempts and their claims.                                              *)

\* Docker has, and may still create, only what a claimed attempt asked for.
ObjectsAreClaimed ==
    \A o \in Object : docker[o] # "absent" \/ o \in late => lease[o[2]] # "unclaimed"

\* What ended, or has a heartbeat on its way, was claimed.
EndsAreClaimed ==
    \A a \in Attempt : over[a] # "no" \/ a \in beating => lease[a] # "unclaimed"

\* A run is of an attempt that is claimed and not over.
RunsAreClaimed ==
    \A w \in Worker :
        runs[w].attempt \in Attempt =>
            lease[runs[w].attempt] # "unclaimed" /\ over[runs[w].attempt] = "no"

\* No two workers run the same attempt.
OneRunEach ==
    \A v, w \in Worker :
        runs[v].attempt = runs[w].attempt /\ runs[v].attempt \in Attempt => v = w

\* What a reaper listed was claimed before it looked.
ListsAreClaimed ==
    \A w \in Worker :
        \A o \in reapers[w].containers \union reapers[w].networks :
            lease[o[2]] # "unclaimed"

ClaimsHold ==
    /\ ObjectsAreClaimed
    /\ EndsAreClaimed
    /\ RunsAreClaimed
    /\ OneRunEach
    /\ ListsAreClaimed

-----------------------------------------------------------------------------
(* A run, and what Docker has of its attempt.                              *)

\* A worker has a run's locals exactly while it is in a run, and a reaper's
\* lists only while it reaps.
LocalsAreFresh(w) ==
    /\ runs[w].pc \in InRun <=> runs[w].attempt \in Attempt
    /\ runs[w].pc \notin InRun =>
         runs[w].created = {} /\ ~runs[w].network /\ ~runs[w].limit
    /\ runs[w].pc \notin ReapCalls => reapers[w] = NotReaping

\* At a call, the run has not ended, nothing it asked for is outstanding, and
\* every container it has is one it will sweep.
CallsAreAccounted(w) ==
    runs[w].pc \in RunCalls =>
        /\ runs[w].ending = "none" /\ runs[w].tidy /\ ~runs[w].limit
        /\ \A kind \in Kinds : Own(w, kind) \notin late
        /\ \A kind \in Containers :
             docker[Own(w, kind)] # "absent" => kind \in runs[w].created

\* Once past _egress the run knows of its network, if it has one.
NetworkIsKnown(w) ==
    /\ runs[w].pc \in EgressCalls => ~runs[w].network
    /\ runs[w].pc \in RunCalls \ EgressCalls =>
         (docker[Own(w, "network")] # "absent" => runs[w].network)

\* The task is no further than the run has taken it.
TaskFollows(w) ==
    /\ runs[w].pc \in EgressCalls \union {"create_task", "start_task"} =>
         docker[Own(w, "task")] \in {"absent", "created"}
    /\ runs[w].pc = "kill" => runs[w].timed_out
    /\ runs[w].pc = "output" /\ ~runs[w].timed_out => docker[Own(w, "task")] # "running"

\* Swept up, a run accounts for what it had: all of it if it returned, and in
\* any case for a task that runs behind a proxy.
SweepsAreAccounted(w) ==
    runs[w].pc = "sweep" =>
        /\ runs[w].ending = "returned" => \A kind \in Kinds : Own(w, kind) \notin late
        /\ runs[w].ending = "returned" /\ runs[w].tidy =>
             /\ \A kind \in Containers :
                  docker[Own(w, kind)] # "absent" => kind \in runs[w].created
             /\ docker[Own(w, "network")] # "absent" => runs[w].network
        /\ runs[w].network => Own(w, "proxy") \notin late
        /\ runs[w].network /\ runs[w].tidy /\ docker[Own(w, "task")] = "running" =>
             "task" \in runs[w].created

Accounted(w) ==
    /\ LocalsAreFresh(w)
    /\ CallsAreAccounted(w)
    /\ NetworkIsKnown(w)
    /\ TaskFollows(w)
    /\ SweepsAreAccounted(w)

\* A run that returned has left nothing, in Docker or on its way there.
ReturnsAreClean ==
    \A o \in Object : over[o[2]] = "returned" => docker[o] = "absent" /\ o \notin late

-----------------------------------------------------------------------------
(* Live leases, when a heartbeat commits before the lease it replaces ends. *)

Live(w) == runs[w].attempt \in Attempt /\ lease[AttemptOf(w)] = "live"

\* An attempt's network and proxy are there from the call that made them
\* until its run sweeps them up, the task before the proxy.
ProxyStays(w) ==
    Live(w) =>
        /\ runs[w].pc \in {"create_proxy", "start_proxy", "listen"} =>
             docker[Own(w, "network")] # "absent"
        /\ runs[w].pc = "listen" => docker[Own(w, "proxy")] = "running"
        /\ runs[w].network => docker[Own(w, "network")] # "absent"
        /\ runs[w].network /\ runs[w].pc \in RunCalls => docker[Own(w, "proxy")] = "running"
        /\ runs[w].network /\ runs[w].tidy /\ docker[Own(w, "task")] = "running" =>
             docker[Own(w, "proxy")] = "running"

\* A container stops at its own deadline only after its worker gave up or
\* lost its lease, and the limit a run met is never reported as an error.
LimitsAreKnown(w) ==
    Live(w) =>
        /\ runs[w].pc \in {"start_task", "wait", "output"} /\ ~runs[w].timed_out =>
             docker[Own(w, "task")] # "expired"
        /\ runs[w].limit => runs[w].result # "error"

\* What a reaper found without a live lease has none ever after.
OrphansStayOrphans(w) ==
    runs[w].pc = "remove" =>
        \A o \in Orphans(w, reapers[w].containers \union reapers[w].networks) :
            lease[o[2]] # "live"

SparesTheLive(w) == ProxyStays(w) /\ LimitsAreKnown(w) /\ OrphansStayOrphans(w)

-----------------------------------------------------------------------------
\* The inductive invariant: attempts are claimed before anything is made for
\* them, a run's locals account for what Docker has of its attempt
\* (execution.py, run and _egress), and, if leases hold, only the run takes
\* anything away from a live attempt.
ContainersInv ==
    /\ Shapes
    /\ ClaimsHold
    /\ \A w \in Worker : Accounted(w)
    /\ ReturnsAreClean
    /\ ~SlowCommits => beating = {} /\ \A w \in Worker : SparesTheLive(w)

=============================================================================
