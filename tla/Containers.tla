----------------------------- MODULE Containers -----------------------------
(***************************************************************************)
(* Attempts in containers of their own (backend/fleet/execution.py,        *)
(* InContainer): what a run asks of Docker and in which order, how it is   *)
(* stopped, what it sweeps up, and how workers remove what attempts with   *)
(* no live lease left behind (reap_orphans).                               *)
(*                                                                         *)
(* A run is at a call to Docker, and the call succeeds, fails, or is cut   *)
(* off when the run is stopped.  Of the store the module keeps only each   *)
(* attempt's lease: whether live_attempts would return it.                 *)
(***************************************************************************)
EXTENDS Naturals

CONSTANTS
    Attempt,      \* attempts of any jobs, each with a claim of its own
    Worker,
    Reliable,     \* the workers that never stop for good
    NoAttempt,
    LateCreates,  \* whether Docker may create what a cut-off call asked for
    SlowCommits,  \* whether a heartbeat may commit after its old lease lapsed
    Exits,        \* the ways tasks end
    MaxFaults     \* bounds the kills and failures

ASSUME ReliableAssumption == Reliable \subseteq Worker
ASSUME AttemptAssumption  == NoAttempt \notin Attempt
\* What read_reports and inspect may find of a task that has stopped: its
\* job's result, with exit code 0, its job's exception, or no report at all;
\* and whether anything in the container was killed for its memory.
Reports == [report : {"result", "error", "none"}, oom_killed : BOOLEAN]

ASSUME ExitAssumption     == Exits \subseteq Reports
ASSUME FlagAssumption     == LateCreates \in BOOLEAN /\ SlowCommits \in BOOLEAN
ASSUME FaultAssumption    == MaxFaults \in Nat

VARIABLES
    docker,   \* the daemon's objects: each attempt's network, proxy and task
    late,     \* objects a cut-off call may still create
    lease,    \* each attempt's lease
    beating,  \* attempts with a heartbeat written and not committed
    runs,     \* each worker: its step, and the locals of run
    reapers,  \* each worker's reap_orphans: what it listed, who was alive
    over,     \* how each attempt's run ended
    faults

vars == <<docker, late, lease, beating, runs, reapers, over, faults>>

Containers == {"proxy", "task"}
Kinds      == Containers \union {"network"}
Object     == Kinds \X Attempt

\* The calls of run, in order: _egress's first, which only a policy with
\* egress makes.
EgressCalls == {"create_network", "create_proxy", "start_proxy", "listen"}
RunCalls    == EgressCalls \union {"create_task", "start_task", "wait", "kill", "output"}
ReapCalls   == {"list_containers", "list_networks", "live_attempts", "remove"}

\* created and network are run's locals: what it has to sweep up.  limit:
\* whether the task was stopped at one of its limits.
Idle == [pc |-> "idle", attempt |-> NoAttempt, created |-> {}, network |-> FALSE,
         timed_out |-> FALSE, limit |-> FALSE, result |-> "none",
         tidy |-> TRUE, ending |-> "none"]
NotReaping == [containers |-> {}, networks |-> {}, alive |-> {}]

Init ==
    /\ docker  = [o \in Object |-> "absent"]
    /\ late    = {}
    /\ lease   = [a \in Attempt |-> "unclaimed"]
    /\ beating = {}
    /\ runs    = [w \in Worker |-> Idle]
    /\ reapers = [w \in Worker |-> NotReaping]
    /\ over    = [a \in Attempt |-> "no"]
    /\ faults  = 0

AttemptOf(w) == runs[w].attempt
Own(w, kind) == <<kind, AttemptOf(w)>>
Go(w, pc)    == runs' = [runs EXCEPT ![w].pc = pc]
Fault        == faults < MaxFaults /\ faults' = faults + 1

-----------------------------------------------------------------------------
(* InContainer.run, call by call.                                          *)

\* A claimed and started job: run begins, with or without egress granted.
BeginRun(w, a) ==
    /\ runs[w].pc = "idle"
    /\ lease[a] = "unclaimed"
    /\ lease' = [lease EXCEPT ![a] = "live"]
    /\ \E pc \in {"create_network", "create_task"} :
         runs' = [runs EXCEPT ![w] = [Idle EXCEPT !.pc = pc, !.attempt = a]]
    /\ UNCHANGED <<docker, late, beating, reapers, over, faults>>

Creating(pc) ==
    CASE pc = "create_network" -> {"network"}
      [] pc = "create_proxy"   -> {"proxy"}
      [] pc = "create_task"    -> {"task"}
      [] OTHER -> {}

Following(pc) ==
    CASE pc = "create_network" -> "create_proxy"
      [] pc = "create_proxy"   -> "start_proxy"
      [] pc = "start_proxy"    -> "listen"
      [] pc = "listen"         -> "create_task"
      [] pc = "create_task"    -> "start_task"
      [] pc = "start_task"     -> "wait"

Create(w) ==
    /\ Creating(runs[w].pc) # {}
    /\ \E kind \in Creating(runs[w].pc) :
         /\ docker' = [docker EXCEPT ![Own(w, kind)] = "created"]
         /\ runs' = [runs EXCEPT ![w].pc = Following(runs[w].pc),
                                 ![w].created = @ \union ({kind} \intersect Containers)]
    /\ UNCHANGED <<late, lease, beating, reapers, over, faults>>

Start(w, kind) ==
    /\ runs[w].pc = IF kind = "task" THEN "start_task" ELSE "start_proxy"
    /\ docker[Own(w, kind)] # "absent"
    /\ docker' = [docker EXCEPT ![Own(w, kind)] = "running"]
    /\ Go(w, Following(runs[w].pc))
    /\ UNCHANGED <<late, lease, beating, reapers, over, faults>>

\* Broken: _egress does not return the network.
ListeningOnly(w) ==
    /\ runs[w].pc = "listen"
    /\ docker[Own(w, "proxy")] # "absent"
    /\ Go(w, Following("listen"))
    /\ UNCHANGED <<docker, late, lease, beating, reapers, over, faults>>

\* The proxy says it listens: only now does run learn of its network.
Listening(w) ==
    /\ runs[w].pc = "listen"
    /\ docker[Own(w, "proxy")] # "absent"
    /\ runs' = [runs EXCEPT ![w].pc = Following("listen"), ![w].network = TRUE]
    /\ UNCHANGED <<docker, late, lease, beating, reapers, over, faults>>

Stopped(o) == docker[o] \in {"exited", "expired"}

\* The task's process stops: its job is over, or it is out of memory.  How it
\* ended is one of Exits, seen when it is read.
TaskExits(a) ==
    /\ docker[<<"task", a>>] = "running"
    /\ docker' = [docker EXCEPT ![<<"task", a>>] = "exited"]
    /\ UNCHANGED <<late, lease, beating, runs, reapers, over, faults>>

\* The container's own deadline trails its worker's timeout by as long as a
\* lease lasts: a worker that has not timed out by then has lost its lease.
OwnDeadline(a) ==
    /\ docker[<<"task", a>>] = "running"
    /\ \A w \in Worker : AttemptOf(w) = a /\ runs[w].pc \in {"start_task", "wait"}
                           => lease[a] # "live"
    /\ docker' = [docker EXCEPT ![<<"task", a>>] = "expired"]
    /\ UNCHANGED <<late, lease, beating, runs, reapers, over, faults>>

\* wait answers once the container has stopped; before the answer is there it
\* may time out.
Wait(w) ==
    /\ runs[w].pc = "wait"
    /\ \/ Stopped(Own(w, "task")) /\ Go(w, "output")
       \/ /\ docker[Own(w, "task")] # "absent"
          /\ runs' = [runs EXCEPT ![w].pc = "kill", ![w].timed_out = TRUE]
    /\ UNCHANGED <<docker, late, lease, beating, reapers, over, faults>>

\* What has stopped meanwhile stays as it is.
Kill(w) ==
    /\ runs[w].pc = "kill"
    /\ docker' = [docker EXCEPT ![Own(w, "task")] = IF @ = "running" THEN "exited" ELSE @]
    /\ Go(w, "output")
    /\ UNCHANGED <<late, lease, beating, reapers, over, faults>>

Sweeping(w, ending) ==
    runs' = [runs EXCEPT ![w].pc = "sweep", ![w].ending = ending]

\* Broken: the runner's exception is looked at before the limits.
ResultErrorFirst(timedOut, exit) ==
    CASE exit.report = "error" -> "error"
      [] exit.report # "error" /\ timedOut -> "timeout"
      [] exit.report = "result" /\ ~timedOut -> "outcome"
      [] exit.report = "none" /\ ~timedOut /\ exit.oom_killed -> "memory_limit"
      [] exit.report = "none" /\ ~timedOut /\ ~exit.oom_killed -> "error"

\* _result: a task stopped at a limit has failed for good (cut_short); an
\* error is the infrastructure's, and the job is tried again.
Result(timedOut, exit) ==
    CASE timedOut -> "timeout"
      [] ~timedOut /\ exit.report = "result" -> "outcome"
      [] ~timedOut /\ exit.report # "result" /\ exit.oom_killed -> "memory_limit"
      [] ~timedOut /\ exit.report # "result" /\ ~exit.oom_killed -> "error"

\* inspect and output, what they find, and what run returns of it.
Output(w) ==
    /\ runs[w].pc = "output"
    /\ docker[Own(w, "task")] # "absent"
    /\ \E exit \in Exits :
         /\ docker[Own(w, "task")] = "expired" => exit.report # "result"
         /\ runs' = [runs EXCEPT ![w].pc = "sweep", ![w].ending = "returned",
             ![w].timed_out = FALSE, ![w].result = Result(runs[w].timed_out, exit),
             ![w].limit = \/ runs[w].timed_out \/ exit.oom_killed
                          \/ docker[Own(w, "task")] = "expired"]
    /\ UNCHANGED <<docker, late, lease, beating, reapers, over, faults>>

\* Cut off in mid-call, a create may still be carried out.
CutOff(w) ==
    IF LateCreates THEN late \union {Own(w, kind) : kind \in Creating(runs[w].pc)}
    ELSE late

\* What a call works on is gone: removed by a reaper.
Gone(w) ==
    \/ runs[w].pc \in {"start_proxy", "listen"} /\ docker[Own(w, "proxy")] = "absent"
    \/ runs[w].pc \in {"start_task", "wait", "output"} /\ docker[Own(w, "task")] = "absent"

\* Docker fails a call, or a proxy never listens: run raises.
CallFails(w) ==
    /\ runs[w].pc \in RunCalls
    /\ \/ Gone(w) /\ UNCHANGED faults
       \/ ~Gone(w) /\ Fault
    /\ late' = CutOff(w)
    /\ Sweeping(w, "raised")
    /\ UNCHANGED <<docker, lease, beating, reapers, over>>

\* Broken: swept up in the order it was created.
SweptNextForward(w) == IF "proxy" \in runs[w].created THEN "proxy" ELSE "task"

\* reversed(created)
SweptNext(w) == IF "task" \in runs[w].created THEN "task" ELSE "proxy"

\* The finally clause: containers first.  A failure is passed over.
Sweep(w) ==
    /\ runs[w].pc = "sweep"
    /\ runs[w].created # {}
    /\ \/ /\ docker' = [docker EXCEPT ![Own(w, SweptNext(w))] = "absent"]
          /\ runs' = [runs EXCEPT ![w].created = @ \ {SweptNext(w)}]
          /\ UNCHANGED faults
       \/ /\ Fault
          /\ runs' = [runs EXCEPT ![w].created = @ \ {SweptNext(w)}, ![w].tidy = FALSE]
          /\ UNCHANGED docker
    /\ UNCHANGED <<late, lease, beating, reapers, over>>

\* Docker keeps a network that a running container is on.
NetworkFree(a) == \A kind \in Containers : docker[<<kind, a>>] # "running"

SweepNetwork(w) ==
    /\ runs[w].pc = "sweep"
    /\ runs[w].created = {}
    /\ runs[w].network
    /\ \/ /\ NetworkFree(AttemptOf(w))
          /\ docker' = [docker EXCEPT ![Own(w, "network")] = "absent"]
          /\ runs' = [runs EXCEPT ![w].network = FALSE]
          /\ UNCHANGED faults
       \/ /\ \/ NetworkFree(AttemptOf(w)) /\ Fault
             \/ ~NetworkFree(AttemptOf(w)) /\ UNCHANGED faults
          /\ runs' = [runs EXCEPT ![w].network = FALSE, ![w].tidy = FALSE]
          /\ UNCHANGED docker
    /\ UNCHANGED <<late, lease, beating, reapers, over>>

\* What a sweep is removing just now.
Removing(w) ==
    IF runs[w].created # {} THEN {Own(w, SweptNext(w))}
    ELSE {Own(w, kind) : kind \in {k \in {"network"} :
                                     runs[w].network /\ NetworkFree(AttemptOf(w))}}

\* Worker._run cancels the run: its lease is lost, or its cancel was asked
\* for.  A sweep is cut off as well: the removal in progress may happen, and
\* what comes after it does not.
Stop(w) ==
    /\ runs[w].ending # "stopped"
    /\ \/ /\ runs[w].pc \in RunCalls
          /\ late' = CutOff(w)
          /\ Sweeping(w, "stopped")
          /\ UNCHANGED docker
       \/ /\ runs[w].pc = "sweep"
          /\ \E gone \in {{}, Removing(w)} :
               docker' = [o \in Object |-> IF o \in gone THEN "absent" ELSE docker[o]]
          /\ runs' = [runs EXCEPT ![w].created = {}, ![w].network = FALSE,
                                  ![w].ending = "stopped"]
          /\ UNCHANGED late
    /\ UNCHANGED <<lease, beating, reapers, over, faults>>

\* The run is over.  Its worker ends the attempt if it still holds it; but a
\* run that raised takes its worker down.
EndRun(w) ==
    LET a == AttemptOf(w)
    IN  /\ runs[w].pc = "sweep"
        /\ runs[w].created = {}
        /\ ~runs[w].network
        /\ over' = [over EXCEPT ![a] = IF runs[w].tidy THEN runs[w].ending ELSE "untidy"]
        /\ \/ /\ runs[w].ending = "raised"
              /\ runs' = [runs EXCEPT ![w] = [Idle EXCEPT !.pc = "down"]]
              /\ UNCHANGED lease
           \/ /\ runs[w].ending # "raised"
              /\ a \notin beating
              /\ runs' = [runs EXCEPT ![w] = Idle]
              /\ lease' = [lease EXCEPT ![a] = IF @ = "live" THEN "ended" ELSE @]
        /\ UNCHANGED <<docker, late, beating, reapers, faults>>

RunStep(w) ==
    \/ \E a \in Attempt : BeginRun(w, a)
    \/ Create(w)
    \/ \E kind \in Containers : Start(w, kind)
    \/ Listening(w) \/ Wait(w) \/ Kill(w) \/ Output(w)
    \/ CallFails(w) \/ Stop(w)
    \/ Sweep(w) \/ SweepNetwork(w) \/ EndRun(w)

-----------------------------------------------------------------------------
(* reap_orphans, which a worker calls between its runs.                    *)

\* Broken: only what runs is listed.
ListedRunning(kinds) == {o \in Object : o[1] \in kinds /\ docker[o] = "running"}

\* Containers are listed whether they run or not.
Listed(kinds) == {o \in Object : o[1] \in kinds /\ docker[o] # "absent"}

LiveAttempts == {a \in Attempt : lease[a] = "live"}

BeginReap(w) ==
    /\ runs[w].pc = "idle"
    /\ Go(w, "list_containers")
    /\ UNCHANGED <<docker, late, lease, beating, reapers, over, faults>>

ListContainers(w) ==
    /\ runs[w].pc = "list_containers"
    /\ reapers' = [reapers EXCEPT ![w].containers = Listed(Containers)]
    /\ Go(w, "list_networks")
    /\ UNCHANGED <<docker, late, lease, beating, over, faults>>

ListNetworks(w) ==
    /\ runs[w].pc = "list_networks"
    /\ reapers' = [reapers EXCEPT ![w].networks = Listed({"network"})]
    /\ Go(w, "live_attempts")
    /\ UNCHANGED <<docker, late, lease, beating, over, faults>>

ReadLive(w) ==
    /\ runs[w].pc = "live_attempts"
    /\ reapers' = [reapers EXCEPT ![w].alive = LiveAttempts]
    /\ Go(w, "remove")
    /\ UNCHANGED <<docker, late, lease, beating, over, faults>>

\* Broken: listed after the live attempts were read.
OrphansNow(w, listed) == {o \in Listed(Kinds) : o[2] \notin reapers[w].alive}

Orphans(w, listed) == {o \in listed : o[2] \notin reapers[w].alive}

\* Containers go one by one; a container that is gone already is no matter.
RemoveContainer(w) ==
    /\ runs[w].pc = "remove"
    /\ \E o \in Orphans(w, reapers[w].containers) :
         /\ docker' = [docker EXCEPT ![o] = "absent"]
         /\ reapers' = [reapers EXCEPT ![w].containers = @ \ {o}]
    /\ UNCHANGED <<late, lease, beating, runs, over, faults>>

\* Then the networks; one that is in use is passed over.
RemoveNetwork(w) ==
    /\ runs[w].pc = "remove"
    /\ Orphans(w, reapers[w].containers) = {}
    /\ \E o \in Orphans(w, reapers[w].networks) :
         /\ docker' = [docker EXCEPT ![o] = IF NetworkFree(o[2]) THEN "absent" ELSE @]
         /\ reapers' = [reapers EXCEPT ![w].networks = @ \ {o}]
    /\ UNCHANGED <<late, lease, beating, runs, over, faults>>

EndReap(w) ==
    /\ runs[w].pc = "remove"
    /\ Orphans(w, reapers[w].containers \union reapers[w].networks) = {}
    /\ reapers' = [reapers EXCEPT ![w] = NotReaping]
    /\ Go(w, "idle")
    /\ UNCHANGED <<docker, late, lease, beating, over, faults>>

ReapStep(w) ==
    \/ BeginReap(w) \/ ListContainers(w) \/ ListNetworks(w) \/ ReadLive(w)
    \/ RemoveContainer(w) \/ RemoveNetwork(w) \/ EndReap(w)

-----------------------------------------------------------------------------
(* Leases, kills, and Docker.                                              *)

Running(a) == \E w \in Worker : runs[w].attempt = a

\* A heartbeat is written while the lease is live, and committed later.
Heartbeat(a) ==
    /\ SlowCommits
    /\ lease[a] = "live"
    /\ Running(a)
    /\ beating' = beating \union {a}
    /\ UNCHANGED <<docker, late, lease, runs, reapers, over, faults>>

HeartbeatCommits(a) ==
    /\ a \in beating
    /\ beating' = beating \ {a}
    /\ lease' = [lease EXCEPT ![a] = "live"]
    /\ UNCHANGED <<docker, late, runs, reapers, over, faults>>

Lapse(a) ==
    /\ lease[a] = "live"
    /\ lease' = [lease EXCEPT ![a] = "lapsed"]
    /\ UNCHANGED <<docker, late, beating, runs, reapers, over, faults>>

\* A worker is killed, or raises out of a reap that Docker failed.
Crash(w) ==
    /\ w \notin Reliable
    /\ runs[w].pc # "down"
    /\ Fault
    /\ late' = CutOff(w)
    /\ runs' = [runs EXCEPT ![w] = [Idle EXCEPT !.pc = "down"]]
    /\ reapers' = [reapers EXCEPT ![w] = NotReaping]
    /\ UNCHANGED <<docker, lease, beating, over>>

Restart(w) ==
    /\ runs[w].pc = "down"
    /\ Go(w, "idle")
    /\ UNCHANGED <<docker, late, lease, beating, reapers, over, faults>>

CreatedLate(o) ==
    /\ late' = late \ {o}
    /\ \/ docker' = [docker EXCEPT ![o] = "created"]
       \/ UNCHANGED docker
    /\ UNCHANGED <<lease, beating, runs, reapers, over, faults>>

Next ==
    \/ \E w \in Worker : RunStep(w) \/ ReapStep(w) \/ Crash(w) \/ Restart(w)
    \/ \E a \in Attempt : TaskExits(a) \/ OwnDeadline(a) \/ Heartbeat(a) \/ HeartbeatCommits(a) \/ Lapse(a)
    \/ \E o \in late : CreatedLate(o)

\* A reliable worker goes on stepping and is started again; the others may
\* stop anywhere.  No lease is held for ever: a run has a wall clock, and its
\* heartbeats end with it.
Fairness ==
    /\ \A w \in Reliable : WF_vars(RunStep(w) \/ ReapStep(w) \/ Restart(w))
    /\ \A a \in Attempt :
         WF_vars(Lapse(a)) /\ WF_vars(HeartbeatCommits(a)) /\ <>[][~Heartbeat(a)]_vars
    /\ WF_vars(\E o \in late : CreatedLate(o))

Spec == Init /\ [][Next]_vars /\ Fairness

-----------------------------------------------------------------------------
\* reap_orphans stops "what attempts without a live lease left running"
\* (execution.py) and nothing else: whatever was created, claimed or renewed
\* since it listed, it never takes a live attempt's container or network.
\* It holds when a heartbeat commits before the lease it replaces runs out
\* (SlowCommits FALSE): live_attempts reads committed leases and takes no lock.
LiveAttemptsAreSpared ==
    [][ \A w \in Worker, o \in Object :
          ((RemoveContainer(w) \/ RemoveNetwork(w)) /\ docker'[o] # docker[o])
             => lease[o[2]] # "live" ]_vars

\* A task never runs without the proxy it was granted (execution.py, _egress):
\* not before the proxy listens, and not while the run is swept up, unless
\* Docker failed to remove the task.
TasksRunBehindTheirProxy ==
    \A w \in Worker :
        (runs[w].network /\ runs[w].tidy /\ lease[AttemptOf(w)] = "live"
            /\ docker[Own(w, "task")] = "running")
        => docker[Own(w, "proxy")] = "running" /\ docker[Own(w, "network")] # "absent"

\* design.md: "Memory and timeout kills are final failures, never retried".  A
\* run that still has its lease and whose task met a limit, its worker's, its
\* container's or its memory's (execution.py, _result; task.py, _stop_at),
\* never returns the error that has the job tried again, whatever the task
\* had reported, and whoever stopped it first.
LimitKillsAreFinal ==
    \A w \in Worker :
        runs[w].limit /\ lease[AttemptOf(w)] = "live" => runs[w].result # "error"

\* A run that returns has removed its containers and its network (execution.py,
\* run), unless Docker failed a removal.
ReturnedRunsLeaveNothing ==
    \A o \in Object : over[o[2]] = "returned" => docker[o] = "absent"

\* Whatever an attempt creates is removed in the end: by its run, or, if its
\* worker died, was stopped, or asked Docker for it too late, by a reaper.
NothingStays ==
    \A o \in Object : docker[o] # "absent" ~> docker[o] = "absent"

=============================================================================
