-------------------------- MODULE ContainersProofs --------------------------
(***************************************************************************)
(* Proofs that ContainersInv is inductive, for any attempts, workers, exits *)
(* and faults, and what follows from it: returned runs leave nothing, and, *)
(* where heartbeats commit in time, limits are final, tasks run behind     *)
(* their proxies and reapers spare the living.                             *)
(***************************************************************************)
EXTENDS ContainersInvariant, TLAPS

\* An object names its kind and its attempt.
LEMMA Objects ==
    /\ \A kind \in Kinds : \A a \in Attempt :
         <<kind, a>> \in Object /\ <<kind, a>>[1] = kind /\ <<kind, a>>[2] = a
    /\ \A o \in Object : o = <<o[1], o[2]>> /\ o[1] \in Kinds /\ o[2] \in Attempt
  BY DEF Object

LEMMA KindNames ==
    /\ Containers \subseteq Kinds /\ "network" \in Kinds /\ "network" \notin Containers
    /\ "task" \in Containers /\ "proxy" \in Containers
    /\ \A kind \in Containers : kind = "task" \/ kind = "proxy"
  BY DEF Kinds, Containers

-----------------------------------------------------------------------------
(* Workers that a step does not touch.                                     *)

\* The step leaves v's locals alone, and of v's objects it only removes some.
Passed(v) ==
    /\ runs'[v] = runs[v]
    /\ reapers'[v] = reapers[v]
    /\ runs[v].attempt \in Attempt =>
         \A kind \in Kinds :
             /\ docker'[Own(v, kind)] \in {docker[Own(v, kind)], "absent"}
             /\ Own(v, kind) \in late' => Own(v, kind) \in late

\* It removes nothing of an attempt whose lease is live, and gives no attempt
\* a lease again.
PassedLive(v) ==
    /\ runs[v].attempt \in Attempt /\ lease[runs[v].attempt] = "live" =>
         \A kind \in Kinds : docker'[Own(v, kind)] = docker[Own(v, kind)]
    /\ \A a \in Attempt : lease'[a] = "live" => lease[a] \in {"live", "unclaimed"}

\* v's locals go on accounting for what Docker has of its attempt.
LEMMA PassedIsAccounted ==
    ASSUME NEW v \in Worker, Shapes, Accounted(v), Passed(v)
    PROVE  Accounted(v)'
  <1> USE KindNames DEF AttemptOf, Own, Passed
  <1>1. LocalsAreFresh(v)'
    BY DEF Accounted, LocalsAreFresh
  <1>2. runs[v].pc \in InRun => runs[v].attempt \in Attempt
    BY DEF Accounted, LocalsAreFresh
  <1>3. CallsAreAccounted(v)'
    BY <1>2 DEF Accounted, CallsAreAccounted, InRun
  <1>4. NetworkIsKnown(v)'
    BY <1>2 DEF Accounted, NetworkIsKnown, InRun, RunCalls
  <1>5. TaskFollows(v)'
    BY <1>2 DEF Accounted, TaskFollows, InRun, RunCalls
  <1>6. SweepsAreAccounted(v)'
    BY <1>2 DEF Accounted, SweepsAreAccounted, InRun
  <1> QED
    BY <1>1, <1>3, <1>4, <1>5, <1>6 DEF Accounted

\* What v knows of live attempts stays true.
LEMMA PassedIsSpared ==
    ASSUME NEW v \in Worker, Shapes, ClaimsHold, Accounted(v), SparesTheLive(v),
           Passed(v), PassedLive(v)
    PROVE  SparesTheLive(v)'
  <1> USE KindNames DEF AttemptOf, Own, Passed, PassedLive
  <1>1. Live(v)' => Live(v)
    BY DEF Live, ClaimsHold, RunsAreClaimed
  <1>2. ProxyStays(v)'
    BY <1>1 DEF SparesTheLive, ProxyStays, Live
  <1>3. LimitsAreKnown(v)'
    BY <1>1 DEF SparesTheLive, LimitsAreKnown, Live
  <1>4. OrphansStayOrphans(v)'
    <2>1. \A o \in reapers[v].containers \union reapers[v].networks :
             o \in Object /\ o[2] \in Attempt /\ lease[o[2]] # "unclaimed"
      BY Objects DEF Shapes, ReapState, ClaimsHold, ListsAreClaimed
    <2> QED
      BY <2>1 DEF SparesTheLive, OrphansStayOrphans, Orphans
  <1> QED
    BY <1>2, <1>3, <1>4 DEF SparesTheLive

\* A step that is a worker's own: it touches no other worker's locals and no
\* other attempt's objects.
Only(w) ==
    /\ \A v \in Worker \ {w} : runs'[v] = runs[v] /\ reapers'[v] = reapers[v]
    /\ \A o \in Object : docker'[o] # docker[o] \/ (o \in late' /\ o \notin late)
                            => o[2] = runs[w].attempt

\* It passes the other workers by.
LEMMA OthersArePassed ==
    ASSUME ContainersInv, NEW w \in Worker, Only(w), NEW v \in Worker, v # w
    PROVE  /\ Passed(v)
           /\ runs[v].attempt \in Attempt =>
                \A kind \in Kinds : docker'[Own(v, kind)] = docker[Own(v, kind)]
  <1>1. runs[v].attempt \in Attempt => runs[v].attempt # runs[w].attempt
    BY DEF ContainersInv, ClaimsHold, OneRunEach
  <1>2. runs[v].attempt \in Attempt =>
          \A kind \in Kinds : Own(v, kind) \in Object /\ Own(v, kind)[2] # runs[w].attempt
    BY <1>1, Objects DEF Own, AttemptOf
  <1> QED
    BY <1>2 DEF Only, Passed

\* A step within a run, at a call or in the sweep.
Within(w) ==
    /\ runs' \in [Worker -> RunState]
    /\ docker' \in [Object -> States]
    /\ late' \in SUBSET Object
    /\ faults' \in Nat
    /\ Only(w)
    /\ runs[w].attempt \in Attempt
    /\ runs'[w].attempt = runs[w].attempt
    /\ lease' = lease /\ over' = over /\ beating' = beating /\ reapers' = reapers

\* All that such a step has to keep is what its own worker knows.
LEMMA WithinARun ==
    ASSUME ContainersInv, NEW w \in Worker, Within(w), Accounted(w)',
           ~SlowCommits => SparesTheLive(w)'
    PROVE  ContainersInv'
  <1>0. Shapes'
    BY DEF ContainersInv, Shapes, Within
  <1>1. \A v \in Worker \ {w} : Passed(v)
    BY OthersArePassed DEF Within
  <1>2. \A v \in Worker : Accounted(v)'
    BY <1>1, PassedIsAccounted DEF ContainersInv
  <1>3. lease[runs[w].attempt] # "unclaimed" /\ over[runs[w].attempt] = "no"
    BY DEF ContainersInv, ClaimsHold, RunsAreClaimed, Within
  <1>4. ClaimsHold'
    <2>1. ObjectsAreClaimed'
      BY <1>3 DEF ContainersInv, ClaimsHold, ObjectsAreClaimed, Within, Only
    <2>2. EndsAreClaimed' /\ ListsAreClaimed'
      BY DEF ContainersInv, ClaimsHold, EndsAreClaimed, ListsAreClaimed, Within
    <2>3. \A v \in Worker : runs'[v].attempt = runs[v].attempt
      BY DEF Within, Only
    <2>4. RunsAreClaimed' /\ OneRunEach'
      BY <2>3 DEF ContainersInv, ClaimsHold, RunsAreClaimed, OneRunEach, Within
    <2> QED
      BY <2>1, <2>2, <2>4 DEF ClaimsHold
  <1>5. ReturnsAreClean'
    BY <1>3 DEF ContainersInv, ReturnsAreClean, Within, Only
  <1>6. ASSUME ~SlowCommits PROVE beating' = {} /\ \A v \in Worker : SparesTheLive(v)'
    <2>1. \A a \in Attempt : lease'[a] = "live" => lease[a] \in {"live", "unclaimed"}
      BY DEF Within
    <2>2. \A v \in Worker \ {w} : PassedLive(v)
      BY <2>1, OthersArePassed DEF PassedLive, Within
    <2>3. \A v \in Worker \ {w} : SparesTheLive(v)'
      BY <1>1, <1>6, <2>2, PassedIsSpared DEF ContainersInv
    <2> QED
      BY <1>6, <2>3 DEF ContainersInv, Within
  <1> QED
    BY <1>0, <1>2, <1>4, <1>5, <1>6 DEF ContainersInv

-----------------------------------------------------------------------------
(* The steps of a run.                                                     *)

\* What a run at a call knows: its attempt, and that its objects are Docker's.
LEMMA AtACall ==
    ASSUME ContainersInv, NEW w \in Worker, runs[w].pc \in InRun
    PROVE  /\ runs[w] \in RunState
           /\ runs[w].attempt \in Attempt
           /\ \A kind \in Kinds : Own(w, kind) \in Object /\ Own(w, kind)[2] = runs[w].attempt
  <1>1. runs[w] \in RunState /\ runs[w].attempt \in Attempt
    BY DEF ContainersInv, Shapes, Accounted, LocalsAreFresh
  <1> QED
    BY <1>1, Objects DEF Own, AttemptOf

\* Such a step replaces the run's locals and touches its own objects.
LEMMA StepWithin ==
    ASSUME ContainersInv, NEW w \in Worker, runs[w].pc \in InRun,
           NEW r \in RunState, r.attempt = runs[w].attempt, runs' = [runs EXCEPT ![w] = r],
           docker' \in [Object -> States],
           \A o \in Object : o[2] # runs[w].attempt =>
               docker'[o] = docker[o] /\ (o \in late' => o \in late),
           late' \in SUBSET Object, faults' \in Nat,
           UNCHANGED <<lease, beating, reapers, over>>
    PROVE  /\ Within(w) /\ runs'[w] = r /\ reapers'[w] = reapers[w]
           /\ \A kind : Own(w, kind)' = Own(w, kind)
           /\ reapers[w] = NotReaping
  <1>1. runs \in [Worker -> RunState] /\ runs[w].attempt \in Attempt
    BY AtACall DEF ContainersInv, Shapes
  <1>2. /\ runs' \in [Worker -> RunState] /\ runs'[w] = r
        /\ \A v \in Worker \ {w} : runs'[v] = runs[v]
    BY <1>1
  <1>3. reapers[w] = NotReaping
    BY DEF ContainersInv, Accounted, LocalsAreFresh, InRun, RunCalls, EgressCalls, ReapCalls
  <1> QED
    BY <1>1, <1>2, <1>3 DEF Within, Only, Own, AttemptOf

\* A call that creates or starts one of the run's own objects.
LEMMA OwnObject ==
    ASSUME ContainersInv, NEW w \in Worker, runs[w].pc \in InRun,
           NEW kind \in Kinds, NEW state \in States,
           docker' = [docker EXCEPT ![Own(w, kind)] = state]
    PROVE  /\ docker' \in [Object -> States]
           /\ \A o \in Object : o[2] # runs[w].attempt => docker'[o] = docker[o]
           /\ \A k \in Kinds : docker'[Own(w, k)] = IF k = kind THEN state ELSE docker[Own(w, k)]
  <1>1. docker \in [Object -> States]
    BY DEF ContainersInv, Shapes
  <1>2. \A k \in Kinds : Own(w, k) \in Object /\ Own(w, k)[2] = runs[w].attempt
                         /\ (Own(w, k) = Own(w, kind) => k = kind)
    BY AtACall DEF Own
  <1> QED
    BY <1>1, <1>2

\* It holds its lease afterwards only if it held it before.
LEMMA WasLive ==
    ASSUME ContainersInv, NEW w \in Worker, Within(w), ~SlowCommits
    PROVE  Live(w)' => Live(w) /\ ProxyStays(w) /\ LimitsAreKnown(w)
  BY DEF ContainersInv, SparesTheLive, Live, Within, AttemptOf

LEMMA CreateKeeps ==
    ASSUME ContainersInv, NEW w \in Worker, Create(w)
    PROVE  ContainersInv'
  <1> USE KindNames DEF RunCalls, EgressCalls
  <1>0. UNCHANGED <<late, lease, beating, reapers, over, faults>>
    BY DEF Create
  <1>1. runs[w].pc \in {"create_network", "create_proxy", "create_task"}
    BY DEF Create, Creating
  <1>2. PICK kind \in Creating(runs[w].pc) :
          /\ docker' = [docker EXCEPT ![Own(w, kind)] = "created"]
          /\ runs' = [runs EXCEPT ![w].pc = Following(runs[w].pc),
                                  ![w].created = @ \union ({kind} \intersect Containers)]
    BY DEF Create
  <1>3. PICK r : r = [runs[w] EXCEPT !.pc = Following(runs[w].pc),
                                     !.created = @ \union ({kind} \intersect Containers)]
    OBVIOUS
  <1>4. runs[w].pc \in InRun /\ kind \in Kinds /\ Following(runs[w].pc) \in RunCalls
    BY <1>1 DEF Creating, Following, InRun
  <1>5. runs[w] \in RunState
    BY <1>4, AtACall
  <1>6. /\ r \in RunState /\ r.attempt = runs[w].attempt
        /\ r.pc = Following(runs[w].pc) /\ r.network = runs[w].network
        /\ r.created = runs[w].created \union ({kind} \intersect Containers)
        /\ r.timed_out = runs[w].timed_out /\ r.limit = runs[w].limit
        /\ r.tidy = runs[w].tidy /\ r.ending = runs[w].ending
    BY <1>3, <1>4, <1>5 DEF RunState, InRun
  <1>7. /\ docker' \in [Object -> States]
        /\ \A o \in Object : o[2] # runs[w].attempt => docker'[o] = docker[o]
        /\ \A k \in Kinds : docker'[Own(w, k)] =
                               IF k = kind THEN "created" ELSE docker[Own(w, k)]
    BY <1>2, <1>4, OwnObject, ZenonT(30) DEF States
  <1>8. /\ Within(w) /\ runs'[w] = r /\ reapers'[w] = NotReaping
        /\ \A k : Own(w, k)' = Own(w, k)
    <2>1. runs' = [runs EXCEPT ![w] = r]
      BY <1>2, <1>3
    <2>2. late \in SUBSET Object /\ faults \in Nat /\ reapers' = reapers
      BY <1>0 DEF ContainersInv, Shapes
    <2> QED
      BY <1>0, <1>4, <1>6, <1>7, <2>1, <2>2, StepWithin
  <1>9. Accounted(w)'
    <2>1. LocalsAreFresh(w)'
      BY <1>4, <1>6, <1>8 DEF ContainersInv, Accounted, LocalsAreFresh, InRun, ReapCalls
    <2>2. CallsAreAccounted(w)'
      BY <1>0, <1>1, <1>6, <1>7, <1>8 DEF ContainersInv, Accounted, CallsAreAccounted
    <2>3. NetworkIsKnown(w)'
      BY <1>1, <1>6, <1>7, <1>8 DEF ContainersInv, Accounted, NetworkIsKnown, Following, Creating
    <2>4. TaskFollows(w)'
      BY <1>1, <1>6, <1>7, <1>8 DEF ContainersInv, Accounted, TaskFollows, Following, Creating
    <2>5. SweepsAreAccounted(w)'
      BY <1>4, <1>6, <1>8 DEF SweepsAreAccounted
    <2> QED
      BY <2>1, <2>2, <2>3, <2>4, <2>5 DEF Accounted
  <1>10. ASSUME ~SlowCommits PROVE SparesTheLive(w)'
    <2>1. Live(w)' => Live(w) /\ ProxyStays(w) /\ LimitsAreKnown(w)
      BY <1>8, <1>10, WasLive
    <2>2. ProxyStays(w)'
      BY <1>1, <1>6, <1>7, <1>8, <2>1
         DEF ContainersInv, Accounted, NetworkIsKnown, ProxyStays, Following, Creating
    <2>3. LimitsAreKnown(w)'
      BY <1>1, <1>6, <1>7, <1>8, <2>1
         DEF ContainersInv, Accounted, CallsAreAccounted, LimitsAreKnown, Following, Creating
    <2>4. OrphansStayOrphans(w)'
      BY <1>4, <1>6, <1>8 DEF OrphansStayOrphans
    <2> QED
      BY <2>2, <2>3, <2>4 DEF SparesTheLive
  <1> QED
    BY <1>8, <1>9, <1>10, WithinARun

LEMMA StartKeeps ==
    ASSUME ContainersInv, NEW w \in Worker, NEW kind \in Containers, Start(w, kind)
    PROVE  ContainersInv'
  <1> USE KindNames DEF RunCalls, EgressCalls
  <1>0. UNCHANGED <<late, lease, beating, reapers, over, faults>>
    BY DEF Start
  <1>1. \/ kind = "task" /\ runs[w].pc = "start_task" /\ Following(runs[w].pc) = "wait"
        \/ kind = "proxy" /\ runs[w].pc = "start_proxy" /\ Following(runs[w].pc) = "listen"
    BY DEF Start, Following
  <1>2. PICK r : r = [runs[w] EXCEPT !.pc = Following(runs[w].pc)]
    OBVIOUS
  <1>3. runs[w].pc \in InRun /\ runs[w] \in RunState
    BY <1>1, AtACall DEF InRun
  <1>4. /\ r \in RunState /\ r.attempt = runs[w].attempt
        /\ r.pc = Following(runs[w].pc) /\ r.network = runs[w].network
        /\ r.created = runs[w].created
        /\ r.timed_out = runs[w].timed_out /\ r.limit = runs[w].limit
        /\ r.tidy = runs[w].tidy /\ r.ending = runs[w].ending
    BY <1>1, <1>2, <1>3 DEF RunState, InRun
  <1>5. /\ docker' \in [Object -> States]
        /\ \A o \in Object : o[2] # runs[w].attempt => docker'[o] = docker[o]
        /\ \A k \in Kinds : docker'[Own(w, k)] =
                               IF k = kind THEN "running" ELSE docker[Own(w, k)]
    <2>1. docker' = [docker EXCEPT ![Own(w, kind)] = "running"]
      BY DEF Start
    <2> QED
      BY <1>3, <2>1, OwnObject, ZenonT(30) DEF States
  <1>6. /\ Within(w) /\ runs'[w] = r /\ reapers'[w] = NotReaping
        /\ \A k : Own(w, k)' = Own(w, k)
    <2>1. runs' = [runs EXCEPT ![w] = r]
      BY <1>2 DEF Start, Go
    <2>2. late \in SUBSET Object /\ faults \in Nat /\ reapers' = reapers
      BY <1>0 DEF ContainersInv, Shapes
    <2> QED
      BY <1>0, <1>3, <1>4, <1>5, <2>1, <2>2, StepWithin
  <1>7. Accounted(w)'
    BY <1>0, <1>1, <1>3, <1>4, <1>5, <1>6
       DEF ContainersInv, Accounted, LocalsAreFresh, CallsAreAccounted, NetworkIsKnown,
           TaskFollows, SweepsAreAccounted, InRun, ReapCalls, Within, Start
  <1>8. ASSUME ~SlowCommits PROVE SparesTheLive(w)'
    <2>1. Live(w)' => Live(w) /\ ProxyStays(w) /\ LimitsAreKnown(w)
      BY <1>6, <1>8, WasLive
    <2>2. ProxyStays(w)'
      BY <1>1, <1>4, <1>5, <1>6, <2>1 DEF ContainersInv, Accounted, NetworkIsKnown, ProxyStays
    <2>3. LimitsAreKnown(w)'
      BY <1>1, <1>4, <1>5, <1>6, <2>1
         DEF ContainersInv, Accounted, CallsAreAccounted, LimitsAreKnown
    <2>4. OrphansStayOrphans(w)'
      BY <1>1, <1>4, <1>6 DEF OrphansStayOrphans
    <2> QED
      BY <2>2, <2>3, <2>4 DEF SparesTheLive
  <1> QED
    BY <1>6, <1>7, <1>8, WithinARun

LEMMA ListeningKeeps ==
    ASSUME ContainersInv, NEW w \in Worker, Listening(w)
    PROVE  ContainersInv'
  <1> USE KindNames DEF RunCalls, EgressCalls
  <1>1. UNCHANGED <<docker, late, lease, beating, reapers, over, faults>> /\ runs[w].pc = "listen"
    BY DEF Listening
  <1>2. PICK r : r = [runs[w] EXCEPT !.pc = "create_task", !.network = TRUE]
    OBVIOUS
  <1>3. runs[w].pc \in InRun /\ runs[w] \in RunState
    BY <1>1, AtACall DEF InRun
  <1>4. /\ r \in RunState /\ r.attempt = runs[w].attempt
        /\ r.pc = "create_task" /\ r.network /\ r.created = runs[w].created
        /\ r.timed_out = runs[w].timed_out /\ r.limit = runs[w].limit
        /\ r.tidy = runs[w].tidy /\ r.ending = runs[w].ending
    BY <1>2, <1>3 DEF RunState, InRun
  <1>5. /\ Within(w) /\ runs'[w] = r /\ reapers'[w] = NotReaping
        /\ \A k : Own(w, k)' = Own(w, k)
    <2>1. runs' = [runs EXCEPT ![w] = r]
      BY <1>2 DEF Listening, Following
    <2>2. docker \in [Object -> States] /\ late \in SUBSET Object /\ faults \in Nat
      BY DEF ContainersInv, Shapes
    <2> QED
      BY <1>1, <1>3, <1>4, <2>1, <2>2, StepWithin
  <1>6. Accounted(w)'
    BY <1>1, <1>3, <1>4, <1>5
       DEF ContainersInv, Accounted, LocalsAreFresh, CallsAreAccounted, NetworkIsKnown,
           TaskFollows, SweepsAreAccounted, InRun, ReapCalls, Within
  <1>7. ASSUME ~SlowCommits PROVE SparesTheLive(w)'
    <2>1. Live(w)' => Live(w) /\ ProxyStays(w) /\ LimitsAreKnown(w)
      BY <1>5, <1>7, WasLive
    <2> QED
      BY <1>1, <1>4, <1>5, <2>1
         DEF SparesTheLive, ProxyStays, LimitsAreKnown, OrphansStayOrphans,
             ContainersInv, Accounted, CallsAreAccounted
  <1> QED
    BY <1>5, <1>6, <1>7, WithinARun

LEMMA WaitKeeps ==
    ASSUME ContainersInv, NEW w \in Worker, Wait(w)
    PROVE  ContainersInv'
  <1> USE KindNames DEF RunCalls, EgressCalls
  <1>1. UNCHANGED <<docker, late, lease, beating, reapers, over, faults>> /\ runs[w].pc = "wait"
    BY DEF Wait
  <1>2. PICK r : /\ runs' = [runs EXCEPT ![w] = r]
                 /\ \/ /\ Stopped(Own(w, "task"))
                       /\ r = [runs[w] EXCEPT !.pc = "output"]
                    \/ r = [runs[w] EXCEPT !.pc = "kill", !.timed_out = TRUE]
    BY DEF Wait, Go
  <1>3. runs[w].pc \in InRun /\ runs[w] \in RunState
    BY <1>1, AtACall DEF InRun
  <1>4. /\ r \in RunState /\ r.attempt = runs[w].attempt
        /\ r.network = runs[w].network /\ r.created = runs[w].created
        /\ r.limit = runs[w].limit /\ r.tidy = runs[w].tidy /\ r.ending = runs[w].ending
        /\ \/ /\ r.pc = "output" /\ r.timed_out = runs[w].timed_out
              /\ docker[Own(w, "task")] # "running"
           \/ r.pc = "kill" /\ r.timed_out
    BY <1>2, <1>3, ZenonT(30) DEF RunState, InRun, Stopped
  <1>5. /\ Within(w) /\ runs'[w] = r /\ reapers'[w] = NotReaping
        /\ \A k : Own(w, k)' = Own(w, k)
    <2>1. docker \in [Object -> States] /\ late \in SUBSET Object /\ faults \in Nat
      BY DEF ContainersInv, Shapes
    <2> QED
      BY <1>1, <1>2, <1>3, <1>4, <2>1, StepWithin
  <1>6. Accounted(w)'
    BY <1>1, <1>3, <1>4, <1>5
       DEF ContainersInv, Accounted, LocalsAreFresh, CallsAreAccounted, NetworkIsKnown,
           TaskFollows, SweepsAreAccounted, InRun, ReapCalls, Within
  <1>7. ASSUME ~SlowCommits PROVE SparesTheLive(w)'
    <2>1. Live(w)' => Live(w) /\ ProxyStays(w) /\ LimitsAreKnown(w)
      BY <1>5, <1>7, WasLive
    <2> QED
      BY <1>1, <1>4, <1>5, <2>1
         DEF SparesTheLive, ProxyStays, LimitsAreKnown, OrphansStayOrphans,
             ContainersInv, Accounted, CallsAreAccounted
  <1> QED
    BY <1>5, <1>6, <1>7, WithinARun

LEMMA KillKeeps ==
    ASSUME ContainersInv, NEW w \in Worker, Kill(w)
    PROVE  ContainersInv'
  <1> USE KindNames DEF RunCalls, EgressCalls
  <1>1. UNCHANGED <<late, lease, beating, reapers, over, faults>> /\ runs[w].pc = "kill"
    BY DEF Kill
  <1>2. PICK r : r = [runs[w] EXCEPT !.pc = "output"]
    OBVIOUS
  <1>3. runs[w].pc \in InRun /\ runs[w] \in RunState
    BY <1>1, AtACall DEF InRun
  <1>4. /\ r \in RunState /\ r.attempt = runs[w].attempt
        /\ r.pc = "output" /\ r.network = runs[w].network /\ r.created = runs[w].created
        /\ r.timed_out = runs[w].timed_out /\ r.limit = runs[w].limit
        /\ r.tidy = runs[w].tidy /\ r.ending = runs[w].ending
    BY <1>2, <1>3 DEF RunState, InRun
  <1>5. PICK state : state = IF docker[Own(w, "task")] = "running" THEN "exited"
                             ELSE docker[Own(w, "task")]
    OBVIOUS
  <1>6. /\ docker' \in [Object -> States]
        /\ \A o \in Object : o[2] # runs[w].attempt => docker'[o] = docker[o]
        /\ \A k \in Kinds : docker'[Own(w, k)] = IF k = "task" THEN state ELSE docker[Own(w, k)]
    <2>1. docker' = [docker EXCEPT ![Own(w, "task")] = state]
      BY <1>5 DEF Kill
    <2>2. docker \in [Object -> States] /\ Own(w, "task") \in Object
      BY <1>3, AtACall DEF ContainersInv, Shapes
    <2>3. state \in States
      BY <1>5, <2>2 DEF States
    <2>4. "task" \in Kinds
      OBVIOUS
    <2> QED
      BY <1>3, <2>1, <2>3, <2>4, OwnObject, ZenonT(30)
  <1>7. /\ Within(w) /\ runs'[w] = r /\ reapers'[w] = NotReaping
        /\ \A k : Own(w, k)' = Own(w, k)
    <2>1. runs' = [runs EXCEPT ![w] = r]
      BY <1>2 DEF Kill, Go
    <2>2. late \in SUBSET Object /\ faults \in Nat
      BY DEF ContainersInv, Shapes
    <2> QED
      BY <1>1, <1>3, <1>4, <1>6, <2>1, <2>2, StepWithin, ZenonT(30)
  <1>8. Accounted(w)'
    BY <1>1, <1>3, <1>4, <1>5, <1>6, <1>7
       DEF ContainersInv, Accounted, LocalsAreFresh, CallsAreAccounted, NetworkIsKnown,
           TaskFollows, SweepsAreAccounted, InRun, ReapCalls, Within
  <1>9. ASSUME ~SlowCommits PROVE SparesTheLive(w)'
    <2>1. Live(w)' => Live(w) /\ ProxyStays(w) /\ LimitsAreKnown(w)
      BY <1>7, <1>9, WasLive
    <2> QED
      BY <1>1, <1>4, <1>5, <1>6, <1>7, <2>1
         DEF SparesTheLive, ProxyStays, LimitsAreKnown, OrphansStayOrphans,
             ContainersInv, Accounted, CallsAreAccounted, TaskFollows
  <1> QED
    BY <1>7, <1>8, <1>9, WithinARun

\* A task stopped at one of its limits is an error only past its own deadline.
LEMMA LimitResult ==
    ASSUME NEW timedOut \in BOOLEAN, NEW exit \in Reports, timedOut \/ exit.oom_killed
    PROVE  Result(timedOut, exit) # "error"
  BY DEF Result, Reports

LEMMA ResultKind ==
    ASSUME NEW timedOut \in BOOLEAN, NEW exit \in Reports
    PROVE  Result(timedOut, exit) \in Results
  BY DEF Result, Reports, Results

LEMMA OutputKeeps ==
    ASSUME ContainersInv, NEW w \in Worker, Output(w)
    PROVE  ContainersInv'
  <1> USE KindNames DEF RunCalls, EgressCalls
  <1>1. UNCHANGED <<docker, late, lease, beating, reapers, over, faults>> /\ runs[w].pc = "output"
    BY DEF Output
  <1>2. PICK exit \in Exits :
          runs' = [runs EXCEPT ![w].pc = "sweep", ![w].ending = "returned",
             ![w].timed_out = FALSE, ![w].result = Result(runs[w].timed_out, exit),
             ![w].limit = \/ runs[w].timed_out \/ exit.oom_killed
                          \/ docker[Own(w, "task")] = "expired"]
    BY DEF Output
  <1>3. PICK r : r = [runs[w] EXCEPT !.pc = "sweep", !.ending = "returned",
             !.timed_out = FALSE, !.result = Result(runs[w].timed_out, exit),
             !.limit = \/ runs[w].timed_out \/ exit.oom_killed
                       \/ docker[Own(w, "task")] = "expired"]
    OBVIOUS
  <1>4. runs[w].pc \in InRun /\ runs[w] \in RunState /\ runs[w].timed_out \in BOOLEAN
    BY <1>1, AtACall DEF InRun, RunState
  <1>5. exit \in Reports /\ exit.oom_killed \in BOOLEAN
    BY ExitAssumption DEF Reports
  <1>6. /\ r \in RunState /\ r.attempt = runs[w].attempt
        /\ r.pc = "sweep" /\ r.network = runs[w].network /\ r.created = runs[w].created
        /\ r.tidy = runs[w].tidy /\ r.ending = "returned"
        /\ r.result = Result(runs[w].timed_out, exit)
        /\ r.limit = (\/ runs[w].timed_out \/ exit.oom_killed
                      \/ docker[Own(w, "task")] = "expired")
    BY <1>3, <1>4, <1>5, ResultKind, ZenonT(30) DEF RunState, InRun, Endings
  <1>7. /\ Within(w) /\ runs'[w] = r /\ reapers'[w] = NotReaping
        /\ \A k : Own(w, k)' = Own(w, k)
    <2>1. runs' = [runs EXCEPT ![w] = r]
      BY <1>2, <1>3
    <2>2. docker \in [Object -> States] /\ late \in SUBSET Object /\ faults \in Nat
      BY DEF ContainersInv, Shapes
    <2> QED
      BY <1>1, <1>4, <1>6, <2>1, <2>2, StepWithin
  <1>8. Accounted(w)'
    BY <1>1, <1>4, <1>6, <1>7
       DEF ContainersInv, Accounted, LocalsAreFresh, CallsAreAccounted, NetworkIsKnown,
           TaskFollows, SweepsAreAccounted, InRun, ReapCalls, Within
  <1>9. ASSUME ~SlowCommits PROVE SparesTheLive(w)'
    <2>1. Live(w)' => Live(w) /\ ProxyStays(w) /\ LimitsAreKnown(w)
      BY <1>7, <1>9, WasLive
    <2>2. LimitsAreKnown(w)'
      BY <1>1, <1>4, <1>5, <1>6, <1>7, <2>1, LimitResult DEF LimitsAreKnown
    <2> QED
      BY <1>1, <1>6, <1>7, <2>1, <2>2
         DEF SparesTheLive, ProxyStays, OrphansStayOrphans,
             ContainersInv, Accounted, CallsAreAccounted
  <1> QED
    BY <1>7, <1>8, <1>9, WithinARun

\* A run cut off at a call, by a failure or by its worker, starts to sweep.
LEMMA CutOffKeeps ==
    ASSUME ContainersInv, NEW w \in Worker, runs[w].pc \in RunCalls,
           NEW ending \in {"raised", "stopped"}, Sweeping(w, ending),
           late' = CutOff(w), faults' \in Nat,
           UNCHANGED <<docker, lease, beating, reapers, over>>
    PROVE  ContainersInv'
  <1> USE KindNames
  <1>1. PICK r : r = [runs[w] EXCEPT !.pc = "sweep", !.ending = ending]
    OBVIOUS
  <1>2. runs[w].pc \in InRun /\ runs[w] \in RunState
    BY AtACall DEF InRun
  <1>3. /\ r \in RunState /\ r.attempt = runs[w].attempt /\ r.pc = "sweep" /\ r.ending = ending
        /\ r.network = runs[w].network /\ r.created = runs[w].created
        /\ r.limit = runs[w].limit /\ r.tidy = runs[w].tidy /\ r.result = runs[w].result
    BY <1>1, <1>2 DEF RunState, InRun, Endings
  <1>4. \A o \in late' : o \in late \/ \E kind \in Creating(runs[w].pc) : o = Own(w, kind)
    BY DEF CutOff
  <1>5. Creating(runs[w].pc) \subseteq Kinds /\ ("proxy" \in Creating(runs[w].pc) => ~runs[w].network)
    BY DEF Creating, Kinds, Containers, ContainersInv, Accounted, NetworkIsKnown, EgressCalls
  <1>6. /\ docker \in [Object -> States] /\ late' \in SUBSET Object
        /\ \A o \in Object : o[2] # runs[w].attempt => (o \in late' => o \in late)
    BY <1>2, <1>4, <1>5, AtACall DEF ContainersInv, Shapes
  <1>7. /\ Within(w) /\ runs'[w] = r /\ reapers'[w] = NotReaping
        /\ \A k : Own(w, k)' = Own(w, k)
    <2>1. runs' = [runs EXCEPT ![w] = r]
      BY <1>1 DEF Sweeping
    <2> QED
      BY <1>2, <1>3, <1>6, <2>1, StepWithin
  <1>8. Accounted(w)'
    <2>1. r.network => Own(w, "proxy") \notin late'
      <3>1. Own(w, "proxy") \notin late
        BY DEF ContainersInv, Accounted, CallsAreAccounted
      <3>2. \A kind : Own(w, kind) = Own(w, "proxy") => kind = "proxy"
        BY DEF Own
      <3> QED
        BY <1>3, <1>4, <1>5, <3>1, <3>2
    <2> QED
      BY <1>2, <1>3, <1>7, <2>1
         DEF ContainersInv, Accounted, LocalsAreFresh, CallsAreAccounted, NetworkIsKnown,
             TaskFollows, SweepsAreAccounted, InRun, ReapCalls, RunCalls, EgressCalls, Within
  <1>9. ASSUME ~SlowCommits PROVE SparesTheLive(w)'
    <2>1. Live(w)' => Live(w) /\ ProxyStays(w) /\ LimitsAreKnown(w)
      BY <1>7, <1>9, WasLive
    <2> QED
      BY <1>3, <1>7, <2>1
         DEF SparesTheLive, ProxyStays, LimitsAreKnown, OrphansStayOrphans, RunCalls, EgressCalls
  <1> QED
    BY <1>7, <1>8, <1>9, WithinARun

\* One of the bounded faults.
LEMMA FaultsCount == ASSUME ContainersInv, UNCHANGED faults \/ Fault PROVE faults' \in Nat
  BY DEF ContainersInv, Shapes, Fault

LEMMA CallFailsKeeps ==
    ASSUME ContainersInv, NEW w \in Worker, CallFails(w)
    PROVE  ContainersInv'
  <1>1. faults' \in Nat
    BY FaultsCount DEF CallFails
  <1> QED
    BY <1>1, CutOffKeeps DEF CallFails

\* A step of the sweep.  What it leaves out of created, and the network once
\* it has let go of it, is gone, or the sweep is no longer tidy.
LEMMA SweptKeeps ==
    ASSUME ContainersInv, NEW w \in Worker, runs[w].pc = "sweep",
           NEW r \in RunState, runs' = [runs EXCEPT ![w] = r],
           r.attempt = runs[w].attempt, r.pc = "sweep",
           r.limit = runs[w].limit, r.result = runs[w].result,
           r.ending \in {runs[w].ending, "stopped"},
           r.network => runs[w].network, r.tidy => runs[w].tidy,
           docker' \in [Object -> States],
           \A o \in Object : o[2] # runs[w].attempt => docker'[o] = docker[o],
           \A kind \in Kinds : docker'[Own(w, kind)] \in {docker[Own(w, kind)], "absent"},
           r.network => docker'[Own(w, "network")] = docker[Own(w, "network")],
           r.network /\ r.tidy /\ "task" \in r.created =>
               docker'[Own(w, "proxy")] = docker[Own(w, "proxy")],
           r.tidy /\ (r.network \/ r.ending = "returned") =>
               \A kind \in runs[w].created \ r.created : docker'[Own(w, kind)] = "absent",
           r.tidy /\ r.ending = "returned" /\ ~r.network /\ runs[w].network =>
               docker'[Own(w, "network")] = "absent",
           faults' \in Nat, UNCHANGED <<late, lease, beating, reapers, over>>
    PROVE  ContainersInv'
  <1> USE KindNames
  <1>1. runs[w].pc \in InRun /\ runs[w] \in RunState
    BY AtACall DEF InRun
  <1>2. /\ Within(w) /\ runs'[w] = r /\ reapers'[w] = NotReaping
        /\ \A k : Own(w, k)' = Own(w, k)
    <2>1. late' \in SUBSET Object
      BY DEF ContainersInv, Shapes
    <2>2. \A o \in Object : o[2] # runs[w].attempt =>
             docker'[o] = docker[o] /\ (o \in late' => o \in late)
      OBVIOUS
    <2>3. reapers' = reapers
      OBVIOUS
    <2> QED
      BY <1>1, <2>1, <2>2, <2>3, StepWithin, ZenonT(30)
  <1>3. r.network \in BOOLEAN /\ r.tidy \in BOOLEAN /\ r.created \in SUBSET Containers
    BY DEF RunState
  <1>4. Accounted(w)'
    <2>1. LocalsAreFresh(w)'
      BY <1>1, <1>2, <1>3 DEF ContainersInv, Accounted, LocalsAreFresh, InRun, ReapCalls, RunCalls, EgressCalls, Within
    <2>2. CallsAreAccounted(w)' /\ NetworkIsKnown(w)' /\ TaskFollows(w)'
      BY <1>2, <1>3 DEF CallsAreAccounted, NetworkIsKnown, TaskFollows, RunCalls, EgressCalls
    <2>3. SweepsAreAccounted(w)'
      BY <1>1, <1>2, <1>3 DEF ContainersInv, Accounted, SweepsAreAccounted, Within
    <2> QED
      BY <2>1, <2>2, <2>3 DEF Accounted
  <1>5. ASSUME ~SlowCommits PROVE SparesTheLive(w)'
    <2>1. Live(w)' => Live(w) /\ ProxyStays(w) /\ LimitsAreKnown(w)
      BY <1>2, <1>5, WasLive
    <2> QED
      BY <1>2, <1>3, <2>1
         DEF ContainersInv, Accounted, SweepsAreAccounted, SparesTheLive, ProxyStays, LimitsAreKnown, OrphansStayOrphans, RunCalls, EgressCalls
  <1> QED
    BY <1>2, <1>4, <1>5, WithinARun

LEMMA SweepKeeps ==
    ASSUME ContainersInv, NEW w \in Worker, Sweep(w)
    PROVE  ContainersInv'
  <1> USE KindNames
  <1>1. runs[w].pc = "sweep" /\ UNCHANGED <<late, lease, beating, reapers, over>> /\ faults' \in Nat
    BY FaultsCount DEF Sweep
  <1>2. /\ runs[w].pc \in InRun /\ runs[w] \in RunState /\ docker \in [Object -> States]
        /\ \A kind \in Kinds : Own(w, kind) \in Object
    BY <1>1, AtACall DEF InRun, ContainersInv, Shapes
  <1>3. PICK swept \in Containers : swept = SweptNext(w)
    BY DEF SweptNext
  <1>4. swept = "task" \/ "task" \notin runs[w].created
    BY <1>3 DEF SweptNext
  <1>5. CASE /\ docker' = [docker EXCEPT ![Own(w, swept)] = "absent"]
             /\ runs' = [runs EXCEPT ![w].created = @ \ {swept}]
    <2>1. PICK r : r = [runs[w] EXCEPT !.created = @ \ {swept}]
      OBVIOUS
    <2>2. /\ r \in RunState /\ r.attempt = runs[w].attempt /\ r.pc = "sweep"
          /\ r.limit = runs[w].limit /\ r.result = runs[w].result /\ r.ending = runs[w].ending
          /\ r.network = runs[w].network /\ r.tidy = runs[w].tidy
          /\ r.created = runs[w].created \ {swept}
      BY <1>1, <1>2, <2>1 DEF RunState
    <2>3. runs' = [runs EXCEPT ![w] = r]
      BY <1>5, <2>1
    <2>4. /\ docker' \in [Object -> States]
          /\ \A o \in Object : o[2] # runs[w].attempt => docker'[o] = docker[o]
          /\ \A k \in Kinds : docker'[Own(w, k)] = IF k = swept THEN "absent" ELSE docker[Own(w, k)]
      BY <1>2, <1>5, OwnObject DEF States
    <2>5. /\ \A k \in Kinds : docker'[Own(w, k)] \in {docker[Own(w, k)], "absent"}
          /\ docker'[Own(w, "network")] = docker[Own(w, "network")]
          /\ \A k \in runs[w].created \ r.created : docker'[Own(w, k)] = "absent"
          /\ "task" \in r.created => docker'[Own(w, "proxy")] = docker[Own(w, "proxy")]
      BY <1>4, <2>2, <2>4
    <2> QED
      BY <1>1, <2>2, <2>3, <2>4, <2>5, SweptKeeps
  <1>6. CASE /\ UNCHANGED docker
             /\ runs' = [runs EXCEPT ![w].created = @ \ {swept}, ![w].tidy = FALSE]
    <2>1. PICK r : r = [runs[w] EXCEPT !.created = @ \ {swept}, !.tidy = FALSE]
      OBVIOUS
    <2>2. /\ r \in RunState /\ r.attempt = runs[w].attempt /\ r.pc = "sweep"
          /\ r.limit = runs[w].limit /\ r.result = runs[w].result /\ r.ending = runs[w].ending
          /\ r.network = runs[w].network /\ ~r.tidy
      BY <1>1, <1>2, <2>1 DEF RunState
    <2>3. runs' = [runs EXCEPT ![w] = r]
      BY <1>6, <2>1
    <2> QED
      BY <1>1, <1>2, <1>6, <2>2, <2>3, SweptKeeps
  <1> QED
    BY <1>3, <1>5, <1>6 DEF Sweep

LEMMA SweepNetworkKeeps ==
    ASSUME ContainersInv, NEW w \in Worker, SweepNetwork(w)
    PROVE  ContainersInv'
  <1> USE KindNames
  <1>1. /\ runs[w].pc = "sweep" /\ runs[w].created = {} /\ runs[w].network
        /\ UNCHANGED <<late, lease, beating, reapers, over>> /\ faults' \in Nat
    BY FaultsCount DEF SweepNetwork
  <1>2. /\ runs[w].pc \in InRun /\ runs[w] \in RunState /\ docker \in [Object -> States]
        /\ \A kind \in Kinds : Own(w, kind) \in Object
    BY <1>1, AtACall DEF InRun, ContainersInv, Shapes
  <1>3. CASE /\ docker' = [docker EXCEPT ![Own(w, "network")] = "absent"]
             /\ runs' = [runs EXCEPT ![w].network = FALSE]
    <2>1. PICK r : r = [runs[w] EXCEPT !.network = FALSE]
      OBVIOUS
    <2>2. /\ r \in RunState /\ r.attempt = runs[w].attempt /\ r.pc = "sweep"
          /\ r.limit = runs[w].limit /\ r.result = runs[w].result /\ r.ending = runs[w].ending
          /\ ~r.network /\ r.tidy = runs[w].tidy /\ r.created = runs[w].created
      BY <1>1, <1>2, <2>1 DEF RunState
    <2>3. runs' = [runs EXCEPT ![w] = r]
      BY <1>3, <2>1
    <2>4. /\ docker' \in [Object -> States]
          /\ \A o \in Object : o[2] # runs[w].attempt => docker'[o] = docker[o]
          /\ \A k \in Kinds : docker'[Own(w, k)] =
                                 IF k = "network" THEN "absent" ELSE docker[Own(w, k)]
      BY <1>2, <1>3, OwnObject DEF States
    <2> QED
      BY <1>1, <2>2, <2>3, <2>4, SweptKeeps
  <1>4. CASE /\ UNCHANGED docker
             /\ runs' = [runs EXCEPT ![w].network = FALSE, ![w].tidy = FALSE]
    <2>1. PICK r : r = [runs[w] EXCEPT !.network = FALSE, !.tidy = FALSE]
      OBVIOUS
    <2>2. /\ r \in RunState /\ r.attempt = runs[w].attempt /\ r.pc = "sweep"
          /\ r.limit = runs[w].limit /\ r.result = runs[w].result /\ r.ending = runs[w].ending
          /\ ~r.network /\ ~r.tidy
      BY <1>1, <1>2, <2>1 DEF RunState
    <2>3. runs' = [runs EXCEPT ![w] = r]
      BY <1>4, <2>1
    <2> QED
      BY <1>1, <1>2, <1>4, <2>2, <2>3, SweptKeeps
  <1> QED
    BY <1>3, <1>4 DEF SweepNetwork

LEMMA StopKeeps ==
    ASSUME ContainersInv, NEW w \in Worker, Stop(w)
    PROVE  ContainersInv'
  <1> USE KindNames
  <1>1. UNCHANGED <<lease, beating, reapers, over, faults>> /\ faults' \in Nat
    BY FaultsCount DEF Stop
  <1>2. CASE /\ runs[w].pc \in RunCalls /\ late' = CutOff(w)
             /\ Sweeping(w, "stopped") /\ UNCHANGED docker
    BY <1>1, <1>2, CutOffKeeps
  <1>3. CASE /\ runs[w].pc = "sweep" /\ UNCHANGED late
             /\ \E gone \in {{}, Removing(w)} :
                  docker' = [o \in Object |-> IF o \in gone THEN "absent" ELSE docker[o]]
             /\ runs' = [runs EXCEPT ![w].created = {}, ![w].network = FALSE,
                                     ![w].ending = "stopped"]
    <2>0. runs[w].pc = "sweep" /\ UNCHANGED late
      BY <1>3
    <2>1. /\ runs[w].pc \in InRun /\ runs[w] \in RunState /\ docker \in [Object -> States]
          /\ \A kind \in Kinds : Own(w, kind) \in Object /\ Own(w, kind)[2] = runs[w].attempt
      BY <1>3, AtACall DEF InRun, ContainersInv, Shapes
    <2>2. PICK r : r = [runs[w] EXCEPT !.created = {}, !.network = FALSE, !.ending = "stopped"]
      OBVIOUS
    <2>3. /\ r \in RunState /\ r.attempt = runs[w].attempt /\ r.pc = "sweep"
          /\ r.limit = runs[w].limit /\ r.result = runs[w].result /\ r.ending = "stopped"
          /\ ~r.network /\ r.tidy = runs[w].tidy
      BY <1>3, <2>1, <2>2 DEF RunState, Endings
    <2>4. runs' = [runs EXCEPT ![w] = r]
      BY <1>3, <2>2
    <2>5. PICK gone \in {{}, Removing(w)} :
            docker' = [o \in Object |-> IF o \in gone THEN "absent" ELSE docker[o]]
      BY <1>3
    <2>6. \A o \in gone : o[2] = runs[w].attempt
      BY <2>1 DEF Removing, SweptNext
    <2>7. /\ docker' \in [Object -> States]
          /\ \A o \in Object : o[2] # runs[w].attempt => docker'[o] = docker[o]
          /\ \A k \in Kinds : docker'[Own(w, k)] \in {docker[Own(w, k)], "absent"}
      BY <2>1, <2>5, <2>6 DEF States
    <2> QED
      BY <1>1, <2>0, <2>3, <2>4, <2>7, SweptKeeps
  <1> QED
    BY <1>2, <1>3 DEF Stop

-----------------------------------------------------------------------------
(* Runs that begin and end.                                                *)

LEMMA BeginRunKeeps ==
    ASSUME ContainersInv, NEW w \in Worker, NEW a \in Attempt, BeginRun(w, a)
    PROVE  ContainersInv'
  <1> USE KindNames
  <1>1. /\ runs[w].pc = "idle" /\ lease[a] = "unclaimed"
        /\ lease' = [lease EXCEPT ![a] = "live"]
        /\ UNCHANGED <<docker, late, beating, reapers, over, faults>>
    BY DEF BeginRun
  <1>2. PICK pc \in {"create_network", "create_task"} :
          runs' = [runs EXCEPT ![w] = [Idle EXCEPT !.pc = pc, !.attempt = a]]
    BY DEF BeginRun
  <1>3. PICK r : r = [Idle EXCEPT !.pc = pc, !.attempt = a]
    OBVIOUS
  <1>4. /\ r \in RunState /\ r.pc = pc /\ r.attempt = a /\ r.created = {} /\ ~r.network
        /\ ~r.timed_out /\ ~r.limit /\ r.tidy /\ r.ending = "none"
    BY <1>3 DEF Idle, RunState, InRun, RunCalls, EgressCalls, Results, Endings
  <1>5. /\ runs' \in [Worker -> RunState] /\ runs'[w] = r
        /\ \A v \in Worker \ {w} : runs'[v] = runs[v]
    BY <1>2, <1>3, <1>4 DEF ContainersInv, Shapes
  <1>6. /\ lease' \in [Attempt -> Leases] /\ lease'[a] = "live"
        /\ \A b \in Attempt \ {a} : lease'[b] = lease[b]
    BY <1>1 DEF ContainersInv, Shapes, Leases
  <1>7. Shapes'
    BY <1>1, <1>5, <1>6 DEF ContainersInv, Shapes
  <1>8. \A v \in Worker : runs[v].attempt # a
    BY <1>1 DEF ContainersInv, ClaimsHold, RunsAreClaimed
  <1>9. \A kind \in Kinds : docker[<<kind, a>>] = "absent" /\ <<kind, a>> \notin late
    BY <1>1, Objects DEF ContainersInv, ClaimsHold, ObjectsAreClaimed
  <1>10. ClaimsHold'
    <2>1. \A b \in Attempt : lease[b] # "unclaimed" => lease'[b] # "unclaimed"
      BY <1>1, <1>6
    <2>2. ObjectsAreClaimed'
      BY <1>1, <2>1, Objects DEF ContainersInv, ClaimsHold, ObjectsAreClaimed
    <2>3. EndsAreClaimed'
      BY <1>1, <2>1 DEF ContainersInv, ClaimsHold, EndsAreClaimed
    <2>4. RunsAreClaimed'
      BY <1>1, <1>4, <1>5, <1>6, <2>1
         DEF ContainersInv, ClaimsHold, RunsAreClaimed, EndsAreClaimed
    <2>5. OneRunEach'
      BY <1>4, <1>5, <1>8 DEF ContainersInv, ClaimsHold, OneRunEach
    <2>6. ListsAreClaimed'
      <3>1. \A v \in Worker : \A o \in reapers[v].containers \union reapers[v].networks :
               o[2] \in Attempt
        BY Objects DEF ContainersInv, Shapes, ReapState
      <3> QED
        BY <1>1, <2>1, <3>1 DEF ContainersInv, ClaimsHold, ListsAreClaimed
    <2> QED
      BY <2>2, <2>3, <2>4, <2>5, <2>6 DEF ClaimsHold
  <1>11. \A v \in Worker \ {w} : Passed(v) /\ PassedLive(v)
    BY <1>1, <1>5, <1>6 DEF Passed, PassedLive
  <1>12. \A kind : Own(w, kind)' = <<kind, a>>
    BY <1>4, <1>5 DEF Own, AttemptOf
  <1>13. Accounted(w)'
    BY <1>1, <1>4, <1>5, <1>9, <1>12
       DEF ContainersInv, Accounted, LocalsAreFresh, CallsAreAccounted, NetworkIsKnown,
           TaskFollows, SweepsAreAccounted, InRun, ReapCalls, RunCalls, EgressCalls
  <1>14. SparesTheLive(w)'
    BY <1>1, <1>4, <1>5, <1>9, <1>12
       DEF SparesTheLive, ProxyStays, LimitsAreKnown, OrphansStayOrphans
  <1>15. \A v \in Worker : Accounted(v)'
    BY <1>11, <1>13, PassedIsAccounted DEF ContainersInv
  <1>16. ~SlowCommits => \A v \in Worker : SparesTheLive(v)'
    BY <1>11, <1>14, PassedIsSpared DEF ContainersInv
  <1> QED
    BY <1>1, <1>7, <1>10, <1>15, <1>16 DEF ContainersInv, ReturnsAreClean

\* A worker that lets go of its run: the run's attempt is over, or was cut
\* off, and nothing of any other attempt changes.
LEMMA ResetKeeps ==
    ASSUME ContainersInv, NEW w \in Worker, NEW pc \in {"idle", "down"},
           runs' = [runs EXCEPT ![w] = [Idle EXCEPT !.pc = pc]],
           reapers' = [reapers EXCEPT ![w] = NotReaping],
           late' \in SUBSET Object,
           \A o \in late' : o \in late \/ o[2] = runs[w].attempt,
           lease' \in [Attempt -> Leases],
           \A a \in Attempt : lease'[a] = lease[a] \/ (lease[a] = "live" /\ lease'[a] = "ended"),
           over' \in [Attempt -> Endings \union {"no", "untidy"}],
           \A a \in Attempt : over'[a] = over[a] \/ a = runs[w].attempt,
           ReturnsAreClean', faults' \in Nat, UNCHANGED <<docker, beating>>
    PROVE  ContainersInv'
  <1>1. PICK r : r = [Idle EXCEPT !.pc = pc]
    OBVIOUS
  <1>2. /\ r \in RunState /\ r.pc = pc /\ r.attempt = NoAttempt /\ r.created = {} /\ ~r.network
        /\ ~r.timed_out /\ ~r.limit /\ r.tidy /\ r.ending = "none"
    BY <1>1 DEF Idle, RunState, InRun, RunCalls, EgressCalls, Results, Endings
  <1>3. /\ runs' \in [Worker -> RunState] /\ runs'[w] = r
        /\ \A v \in Worker \ {w} : runs'[v] = runs[v]
    BY <1>1, <1>2 DEF ContainersInv, Shapes
  <1>4. /\ reapers' \in [Worker -> ReapState] /\ reapers'[w] = NotReaping
        /\ \A v \in Worker \ {w} : reapers'[v] = reapers[v]
    BY DEF ContainersInv, Shapes, ReapState, NotReaping
  <1>5. Shapes'
    BY <1>3, <1>4 DEF ContainersInv, Shapes
  <1>6. \A v \in Worker \ {w} : runs[v].attempt \in Attempt => runs[v].attempt # runs[w].attempt
    BY DEF ContainersInv, ClaimsHold, OneRunEach
  <1>7. \A v \in Worker \ {w} : Passed(v) /\ PassedLive(v)
    <2>1. Only(w)
      BY <1>3, <1>4 DEF Only
    <2> QED
      BY <2>1, OthersArePassed DEF PassedLive
  <1>8. ClaimsHold'
    <2>1. \A a \in Attempt : lease[a] # "unclaimed" => lease'[a] # "unclaimed"
      OBVIOUS
    <2>2. runs[w].attempt \in Attempt => lease[runs[w].attempt] # "unclaimed"
      BY DEF ContainersInv, ClaimsHold, RunsAreClaimed
    <2>3. ObjectsAreClaimed'
      BY <2>1, <2>2, Objects DEF ContainersInv, ClaimsHold, ObjectsAreClaimed
    <2>4. EndsAreClaimed'
      BY <2>1, <2>2 DEF ContainersInv, ClaimsHold, EndsAreClaimed
    <2>0. \A v \in Worker : runs'[v].attempt \in Attempt =>
             v # w /\ runs'[v].attempt = runs[v].attempt /\ runs[v].attempt # runs[w].attempt
      BY <1>2, <1>3, <1>6, AttemptAssumption
    <2>5. RunsAreClaimed'
      BY <2>0, <2>1 DEF ContainersInv, ClaimsHold, RunsAreClaimed
    <2>6. OneRunEach'
      BY <2>0 DEF ContainersInv, ClaimsHold, OneRunEach
    <2>7. ListsAreClaimed'
      <3>1. \A v \in Worker : \A o \in reapers[v].containers \union reapers[v].networks :
               o[2] \in Attempt
        BY Objects DEF ContainersInv, Shapes, ReapState
      <3> QED
        BY <1>4, <2>1, <3>1 DEF ContainersInv, ClaimsHold, ListsAreClaimed, NotReaping
    <2> QED
      BY <2>3, <2>4, <2>5, <2>6, <2>7 DEF ClaimsHold
  <1>9. Accounted(w)'
    BY <1>2, <1>3, <1>4, AttemptAssumption
       DEF Accounted, LocalsAreFresh, CallsAreAccounted, NetworkIsKnown, TaskFollows,
           SweepsAreAccounted, InRun, RunCalls, EgressCalls
  <1>10. SparesTheLive(w)'
    BY <1>2, <1>3, AttemptAssumption
       DEF SparesTheLive, ProxyStays, LimitsAreKnown, OrphansStayOrphans, Live
  <1>11. \A v \in Worker : Accounted(v)'
    BY <1>7, <1>9, PassedIsAccounted DEF ContainersInv
  <1>12. ~SlowCommits => \A v \in Worker : SparesTheLive(v)'
    BY <1>7, <1>10, PassedIsSpared DEF ContainersInv
  <1> QED
    BY <1>5, <1>8, <1>11, <1>12 DEF ContainersInv

\* A worker at no reap has no lists to keep.
LEMMA NoLists ==
    ASSUME ContainersInv, NEW w \in Worker, runs[w].pc \notin ReapCalls, UNCHANGED reapers
    PROVE  reapers' = [reapers EXCEPT ![w] = NotReaping]
  <1>1. reapers \in [Worker -> ReapState] /\ reapers[w] = NotReaping
    BY DEF ContainersInv, Shapes, Accounted, LocalsAreFresh
  <1> QED
    BY <1>1

LEMMA EndRunKeeps ==
    ASSUME ContainersInv, NEW w \in Worker, EndRun(w)
    PROVE  ContainersInv'
  <1> USE KindNames
  <1>1. /\ runs[w].pc = "sweep" /\ runs[w].created = {} /\ ~runs[w].network
        /\ UNCHANGED <<docker, late, beating, reapers, faults>>
    BY DEF EndRun
  <1>2. PICK a : a = AttemptOf(w)
    OBVIOUS
  <1>3. /\ runs[w] \in RunState /\ a \in Attempt /\ runs[w].attempt = a
        /\ \A kind \in Kinds : Own(w, kind) = <<kind, a>>
    BY <1>1, <1>2, AtACall DEF InRun, AttemptOf, Own
  <1>4. PICK end : end = IF runs[w].tidy THEN runs[w].ending ELSE "untidy"
    OBVIOUS
  <1>5. end \in Endings \union {"no", "untidy"}
    BY <1>3, <1>4 DEF RunState
  <1>6. over' = [over EXCEPT ![a] = end]
    BY <1>2, <1>4 DEF EndRun
  <1>7. /\ over' \in [Attempt -> Endings \union {"no", "untidy"}] /\ over'[a] = end
        /\ \A b \in Attempt \ {a} : over'[b] = over[b]
    BY <1>3, <1>5, <1>6 DEF ContainersInv, Shapes
  <1>8. PICK pc \in {"idle", "down"} :
          /\ runs' = [runs EXCEPT ![w] = [Idle EXCEPT !.pc = pc]]
          /\ UNCHANGED lease \/ lease' = [lease EXCEPT ![a] = IF @ = "live" THEN "ended" ELSE @]
    <2>1. Idle = [Idle EXCEPT !.pc = "idle"]
      <3>1. Idle \in RunState /\ Idle.pc = "idle"
        BY DEF Idle, RunState, InRun, RunCalls, EgressCalls, Results, Endings
      <3>2. \A r \in RunState : r.pc = "idle" => r = [r EXCEPT !.pc = "idle"]
        BY DEF RunState
      <3> QED
        BY <3>1, <3>2
    <2>2. \/ /\ runs' = [runs EXCEPT ![w] = [Idle EXCEPT !.pc = "down"]]
             /\ UNCHANGED lease
          \/ /\ runs' = [runs EXCEPT ![w] = Idle]
             /\ lease' = [lease EXCEPT ![a] = IF @ = "live" THEN "ended" ELSE @]
      BY <1>2 DEF EndRun
    <2> QED
      BY <2>1, <2>2
  <1>9. /\ lease' \in [Attempt -> Leases]
        /\ \A b \in Attempt : lease'[b] = lease[b] \/ (lease[b] = "live" /\ lease'[b] = "ended")
    BY <1>3, <1>8 DEF ContainersInv, Shapes, Leases
  <1>10. ReturnsAreClean'
    <2>1. ASSUME end = "returned", NEW kind \in Kinds
          PROVE  docker[<<kind, a>>] = "absent" /\ <<kind, a>> \notin late
      <3>1. runs[w].tidy /\ runs[w].ending = "returned"
        BY <1>4, <2>1
      <3>2. kind \in Containers \/ kind = "network"
        BY DEF Kinds
      <3> QED
        BY <1>1, <1>3, <3>1, <3>2 DEF ContainersInv, Accounted, SweepsAreAccounted
    <2> QED
      BY <1>1, <1>7, <2>1, Objects DEF ContainersInv, ReturnsAreClean
  <1>11. reapers' = [reapers EXCEPT ![w] = NotReaping]
    BY <1>1, NoLists DEF ReapCalls
  <1>12. late' \in SUBSET Object /\ faults' \in Nat
    BY <1>1 DEF ContainersInv, Shapes
  <1>13. /\ \A o \in late' : o \in late \/ o[2] = runs[w].attempt
         /\ \A b \in Attempt : over'[b] = over[b] \/ b = runs[w].attempt
    BY <1>1, <1>3, <1>7
  <1>14. UNCHANGED <<docker, beating>>
    BY <1>1
  <1> QED
    BY <1>7, <1>8, <1>9, <1>10, <1>11, <1>12, <1>13, <1>14, ResetKeeps

LEMMA CrashKeeps ==
    ASSUME ContainersInv, NEW w \in Worker, Crash(w)
    PROVE  ContainersInv'
  <1>1. /\ late' = CutOff(w) /\ UNCHANGED <<docker, lease, beating, over>> /\ faults' \in Nat
        /\ runs' = [runs EXCEPT ![w] = [Idle EXCEPT !.pc = "down"]]
        /\ reapers' = [reapers EXCEPT ![w] = NotReaping]
    BY FaultsCount DEF Crash
  <1>2. \A o \in late' : o \in late \/ \E kind \in Creating(runs[w].pc) : o = Own(w, kind)
    BY <1>1 DEF CutOff
  <1>3. Creating(runs[w].pc) # {} => runs[w].pc \in InRun
    BY DEF Creating, InRun, RunCalls, EgressCalls
  <1>4. Creating(runs[w].pc) \subseteq Kinds
    BY DEF Creating, Kinds, Containers
  <1>5. \A o \in late' : o \in late \/ (o[2] = runs[w].attempt /\ o[2] \in Attempt /\ o \in Object)
    BY <1>2, <1>3, <1>4, AtACall
  <1>6. late' \in SUBSET Object
    BY <1>5 DEF ContainersInv, Shapes
  <1>7. /\ lease' \in [Attempt -> Leases] /\ over' \in [Attempt -> Endings \union {"no", "untidy"}]
        /\ lease' = lease /\ over' = over
    BY <1>1 DEF ContainersInv, Shapes
  <1>8. ReturnsAreClean'
    BY <1>1, <1>5 DEF ContainersInv, ReturnsAreClean, ClaimsHold, RunsAreClaimed
  <1> QED
    BY <1>1, <1>5, <1>6, <1>7, <1>8, ResetKeeps

-----------------------------------------------------------------------------
(* Reapers.                                                                *)

\* A step between runs: reap_orphans goes on, or a worker restarts.  It only
\* removes, and nothing that has a live lease.
LEMMA BetweenRuns ==
    ASSUME ContainersInv, NEW w \in Worker, runs[w].pc \notin InRun,
           NEW pc \in ReapCalls \union {"idle", "down"}, NEW r \in RunState,
           runs' = [runs EXCEPT ![w] = r], r.pc = pc, r.attempt = runs[w].attempt,
           r.created = runs[w].created, r.network = runs[w].network, r.limit = runs[w].limit,
           NEW q \in ReapState, reapers' = [reapers EXCEPT ![w] = q],
           pc \notin ReapCalls => q = NotReaping,
           \A o \in q.containers \union q.networks : lease[o[2]] # "unclaimed",
           ~SlowCommits /\ pc = "remove" =>
               \A o \in q.containers \union q.networks :
                   o[2] \notin q.alive => lease[o[2]] # "live",
           docker' \in [Object -> States],
           \A o \in Object : docker'[o] \in {docker[o], "absent"},
           ~SlowCommits => \A o \in Object : lease[o[2]] = "live" => docker'[o] = docker[o],
           UNCHANGED <<late, lease, beating, over, faults>>
    PROVE  ContainersInv'
  <1> USE KindNames
  <1>1. /\ runs' \in [Worker -> RunState] /\ runs'[w] = r
        /\ \A v \in Worker \ {w} : runs'[v] = runs[v]
    BY DEF ContainersInv, Shapes
  <1>2. /\ reapers' \in [Worker -> ReapState] /\ reapers'[w] = q
        /\ \A v \in Worker \ {w} : reapers'[v] = reapers[v]
    BY DEF ContainersInv, Shapes
  <1>3. Shapes'
    BY <1>1, <1>2 DEF ContainersInv, Shapes
  <1>4. runs[w].attempt \notin Attempt /\ runs[w].created = {} /\ ~runs[w].network /\ ~runs[w].limit
    BY DEF ContainersInv, Accounted, LocalsAreFresh
  <1>5. \A v \in Worker \ {w} : Passed(v)
    BY <1>1, <1>2, Objects DEF Passed, Own, AttemptOf
  <1>6. ~SlowCommits => \A v \in Worker \ {w} : PassedLive(v)
    BY Objects DEF PassedLive, Own, AttemptOf
  <1>7. \A v \in Worker : runs'[v].attempt = runs[v].attempt
    BY <1>1
  <1>8. ClaimsHold'
    <2>1. ObjectsAreClaimed'
      BY DEF ContainersInv, ClaimsHold, ObjectsAreClaimed
    <2>2. EndsAreClaimed' /\ RunsAreClaimed' /\ OneRunEach'
      BY <1>7 DEF ContainersInv, ClaimsHold, EndsAreClaimed, RunsAreClaimed, OneRunEach
    <2>3. ListsAreClaimed'
      BY <1>2 DEF ContainersInv, ClaimsHold, ListsAreClaimed
    <2> QED
      BY <2>1, <2>2, <2>3 DEF ClaimsHold
  <1>9. pc \notin InRun
    BY DEF InRun, RunCalls, EgressCalls, ReapCalls
  <1>10. Accounted(w)'
    BY <1>1, <1>2, <1>4, <1>9
       DEF Accounted, LocalsAreFresh, CallsAreAccounted, NetworkIsKnown, TaskFollows,
           SweepsAreAccounted, InRun, RunCalls, EgressCalls
  <1>11. ~SlowCommits => SparesTheLive(w)'
    BY <1>1, <1>2, <1>4
       DEF SparesTheLive, ProxyStays, LimitsAreKnown, OrphansStayOrphans, Orphans, Live
  <1>12. \A v \in Worker : Accounted(v)'
    BY <1>5, <1>10, PassedIsAccounted DEF ContainersInv
  <1>13. ~SlowCommits => \A v \in Worker : SparesTheLive(v)'
    BY <1>5, <1>6, <1>11, PassedIsSpared DEF ContainersInv
  <1>14. ReturnsAreClean'
    BY DEF ContainersInv, ReturnsAreClean
  <1> QED
    BY <1>3, <1>8, <1>12, <1>13, <1>14 DEF ContainersInv

\* Moving on does not touch a worker's other locals.
LEMMA Moved ==
    ASSUME NEW s \in RunState, NEW pc \in ReapCalls \union {"idle", "down"}
    PROVE  LET r == [s EXCEPT !.pc = pc]
           IN  /\ r \in RunState /\ r.pc = pc /\ r.attempt = s.attempt /\ r.created = s.created
               /\ r.network = s.network /\ r.limit = s.limit
  BY DEF RunState

\* What a worker between runs has.
LEMMA AtAReap ==
    ASSUME ContainersInv, NEW w \in Worker,
           runs[w].pc \in ReapCalls \union {"idle", "down"}
    PROVE  /\ runs[w].pc \notin InRun /\ runs[w] \in RunState /\ reapers[w] \in ReapState
           /\ runs = [runs EXCEPT ![w] = runs[w]]
           /\ reapers = [reapers EXCEPT ![w] = reapers[w]]
           /\ docker \in [Object -> States]
           /\ runs[w].pc \notin ReapCalls => reapers[w] = NotReaping
           /\ \A o \in reapers[w].containers \union reapers[w].networks :
                /\ o \in Object /\ o[2] \in Attempt /\ lease[o[2]] # "unclaimed"
                /\ ~SlowCommits /\ runs[w].pc = "remove" /\ o[2] \notin reapers[w].alive =>
                     lease[o[2]] # "live"
  <1>1. /\ runs \in [Worker -> RunState] /\ reapers \in [Worker -> ReapState]
        /\ docker \in [Object -> States]
    BY DEF ContainersInv, Shapes
  <1>2. runs[w].pc \notin InRun
    BY DEF InRun, RunCalls, EgressCalls, ReapCalls
  <1>3. runs[w].pc \notin ReapCalls => reapers[w] = NotReaping
    BY DEF ContainersInv, Accounted, LocalsAreFresh
  <1>4. \A o \in reapers[w].containers \union reapers[w].networks :
           /\ o \in Object /\ o[2] \in Attempt /\ lease[o[2]] # "unclaimed"
           /\ ~SlowCommits /\ runs[w].pc = "remove" /\ o[2] \notin reapers[w].alive =>
                lease[o[2]] # "live"
    BY <1>1, Objects
       DEF ReapState, ContainersInv, ClaimsHold, ListsAreClaimed, SparesTheLive,
           OrphansStayOrphans, Orphans
  <1> QED
    BY <1>1, <1>2, <1>3, <1>4

\* A worker that goes from one call of reap_orphans to the next, with new lists.
LEMMA ReapMoves ==
    ASSUME ContainersInv, NEW w \in Worker,
           runs[w].pc \in ReapCalls \union {"idle", "down"},
           NEW pc \in ReapCalls \union {"idle", "down"}, Go(w, pc),
           NEW q \in ReapState, reapers' = [reapers EXCEPT ![w] = q],
           pc \notin ReapCalls => q = NotReaping,
           \A o \in q.containers \union q.networks : lease[o[2]] # "unclaimed",
           ~SlowCommits /\ pc = "remove" =>
               \A o \in q.containers \union q.networks :
                   o[2] \notin q.alive => lease[o[2]] # "live",
           UNCHANGED <<docker, late, lease, beating, over, faults>>
    PROVE  ContainersInv'
  <1>1. PICK r : r = [runs[w] EXCEPT !.pc = pc]
    OBVIOUS
  <1>2. runs[w] \in RunState /\ runs[w].pc \notin InRun /\ docker \in [Object -> States]
    BY AtAReap
  <1>3. /\ r \in RunState /\ r.pc = pc /\ r.attempt = runs[w].attempt
        /\ r.created = runs[w].created /\ r.network = runs[w].network /\ r.limit = runs[w].limit
    BY <1>1, <1>2, Moved
  <1>4. runs' = [runs EXCEPT ![w] = r]
    BY <1>1 DEF Go
  <1> QED
    BY <1>2, <1>3, <1>4, BetweenRuns

LEMMA BeginReapKeeps ==
    ASSUME ContainersInv, NEW w \in Worker, BeginReap(w) \/ Restart(w)
    PROVE  ContainersInv'
  <1>1. PICK pc \in {"list_containers", "idle"} : Go(w, pc)
    BY DEF BeginReap, Restart
  <1>2. /\ runs[w].pc \in {"idle", "down"}
        /\ UNCHANGED <<docker, late, lease, beating, reapers, over, faults>>
    BY DEF BeginReap, Restart
  <1>3. reapers' = [reapers EXCEPT ![w] = NotReaping]
    BY <1>2, NoLists DEF ReapCalls
  <1>4. NotReaping \in ReapState /\ NotReaping.containers \union NotReaping.networks = {}
    BY DEF NotReaping, ReapState
  <1>5. pc \in ReapCalls \union {"idle", "down"}
    BY DEF ReapCalls
  <1> QED
    BY <1>1, <1>2, <1>3, <1>4, <1>5, ReapMoves

\* What is listed is some claimed attempt's.
LEMMA ListedIsClaimed ==
    ASSUME ContainersInv, NEW kinds
    PROVE  /\ Listed(kinds) \in SUBSET Object
           /\ \A o \in Listed(kinds) : lease[o[2]] # "unclaimed"
  BY DEF Listed, ContainersInv, ClaimsHold, ObjectsAreClaimed

LEMMA ListContainersKeeps ==
    ASSUME ContainersInv, NEW w \in Worker, ListContainers(w)
    PROVE  ContainersInv'
  <1>1. /\ runs[w].pc \in ReapCalls /\ Go(w, "list_networks")
        /\ UNCHANGED <<docker, late, lease, beating, over, faults>>
        /\ reapers' = [reapers EXCEPT ![w].containers = Listed(Containers)]
    BY DEF ListContainers, ReapCalls
  <1>2. PICK q : q = [reapers[w] EXCEPT !.containers = Listed(Containers)]
    OBVIOUS
  <1>3. /\ q \in ReapState /\ q.containers = Listed(Containers) /\ q.networks = reapers[w].networks
    BY <1>1, <1>2, AtAReap, ListedIsClaimed DEF ReapState
  <1>4. reapers' = [reapers EXCEPT ![w] = q]
    BY <1>1, <1>2
  <1>5. \A o \in q.containers \union q.networks : lease[o[2]] # "unclaimed"
    BY <1>1, <1>3, AtAReap, ListedIsClaimed
  <1> QED
    BY <1>1, <1>3, <1>4, <1>5, ReapMoves DEF ReapCalls

LEMMA ListNetworksKeeps ==
    ASSUME ContainersInv, NEW w \in Worker, ListNetworks(w)
    PROVE  ContainersInv'
  <1>1. /\ runs[w].pc \in ReapCalls /\ Go(w, "live_attempts")
        /\ UNCHANGED <<docker, late, lease, beating, over, faults>>
        /\ reapers' = [reapers EXCEPT ![w].networks = Listed({"network"})]
    BY DEF ListNetworks, ReapCalls
  <1>2. PICK q : q = [reapers[w] EXCEPT !.networks = Listed({"network"})]
    OBVIOUS
  <1>3. /\ q \in ReapState /\ q.networks = Listed({"network"})
        /\ q.containers = reapers[w].containers
    BY <1>1, <1>2, AtAReap, ListedIsClaimed DEF ReapState
  <1>4. reapers' = [reapers EXCEPT ![w] = q]
    BY <1>1, <1>2
  <1>5. \A o \in q.containers \union q.networks : lease[o[2]] # "unclaimed"
    BY <1>1, <1>3, AtAReap, ListedIsClaimed
  <1> QED
    BY <1>1, <1>3, <1>4, <1>5, ReapMoves DEF ReapCalls

\* Read after the lists: what was listed and is not alive now has no lease to
\* come back to.
LEMMA ReadLiveKeeps ==
    ASSUME ContainersInv, NEW w \in Worker, ReadLive(w)
    PROVE  ContainersInv'
  <1>1. /\ runs[w].pc \in ReapCalls /\ Go(w, "remove")
        /\ UNCHANGED <<docker, late, lease, beating, over, faults>>
        /\ reapers' = [reapers EXCEPT ![w].alive = LiveAttempts]
    BY DEF ReadLive, ReapCalls
  <1>2. PICK q : q = [reapers[w] EXCEPT !.alive = LiveAttempts]
    OBVIOUS
  <1>3. /\ q \in ReapState /\ q.networks = reapers[w].networks
        /\ q.containers = reapers[w].containers /\ q.alive = LiveAttempts
    BY <1>1, <1>2, AtAReap DEF ReapState, LiveAttempts
  <1>4. reapers' = [reapers EXCEPT ![w] = q]
    BY <1>1, <1>2
  <1>5. \A o \in q.containers \union q.networks :
           /\ lease[o[2]] # "unclaimed"
           /\ o[2] \notin q.alive => lease[o[2]] # "live"
    BY <1>1, <1>3, AtAReap DEF LiveAttempts
  <1>6. PICK pc \in ReapCalls : pc = "remove"
    BY DEF ReapCalls
  <1>7. /\ \A o \in q.containers \union q.networks : lease[o[2]] # "unclaimed"
        /\ \A o \in q.containers \union q.networks : o[2] \notin q.alive => lease[o[2]] # "live"
    BY <1>5
  <1>8. Go(w, pc)
    BY <1>1, <1>6
  <1> QED
    BY <1>1, <1>3, <1>4, <1>6, <1>7, <1>8, ReapMoves

LEMMA EndReapKeeps ==
    ASSUME ContainersInv, NEW w \in Worker, EndReap(w)
    PROVE  ContainersInv'
  <1>1. /\ runs[w].pc \in ReapCalls /\ Go(w, "idle")
        /\ UNCHANGED <<docker, late, lease, beating, over, faults>>
        /\ reapers' = [reapers EXCEPT ![w] = NotReaping]
    BY DEF EndReap, ReapCalls
  <1>2. NotReaping \in ReapState /\ NotReaping.containers \union NotReaping.networks = {}
    BY DEF NotReaping, ReapState
  <1> QED
    BY <1>1, <1>2, ReapMoves DEF ReapCalls

\* A reaper removes an orphan, or passes it over.
LEMMA RemoveKeeps ==
    ASSUME ContainersInv, NEW w \in Worker, runs[w].pc = "remove",
           NEW o \in Orphans(w, reapers[w].containers \union reapers[w].networks),
           NEW state \in {docker[o], "absent"}, docker' = [docker EXCEPT ![o] = state],
           NEW q \in ReapState, reapers' = [reapers EXCEPT ![w] = q],
           q.containers \subseteq reapers[w].containers,
           q.networks \subseteq reapers[w].networks, q.alive = reapers[w].alive,
           UNCHANGED <<late, lease, beating, runs, over, faults>>
    PROVE  ContainersInv'
  <1>1. runs[w].pc \in ReapCalls
    BY DEF ReapCalls
  <1>2. /\ runs[w] \in RunState /\ runs[w].pc \notin InRun
        /\ docker \in [Object -> States]
        /\ runs' = [runs EXCEPT ![w] = runs[w]]
    BY <1>1, AtAReap
  <1>3. o \in Object /\ (~SlowCommits => lease[o[2]] # "live")
    BY <1>1, AtAReap DEF Orphans
  <1>4. /\ docker' \in [Object -> States]
        /\ \A p \in Object : docker'[p] \in {docker[p], "absent"}
        /\ ~SlowCommits => \A p \in Object : lease[p[2]] = "live" => docker'[p] = docker[p]
    BY <1>2, <1>3 DEF States
  <1>5. \A p \in q.containers \union q.networks :
           /\ lease[p[2]] # "unclaimed"
           /\ ~SlowCommits /\ p[2] \notin q.alive => lease[p[2]] # "live"
    BY <1>1, AtAReap
  <1>6. PICK r : r = runs[w]
    OBVIOUS
  <1>7. UNCHANGED <<late, lease, beating, over, faults>>
    OBVIOUS
  <1> QED
    BY <1>1, <1>2, <1>4, <1>5, <1>6, <1>7, BetweenRuns

LEMMA RemoveContainerKeeps ==
    ASSUME ContainersInv, NEW w \in Worker, RemoveContainer(w)
    PROVE  ContainersInv'
  <1>1. runs[w].pc = "remove" /\ UNCHANGED <<late, lease, beating, runs, over, faults>>
    BY DEF RemoveContainer
  <1>2. PICK o \in Orphans(w, reapers[w].containers) :
          /\ docker' = [docker EXCEPT ![o] = "absent"]
          /\ reapers' = [reapers EXCEPT ![w].containers = @ \ {o}]
    BY DEF RemoveContainer
  <1>3. PICK q : q = [reapers[w] EXCEPT !.containers = @ \ {o}]
    OBVIOUS
  <1>4. /\ q \in ReapState /\ q.containers \subseteq reapers[w].containers
        /\ q.networks = reapers[w].networks /\ q.alive = reapers[w].alive
    BY <1>1, <1>3, AtAReap DEF ReapState, ReapCalls
  <1>5. reapers' = [reapers EXCEPT ![w] = q]
    BY <1>2, <1>3
  <1>6. o \in Orphans(w, reapers[w].containers \union reapers[w].networks)
    BY <1>2 DEF Orphans
  <1> QED
    BY <1>1, <1>2, <1>4, <1>5, <1>6, RemoveKeeps

LEMMA RemoveNetworkKeeps ==
    ASSUME ContainersInv, NEW w \in Worker, RemoveNetwork(w)
    PROVE  ContainersInv'
  <1>1. runs[w].pc = "remove" /\ UNCHANGED <<late, lease, beating, runs, over, faults>>
    BY DEF RemoveNetwork
  <1>2. PICK o \in Orphans(w, reapers[w].networks) :
          /\ docker' = [docker EXCEPT ![o] = IF NetworkFree(o[2]) THEN "absent" ELSE @]
          /\ reapers' = [reapers EXCEPT ![w].networks = @ \ {o}]
    BY DEF RemoveNetwork
  <1>3. PICK q : q = [reapers[w] EXCEPT !.networks = @ \ {o}]
    OBVIOUS
  <1>4. /\ q \in ReapState /\ q.networks \subseteq reapers[w].networks
        /\ q.containers = reapers[w].containers /\ q.alive = reapers[w].alive
    BY <1>1, <1>3, AtAReap DEF ReapState, ReapCalls
  <1>5. reapers' = [reapers EXCEPT ![w] = q]
    BY <1>2, <1>3
  <1>6. o \in Orphans(w, reapers[w].containers \union reapers[w].networks)
    BY <1>2 DEF Orphans
  <1>7. PICK state \in {docker[o], "absent"} : docker' = [docker EXCEPT ![o] = state]
    BY <1>2
  <1> QED
    BY <1>1, <1>4, <1>5, <1>6, <1>7, RemoveKeeps

-----------------------------------------------------------------------------
(* Tasks that stop, objects created late, and leases.                      *)

\* A task stops by itself: only its own state changes, and from running.
LEMMA TaskStops ==
    ASSUME ContainersInv, NEW a \in Attempt, NEW state \in {"exited", "expired"},
           docker[<<"task", a>>] = "running",
           docker' = [docker EXCEPT ![<<"task", a>>] = state],
           ~SlowCommits /\ state = "expired" =>
               \A w \in Worker : AttemptOf(w) = a /\ runs[w].pc \in {"start_task", "wait"}
                                   => lease[a] # "live",
           UNCHANGED <<late, lease, beating, runs, reapers, over, faults>>
    PROVE  ContainersInv'
  <1> USE KindNames
  <1>1. /\ docker' \in [Object -> States] /\ <<"task", a>> \in Object
        /\ \A o \in Object : docker'[o] = IF o = <<"task", a>> THEN state ELSE docker[o]
    BY Objects DEF ContainersInv, Shapes, States
  <1>2. Shapes'
    BY <1>1 DEF ContainersInv, Shapes
  <1>3. \A o \in Object : docker'[o] = "absent" <=> docker[o] = "absent"
    BY <1>1
  <1>4. ClaimsHold'
    BY <1>3
       DEF ContainersInv, ClaimsHold, ObjectsAreClaimed, EndsAreClaimed, RunsAreClaimed,
           OneRunEach, ListsAreClaimed
  <1>5. ReturnsAreClean'
    BY <1>3 DEF ContainersInv, ReturnsAreClean
  <1>6. ASSUME NEW w \in Worker, runs[w].pc \in InRun
        PROVE  /\ runs[w].attempt \in Attempt
               /\ \A kind \in Kinds :
                    /\ Own(w, kind)' = Own(w, kind)
                    /\ docker'[Own(w, kind)] = "absent" <=> docker[Own(w, kind)] = "absent"
                    /\ kind # "task" => docker'[Own(w, kind)] = docker[Own(w, kind)]
               /\ \/ docker'[Own(w, "task")] = docker[Own(w, "task")]
                  \/ /\ docker[Own(w, "task")] = "running" /\ docker'[Own(w, "task")] = state
                     /\ AttemptOf(w) = a
    <2>1. /\ runs[w].attempt \in Attempt /\ \A kind \in Kinds : Own(w, kind) \in Object
      BY <1>6, AtACall
    <2>2. \A kind : Own(w, kind) = <<"task", a>> => kind = "task" /\ AttemptOf(w) = a
      BY DEF Own
    <2>3. \A kind : Own(w, kind)' = Own(w, kind)
      BY DEF Own, AttemptOf
    <2> QED
      BY <1>1, <1>3, <2>1, <2>2, <2>3
  <1>7. ASSUME NEW w \in Worker PROVE Accounted(w)'
    <2>1. LocalsAreFresh(w)'
      BY DEF ContainersInv, Accounted, LocalsAreFresh
    <2>2. CallsAreAccounted(w)'
      BY <1>6 DEF ContainersInv, Accounted, CallsAreAccounted, InRun
    <2>3. NetworkIsKnown(w)'
      BY <1>6 DEF ContainersInv, Accounted, NetworkIsKnown, InRun, RunCalls
    <2>4. TaskFollows(w)'
      BY <1>6 DEF ContainersInv, Accounted, TaskFollows, InRun, RunCalls
    <2>5. SweepsAreAccounted(w)'
      BY <1>6 DEF ContainersInv, Accounted, SweepsAreAccounted, InRun
    <2> QED
      BY <2>1, <2>2, <2>3, <2>4, <2>5 DEF Accounted
  <1>8. ASSUME ~SlowCommits, NEW w \in Worker PROVE SparesTheLive(w)'
    <2>1. SparesTheLive(w) /\ Accounted(w)
      BY <1>8 DEF ContainersInv
    <2>2. Live(w)' => Live(w)
      BY DEF Live, AttemptOf
    <2>3. Live(w) => runs[w].pc \in InRun
      BY <2>1 DEF Live, Accounted, LocalsAreFresh
    <2>4. ProxyStays(w)'
      BY <1>6, <2>1, <2>2, <2>3 DEF SparesTheLive, ProxyStays
    <2>5. LimitsAreKnown(w)'
      BY <1>6, <1>8, <2>1, <2>2, <2>3
         DEF SparesTheLive, LimitsAreKnown, Accounted, TaskFollows, Live
    <2>6. OrphansStayOrphans(w)'
      BY <2>1 DEF SparesTheLive, OrphansStayOrphans, Orphans
    <2> QED
      BY <2>4, <2>5, <2>6 DEF SparesTheLive
  <1> QED
    BY <1>2, <1>4, <1>5, <1>7, <1>8 DEF ContainersInv

LEMMA TaskExitsKeeps ==
    ASSUME ContainersInv, NEW a \in Attempt, TaskExits(a)
    PROVE  ContainersInv'
  BY TaskStops DEF TaskExits

LEMMA OwnDeadlineKeeps ==
    ASSUME ContainersInv, NEW a \in Attempt, OwnDeadline(a)
    PROVE  ContainersInv'
  BY TaskStops DEF OwnDeadline

\* What is created late belongs to no run that is still at its calls, nor to
\* one that returned.
LEMMA CreatedLateKeeps ==
    ASSUME ContainersInv, NEW o \in late, CreatedLate(o)
    PROVE  ContainersInv'
  <1> USE KindNames
  <1>1. /\ late' = late \ {o} /\ o \in Object
        /\ UNCHANGED <<lease, beating, runs, reapers, over, faults>>
    BY DEF CreatedLate, ContainersInv, Shapes
  <1>2. /\ docker' \in [Object -> States]
        /\ \A p \in Object : docker'[p] = docker[p] \/ (p = o /\ docker'[p] = "created")
    BY <1>1 DEF CreatedLate, ContainersInv, Shapes, States
  <1>3. Shapes'
    BY <1>1, <1>2 DEF ContainersInv, Shapes
  <1>4. ClaimsHold'
    BY <1>1, <1>2
       DEF ContainersInv, ClaimsHold, ObjectsAreClaimed, EndsAreClaimed, RunsAreClaimed,
           OneRunEach, ListsAreClaimed
  <1>5. ReturnsAreClean'
    BY <1>1, <1>2 DEF ContainersInv, ReturnsAreClean
  <1>6. ASSUME NEW w \in Worker, runs[w].pc \in InRun
        PROVE  \A kind \in Kinds :
                 /\ Own(w, kind)' = Own(w, kind)
                 /\ Own(w, kind) \in late' => Own(w, kind) \in late
                 /\ \/ docker'[Own(w, kind)] = docker[Own(w, kind)]
                    \/ Own(w, kind) \in late /\ docker'[Own(w, kind)] = "created"
    <2>1. \A kind \in Kinds : Own(w, kind) \in Object
      BY <1>6, AtACall
    <2>2. \A kind : Own(w, kind)' = Own(w, kind)
      BY <1>1 DEF Own, AttemptOf
    <2> QED
      BY <1>1, <1>2, <2>1, <2>2
  <1>7. ASSUME NEW w \in Worker PROVE Accounted(w)'
    <2>0. Accounted(w)
      BY DEF ContainersInv
    <2>1. LocalsAreFresh(w)'
      BY <1>1, <2>0 DEF Accounted, LocalsAreFresh
    <2>2. CallsAreAccounted(w)'
      BY <1>1, <1>6, <2>0 DEF Accounted, CallsAreAccounted, InRun
    <2>3. NetworkIsKnown(w)'
      BY <1>1, <1>6, <2>0 DEF Accounted, NetworkIsKnown, CallsAreAccounted, InRun, RunCalls
    <2>4. TaskFollows(w)'
      BY <1>1, <1>6, <2>0 DEF Accounted, TaskFollows, CallsAreAccounted, InRun, RunCalls
    <2>5. SweepsAreAccounted(w)'
      BY <1>1, <1>6, <2>0 DEF Accounted, SweepsAreAccounted, InRun
    <2> QED
      BY <2>1, <2>2, <2>3, <2>4, <2>5 DEF Accounted
  <1>8. ASSUME ~SlowCommits, NEW w \in Worker PROVE SparesTheLive(w)'
    <2>1. SparesTheLive(w) /\ Accounted(w)
      BY <1>8 DEF ContainersInv
    <2>2. Live(w)' => Live(w)
      BY <1>1 DEF Live, AttemptOf
    <2>3. Live(w) => runs[w].pc \in InRun
      BY <2>1 DEF Live, Accounted, LocalsAreFresh
    <2>4. ProxyStays(w)'
      BY <1>1, <1>6, <2>1, <2>2, <2>3
         DEF SparesTheLive, ProxyStays, Accounted, CallsAreAccounted, SweepsAreAccounted,
             InRun, RunCalls, EgressCalls
    <2>5. LimitsAreKnown(w)'
      BY <1>1, <1>6, <2>1, <2>2, <2>3 DEF SparesTheLive, LimitsAreKnown
    <2>6. OrphansStayOrphans(w)'
      BY <1>1, <2>1 DEF SparesTheLive, OrphansStayOrphans, Orphans
    <2> QED
      BY <2>4, <2>5, <2>6 DEF SparesTheLive
  <1> QED
    BY <1>1, <1>3, <1>4, <1>5, <1>7, <1>8 DEF ContainersInv

\* A claimed attempt's lease changes, or a heartbeat is on its way.
LEMMA LeaseMoves ==
    ASSUME ContainersInv, NEW a \in Attempt, lease[a] # "unclaimed",
           lease' \in [Attempt -> Leases], beating' \in SUBSET Attempt,
           \A b \in Attempt : lease[b] # "unclaimed" => lease'[b] # "unclaimed",
           \A b \in beating' : b \in beating \/ b = a,
           ~SlowCommits => beating' = {} /\ \A b \in Attempt : lease'[b] = "live" => lease[b] = "live",
           UNCHANGED <<docker, late, runs, reapers, over, faults>>
    PROVE  ContainersInv'
  <1>1. Shapes'
    BY DEF ContainersInv, Shapes
  <1>2. \A v \in Worker : Passed(v)
    BY DEF Passed
  <1>3. ~SlowCommits => \A v \in Worker : PassedLive(v)
    BY DEF PassedLive
  <1>4. ClaimsHold'
    <2>1. \A w \in Worker : \A o \in reapers[w].containers \union reapers[w].networks :
             o[2] \in Attempt
      BY Objects DEF ContainersInv, Shapes, ReapState
    <2>2. ObjectsAreClaimed' /\ EndsAreClaimed'
      BY Objects DEF ContainersInv, ClaimsHold, ObjectsAreClaimed, EndsAreClaimed
    <2>3. RunsAreClaimed' /\ OneRunEach'
      BY DEF ContainersInv, ClaimsHold, RunsAreClaimed, OneRunEach
    <2>4. ListsAreClaimed'
      BY <2>1 DEF ContainersInv, ClaimsHold, ListsAreClaimed
    <2> QED
      BY <2>2, <2>3, <2>4 DEF ClaimsHold
  <1>5. \A v \in Worker : Accounted(v)'
    BY <1>2, PassedIsAccounted DEF ContainersInv
  <1>6. ~SlowCommits => \A v \in Worker : SparesTheLive(v)'
    BY <1>2, <1>3, PassedIsSpared DEF ContainersInv
  <1> QED
    BY <1>1, <1>4, <1>5, <1>6 DEF ContainersInv, ReturnsAreClean

LEMMA LeaseStepsKeep ==
    ASSUME ContainersInv, NEW a \in Attempt, Heartbeat(a) \/ HeartbeatCommits(a) \/ Lapse(a)
    PROVE  ContainersInv'
  <1>1. /\ lease[a] # "unclaimed"
        /\ UNCHANGED <<docker, late, runs, reapers, over, faults>>
    BY DEF Heartbeat, HeartbeatCommits, Lapse, ContainersInv, ClaimsHold, EndsAreClaimed
  <1>2. lease \in [Attempt -> Leases] /\ beating \in SUBSET Attempt
    BY DEF ContainersInv, Shapes
  <1>3. ~SlowCommits => beating = {}
    BY DEF ContainersInv
  <1>4. /\ lease' \in [Attempt -> Leases] /\ beating' \in SUBSET Attempt
        /\ \A b \in Attempt : lease[b] # "unclaimed" => lease'[b] # "unclaimed"
        /\ \A b \in beating' : b \in beating \/ b = a
        /\ ~SlowCommits => beating' = {} /\ \A b \in Attempt : lease'[b] = "live" => lease[b] = "live"
    <2>1. CASE Heartbeat(a)
      BY <1>2, <2>1 DEF Heartbeat
    <2>2. CASE HeartbeatCommits(a)
      BY <1>2, <1>3, <2>2 DEF HeartbeatCommits, Leases
    <2>3. CASE Lapse(a)
      BY <1>2, <1>3, <2>3 DEF Lapse, Leases
    <2> QED
      BY <2>1, <2>2, <2>3
  <1> QED
    BY <1>1, <1>4, LeaseMoves

-----------------------------------------------------------------------------
(* The invariant, and what it says.                                        *)

LEMMA InitEstablishes == Init => ContainersInv
  <1> SUFFICES ASSUME Init PROVE ContainersInv
    OBVIOUS
  <1>1. Idle \in RunState /\ NotReaping \in ReapState
    BY DEF Idle, RunState, InRun, RunCalls, EgressCalls, Results, Endings, NotReaping, ReapState
  <1>2. Shapes
    BY <1>1 DEF Init, Shapes, States, Leases
  <1>3. \A w \in Worker : /\ runs[w].pc = "idle" /\ runs[w].attempt = NoAttempt
                          /\ runs[w].created = {} /\ ~runs[w].network /\ ~runs[w].limit
                          /\ reapers[w] = NotReaping
    BY DEF Init, Idle
  <1>4. NotReaping.containers \union NotReaping.networks = {}
    BY DEF NotReaping
  <1>5. ClaimsHold
    BY <1>3, <1>4, AttemptAssumption
       DEF Init, ClaimsHold, ObjectsAreClaimed, EndsAreClaimed, RunsAreClaimed, OneRunEach,
           ListsAreClaimed
  <1>6. \A w \in Worker : Accounted(w)
    BY <1>3, AttemptAssumption
       DEF Accounted, LocalsAreFresh, CallsAreAccounted, NetworkIsKnown, TaskFollows,
           SweepsAreAccounted, InRun, RunCalls, EgressCalls
  <1>7. \A w \in Worker : SparesTheLive(w)
    BY <1>3, AttemptAssumption
       DEF SparesTheLive, ProxyStays, LimitsAreKnown, OrphansStayOrphans, Live
  <1>8. ReturnsAreClean
    BY Objects DEF Init, ReturnsAreClean
  <1> QED
    BY <1>2, <1>5, <1>6, <1>7, <1>8 DEF ContainersInv, Init

LEMMA StutterKeeps ==
    ASSUME ContainersInv, UNCHANGED vars
    PROVE  ContainersInv'
  <1>1. UNCHANGED <<docker, late, lease, beating, runs, reapers, over, faults>>
    BY DEF vars
  <1>2. Shapes' /\ ClaimsHold' /\ ReturnsAreClean'
    BY <1>1
       DEF ContainersInv, Shapes, ClaimsHold, ObjectsAreClaimed, EndsAreClaimed, RunsAreClaimed,
           OneRunEach, ListsAreClaimed, ReturnsAreClean
  <1>3. \A w \in Worker : Passed(w) /\ PassedLive(w)
    BY <1>1 DEF Passed, PassedLive
  <1> QED
    BY <1>1, <1>2, <1>3, PassedIsAccounted, PassedIsSpared DEF ContainersInv

LEMMA NextKeeps ==
    ASSUME ContainersInv, Next
    PROVE  ContainersInv'
  <1>1. ASSUME NEW w \in Worker, RunStep(w) PROVE ContainersInv'
    BY <1>1, BeginRunKeeps, CreateKeeps, StartKeeps, ListeningKeeps, WaitKeeps, KillKeeps,
       OutputKeeps, CallFailsKeeps, StopKeeps, SweepKeeps, SweepNetworkKeeps, EndRunKeeps
       DEF RunStep
  <1>2. ASSUME NEW w \in Worker, ReapStep(w) PROVE ContainersInv'
    BY <1>2, BeginReapKeeps, ListContainersKeeps, ListNetworksKeeps, ReadLiveKeeps,
       RemoveContainerKeeps, RemoveNetworkKeeps, EndReapKeeps
       DEF ReapStep
  <1> QED
    BY <1>1, <1>2, CrashKeeps, BeginReapKeeps, TaskExitsKeeps, OwnDeadlineKeeps,
       LeaseStepsKeep, CreatedLateKeeps
       DEF Next

\* For any attempts, workers, exits and faults, a run's locals account for
\* what Docker has of its attempt, and, where heartbeats commit in time, only
\* the run takes anything away from a live attempt (execution.py).
THEOREM ContainersInductive == Spec => []ContainersInv
  <1>1. ContainersInv /\ [Next]_vars => ContainersInv'
    BY NextKeeps, StutterKeeps
  <1> QED
    BY <1>1, InitEstablishes, PTL DEF Spec

\* A run that returns has removed its containers and its network, unless
\* Docker failed a removal: whatever the reapers do meanwhile, and whatever
\* Docker creates late for other runs (execution.py, run's finally clause).
THEOREM ReturnsLeaveNothing == Spec => []ReturnedRunsLeaveNothing
  <1>1. ContainersInv => ReturnedRunsLeaveNothing
    BY DEF ContainersInv, ReturnsAreClean, ReturnedRunsLeaveNothing
  <1> QED
    BY <1>1, ContainersInductive, PTL

\* A limit that a run with its lease met is never the error that has the job
\* tried again (execution.py, _result), where heartbeats commit in time.
THEOREM LimitsAreFinal ==
    ASSUME ~SlowCommits
    PROVE  Spec => []LimitKillsAreFinal
  <1>1. ContainersInv => LimitKillsAreFinal
    <2> SUFFICES ASSUME ContainersInv, NEW w \in Worker, runs[w].limit,
                        lease[AttemptOf(w)] = "live"
                 PROVE  runs[w].result # "error"
      BY DEF LimitKillsAreFinal
    <2>1. LimitsAreKnown(w) /\ LocalsAreFresh(w)
      BY DEF ContainersInv, Accounted, SparesTheLive
    <2>2. runs[w].attempt \in Attempt
      BY <2>1 DEF LocalsAreFresh
    <2> QED
      BY <2>1, <2>2 DEF LimitsAreKnown, Live
  <1> QED
    BY <1>1, ContainersInductive, PTL

\* A task with a live lease never runs without the proxy it was granted
\* (execution.py, _egress), where heartbeats commit in time.
THEOREM ProxiesOutliveTasks ==
    ASSUME ~SlowCommits
    PROVE  Spec => []TasksRunBehindTheirProxy
  <1>1. ContainersInv => TasksRunBehindTheirProxy
    <2> SUFFICES ASSUME ContainersInv, NEW w \in Worker, runs[w].network, runs[w].tidy,
                        lease[AttemptOf(w)] = "live", docker[Own(w, "task")] = "running"
                 PROVE  docker[Own(w, "proxy")] = "running" /\ docker[Own(w, "network")] # "absent"
      BY DEF TasksRunBehindTheirProxy
    <2>1. ProxyStays(w) /\ LocalsAreFresh(w)
      BY DEF ContainersInv, Accounted, SparesTheLive
    <2>2. runs[w].attempt \in Attempt
      BY <2>1 DEF LocalsAreFresh
    <2> QED
      BY <2>1, <2>2 DEF ProxyStays, Live
  <1> QED
    BY <1>1, ContainersInductive, PTL

\* No step of reap_orphans takes a live attempt's container or network,
\* whatever was claimed or created since it listed, where heartbeats commit in
\* time: live_attempts reads committed leases and takes no lock.
THEOREM ReapersSpareTheLiving ==
    ASSUME ~SlowCommits
    PROVE  Spec => LiveAttemptsAreSpared
  <1> DEFINE Spared == \A w \in Worker, o \in Object :
                         ((RemoveContainer(w) \/ RemoveNetwork(w)) /\ docker'[o] # docker[o])
                            => lease[o[2]] # "live"
  <1>1. ContainersInv => Spared
    <2> SUFFICES ASSUME ContainersInv, NEW w \in Worker, NEW o \in Object,
                        RemoveContainer(w) \/ RemoveNetwork(w), docker'[o] # docker[o]
                 PROVE  lease[o[2]] # "live"
      OBVIOUS
    <2>1. runs[w].pc = "remove" /\ docker \in [Object -> States]
      BY DEF RemoveContainer, RemoveNetwork, ContainersInv, Shapes
    <2>2. \A p \in Object : docker'[p] # docker[p] =>
             p \in Orphans(w, reapers[w].containers \union reapers[w].networks)
      BY <2>1 DEF RemoveContainer, RemoveNetwork, Orphans
    <2> QED
      BY <2>1, <2>2 DEF ContainersInv, SparesTheLive, OrphansStayOrphans
  <1>2. ContainersInv => [Spared]_vars
    BY <1>1
  <1> QED
    BY <1>2, ContainersInductive, PTL DEF LiveAttemptsAreSpared

=============================================================================
