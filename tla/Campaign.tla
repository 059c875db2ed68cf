------------------------------ MODULE Campaign ------------------------------
(***************************************************************************)
(* The bench's commands over the files they leave (backend/bench/cli.py):  *)
(* record runs the task set against the real model, replay and ab replay   *)
(* the recordings over several trials, summarize and compare read trials   *)
(* back.  A file is written in place, so a command that dies may leave the *)
(* one it was writing torn, and the ones it had still to write as the      *)
(* sessions before left them.                                              *)
(***************************************************************************)
EXTENDS Naturals, Sequences, FiniteSets, Functions

CONSTANTS
    Task,          \* 1 .. n, in the planned order
    Trial,         \* 1 .. n
    MaxSessions,   \* commands given
    MaxMishaps     \* caps, dead letters, divergences, lost workers and crashes

ASSUME CampaignAssumption ==
    /\ {MaxSessions, MaxMishaps} \subseteq Nat
    /\ IsFiniteSet(Task) /\ Task # {} /\ Task = 1 .. Cardinality(Task)
    /\ IsFiniteSet(Trial) /\ Trial # {} /\ Trial = 1 .. Cardinality(Trial)

VARIABLES
    disk,      \* every file, by name
    command,   \* the command that runs, with its locals
    session,   \* how many have been given
    mishaps,
    last       \* how the last one ended

vars == <<disk, command, session, mishaps, last>>

\* A fleet has a pool of one size or another.
Fleets   == {"fleet", "wide_fleet"}
Executor == {"sequential"} \union Fleets

\* Where trials and summaries go: recorded ones, replayed ones, two arms of
\* an A/B session, two of a scaling session.
Label == {"real", "replay", "ab1", "ab2", "scale1", "scale2"}

TrialFile(l, n)  == <<"trial", l, n>>
SummaryFile(l)   == <<"summary", l>>
RecordingFile(t) == <<"recording", t>>

File == {TrialFile(l, n) : l \in Label, n \in Trial} \union {SummaryFile(l) : l \in Label}
            \union {RecordingFile(t) : t \in Task}

Absent == [is |-> "absent"]
Torn   == [is |-> "torn"]

Idle   == [name |-> "idle"]
NoneYet == [name |-> "none", exit |-> "none", recorder |-> "nobody"]

Mishap(n) == mishaps + n <= MaxMishaps /\ mishaps' = mishaps + n

-----------------------------------------------------------------------------
(* records.py.                                                             *)

\* A recorded trial replays none.
NoRecordings == [t \in Task |-> Absent]

\* What BenchConfig says of a trial, as far as commands may differ in it.
ConfigOf(mode, executor, digest) == [mode |-> mode, executor |-> executor, digest |-> digest]

TrialRecord(n, config, interrupted, jobs) ==
    [is |-> "trial", trial |-> n, session |-> session, config |-> config,
     interrupted |-> interrupted, jobs |-> jobs]

Complete(trials) == {t \in trials : ~t.interrupted}

OneConfig(trials) == \A t, u \in trials : t.config = u.config

\* summarize, of trials it does not refuse.
Summarize(trials) ==
    [is |-> "summary",
     trials |-> {t.trial : t \in Complete(trials)},
     interrupted_trials |-> {t.trial : t \in trials \ Complete(trials)},
     config |-> (CHOOSE t \in Complete(trials) : TRUE).config,
     outcomes_identical |-> \A t, u \in Complete(trials) : t.jobs = u.jobs,
     failed_harness |-> \E t \in Complete(trials) : \E j \in DOMAIN t.jobs : t.jobs[j] = "diverged"]

TrialFiles(l)   == {disk[TrialFile(l, n)] : n \in Trial} \ {Absent}
Loads(l)        == Torn \notin TrialFiles(l)
CanSummarize(l) == Loads(l) /\ Complete(TrialFiles(l)) # {} /\ OneConfig(Complete(TrialFiles(l)))

\* replay_passed.
ReplayPassed(summary) == summary.outcomes_identical /\ ~summary.failed_harness

-----------------------------------------------------------------------------
(* A command begins, saves a file, ends, raises or dies.                   *)

Begin(cmd) ==
    /\ command = Idle /\ session < MaxSessions
    /\ session' = session + 1
    /\ command' = cmd
    /\ last' = NoneYet
    /\ UNCHANGED <<disk, mishaps>>

\* It raises before it writes anything.
Refused(name) ==
    /\ command = Idle /\ session < MaxSessions
    /\ session' = session + 1
    /\ last' = [NoneYet EXCEPT !.name = name, !.exit = "raised"]
    /\ UNCHANGED <<disk, command, mishaps>>

Ends(exit) ==
    /\ command' = Idle
    /\ last' = [name |-> command.name, labels |-> command.labels, exit |-> exit,
                trials |-> command.trials, recorder |-> command.recorder]

\* write_record and write_recording.
Save ==
    /\ command # Idle /\ command.saves # <<>>
    /\ disk' = [disk EXCEPT ![command.saves[1][1]] = command.saves[1][2]]
    /\ command' = [command EXCEPT !.saves = Tail(@)]
    /\ UNCHANGED <<session, mishaps, last>>

Saved == command # Idle /\ command.saves = <<>>

\* The process is killed, perhaps in the middle of a write.
Crash ==
    /\ command # Idle
    /\ Mishap(1)
    /\ Ends("crashed")
    /\ \/ UNCHANGED disk
       \/ command.saves # <<>> /\ disk' = [disk EXCEPT ![command.saves[1][1]] = Torn]
    /\ UNCHANGED session

Exit ==
    /\ Saved /\ command.pc = "exit"
    /\ Ends(command.exit)
    /\ UNCHANGED <<disk, session, mishaps>>

-----------------------------------------------------------------------------
(* record.                                                                 *)

\* recorder: who writes recordings.
Record(n, executor, writes) ==
    Begin([name |-> "record", labels |-> <<"real">>, trials |-> {n}, pc |-> "jobs",
           executors |-> <<executor>>, recorder |-> IF writes THEN executor ELSE "nobody",
           jobs |-> <<>>, saves |-> <<>>, exit |-> "none"])

RecordedFile == TrialFile("real", CHOOSE n \in command.trials : TRUE)

Recording(t, outcome) ==
    <<RecordingFile(t), [is |-> "recording", session |-> session,
                         executor |-> command.recorder, outcome |-> outcome]>>

Ran(jobs, interrupted) ==
    TrialRecord(CHOOSE n \in command.trials : TRUE,
                ConfigOf("real", command.executors[1], NoRecordings), interrupted, jobs)

Kept(t, outcome) == IF command.recorder = "nobody" THEN <<>> ELSE <<Recording(t, outcome)>>

\* _daily_cap_reached, looked for after every job.
DailyCapReached(outcome) == outcome = "capped"

InProcess ==
    /\ Saved /\ command.name = "record" /\ command.pc = "jobs"
    /\ command.executors[1] = "sequential"

\* Broken: the job is kept first, and the cap looked for after.
RunJobKeptFirst(outcome) ==
    /\ InProcess
    /\ LET t     == Len(command.jobs) + 1
           jobs  == Append(command.jobs, outcome)
           over  == outcome = "capped" \/ t = Cardinality(Task)
           trial == <<RecordedFile, Ran(jobs, outcome = "capped")>>
       IN  command' = [command EXCEPT !.jobs = jobs, !.pc = IF over THEN "summarize" ELSE @,
                                      !.saves = Kept(t, outcome) \o IF over THEN <<trial>> ELSE <<>>]
    /\ IF outcome = "solved" THEN UNCHANGED mishaps ELSE Mishap(1)
    /\ UNCHANGED <<disk, session, last>>

\* SequentialExecutor.run: a job stopped by the daily cap is dropped, with
\* its responses, and the batch ends there; any other is kept as it ends.
RunJob(outcome) ==
    /\ InProcess
    /\ LET t    == Len(command.jobs) + 1
           jobs == Append(command.jobs, outcome)
       IN  \/ /\ DailyCapReached(outcome)
              /\ command' = [command EXCEPT !.pc = "summarize",
                                            !.saves = <<<<RecordedFile, Ran(command.jobs, TRUE)>>>>]
           \/ /\ ~DailyCapReached(outcome) /\ t < Cardinality(Task)
              /\ command' = [command EXCEPT !.jobs = jobs, !.saves = Kept(t, outcome)]
           \/ /\ ~DailyCapReached(outcome) /\ t = Cardinality(Task)
              /\ command' = [command EXCEPT !.jobs = jobs, !.pc = "summarize",
                                            !.saves = Append(Kept(t, outcome),
                                                             <<RecordedFile, Ran(jobs, FALSE)>>)]
    /\ IF outcome = "solved" THEN UNCHANGED mishaps ELSE Mishap(1)
    /\ UNCHANGED <<disk, session, last>>

\* How a fleet has a job end, beside the task's own endings: stopped at a limit
\* of its policy, or given up.  Neither says what the model answered.
Underneath == {"stopped", "dead_lettered"}

\* The jobs in whose results' bodies a worker put a recording.
FromBodies(outcomes) ==
    {t \in Task : outcomes[t] \notin Underneath /\ command.recorder # "nobody"}

InOrder(S) ==
    {s \in [1 .. Cardinality(S) -> S] : \A i, j \in 1 .. Cardinality(S) : i < j => s[i] < s[j]}

\* on_fleet: the recordings are written once the batch is over, in its order.
OnFleet(order, outcomes) == [i \in 1 .. Len(order) |-> Recording(order[i], outcomes[order[i]])]

\* FleetExecutor.run: the batch drains, and what it stored becomes the trial.
FleetBatch(outcomes) ==
    /\ Saved /\ command.name = "record" /\ command.pc = "jobs"
    /\ command.executors[1] \in Fleets
    /\ \E order \in InOrder(FromBodies(outcomes)) :
          command' = [command EXCEPT
              !.jobs = outcomes, !.pc = "summarize",
              !.saves = Append(OnFleet(order, outcomes), <<RecordedFile, Ran(outcomes, FALSE)>>)]
    /\ Mishap(Len(SelectSeq(outcomes, LAMBDA o : o # "solved")))
    /\ UNCHANGED <<disk, session, last>>

\* Broken: what the command itself made of its trial is all it looks at.
SummarizeOwn ==
    /\ Saved /\ command.name = "record" /\ command.pc = "summarize"
    /\ LET own == {disk[RecordedFile]}
       IN  \/ /\ Complete(own) = {} /\ Ends("1") /\ UNCHANGED disk
          \/ /\ Complete(own) # {}
             /\ command' = [command EXCEPT !.pc = "exit", !.exit = "0",
                               !.saves = <<<<SummaryFile("real"), Summarize(own)>>>>]
             /\ UNCHANGED <<disk, last>>
    /\ UNCHANGED <<session, mishaps>>

\* The end of record_trial.  Trials of another configuration make it raise,
\* with its own trial written.
SummarizeRecorded ==
    /\ Saved /\ command.name = "record" /\ command.pc = "summarize"
    /\ LET interrupted == disk[RecordedFile].interrupted
           exit == IF interrupted THEN "1" ELSE "0"
       IN  \/ /\ Loads("real") /\ Complete(TrialFiles("real")) = {}
             /\ Ends(exit)
          \/ /\ CanSummarize("real")
             /\ command' = [command EXCEPT !.pc = "exit", !.exit = exit,
                    !.saves = <<<<SummaryFile("real"), Summarize(TrialFiles("real"))>>>>]
             /\ UNCHANGED last
          \/ /\ ~CanSummarize("real")
             /\ Loads("real") => Complete(TrialFiles("real")) # {}
             /\ Ends("raised")
    /\ UNCHANGED <<disk, session, mishaps>>

-----------------------------------------------------------------------------
(* replay; ab and scale: their arms interleaved.                           *)

Recordings == [t \in Task |-> disk[RecordingFile(t)]]

\* load_recordings and _replayable, before anything is run or written.
Replayable == \A t \in Task : Recordings[t].is = "recording"

Replay(labels, executors, trials) ==
    /\ Replayable
    /\ Begin([name |-> "replay", labels |-> labels, trials |-> 1 .. trials, pc |-> "trials",
              executors |-> executors, recorder |-> "nobody",
              used |-> Recordings, records |-> [i \in 1 .. Len(labels) |-> {}],
              round |-> 1, turn |-> 1, saves |-> <<>>, exit |-> "none"])

ReplayRefused == ~Replayable /\ Refused("replay")

\* The arms as given on odd trials, and reversed on even ones.
TrialOrder(arms, n) ==
    IF n % 2 = 1 THEN [i \in 1 .. arms |-> i] ELSE [i \in 1 .. arms |-> arms + 1 - i]

Arm == TrialOrder(Len(command.labels), command.round)[command.turn]

\* A worker or the api is gone: run raises, and nothing more is written.
FleetFails ==
    /\ Saved /\ command.pc \in {"jobs", "trials"}
    /\ command.executors[IF command.name = "replay" THEN Arm ELSE 1] \in Fleets
    /\ Mishap(1)
    /\ Ends("raised")
    /\ UNCHANGED <<disk, session>>

ReplayConfig == ConfigOf("replay", command.executors[Arm], command.used)

\* _replay_batch: a job comes out as its recording did, or strays from it; a
\* fleet may also end it underneath.
Replayed(t) ==
    {command.used[t].outcome, "diverged"}
        \union (IF command.executors[Arm] \in Fleets THEN Underneath ELSE {})

\* A trial's record is written and kept, and the next arm or round follows.
Follow(record) ==
    LET final == command.turn = Len(command.labels)
    IN  command' = [command EXCEPT
            !.records[Arm] = @ \union {record},
            !.saves = <<<<TrialFile(command.labels[Arm], command.round), record>>>>,
            !.turn = IF final THEN 1 ELSE @ + 1,
            !.round = IF final THEN @ + 1 ELSE @,
            !.pc = IF final /\ command.round = Cardinality(command.trials) THEN "summaries" ELSE @]

RunTrial(outcomes) ==
    /\ Saved /\ command.name = "replay" /\ command.pc = "trials"
    /\ \A t \in Task : outcomes[t] \in Replayed(t)
    /\ Follow(TrialRecord(command.round, ReplayConfig, FALSE, outcomes))
    /\ Mishap(Cardinality({t \in Task : outcomes[t] # command.used[t].outcome}))
    /\ UNCHANGED <<disk, session, last>>

\* outcomes_match.
OutcomesMatch(records) ==
    \A i, j \in DOMAIN records : \A t \in records[i], u \in records[j] : t.jobs = u.jobs

\* Broken: each arm is looked at by itself.
PassedApart(records) == \A i \in DOMAIN records : ReplayPassed(Summarize(records[i]))

Passed(records) ==
    /\ OutcomesMatch(records)
    /\ \A i \in DOMAIN records : ReplayPassed(Summarize(records[i]))

\* The summaries are made from the records in memory.
SummarizeReplayed ==
    /\ Saved /\ command.name = "replay" /\ command.pc = "summaries"
    /\ command' = [command EXCEPT
           !.pc = "exit",
           !.exit = IF Passed(command.records) THEN "0" ELSE "1",
           !.saves = [i \in DOMAIN command.labels |->
                        <<SummaryFile(command.labels[i]), Summarize(command.records[i])>>]]
    /\ UNCHANGED <<disk, session, mishaps, last>>

-----------------------------------------------------------------------------
(* summarize and compare.                                                  *)

SummarizeLabel(l) ==
    /\ CanSummarize(l)
    /\ Begin([name |-> "summarize", labels |-> <<l>>, trials |-> {}, pc |-> "exit", exit |-> "0",
              recorder |-> "nobody",
              saves |-> <<<<SummaryFile(l), Summarize(TrialFiles(l))>>>>])

SummarizeRefused(l) == ~CanSummarize(l) /\ Refused("summarize")

\* Broken: a trial cut short is as good as another.
RoundsAny(b, c) ==
    {n \in Trial : {disk[TrialFile(b, n)], disk[TrialFile(c, n)]} \intersect {Absent} = {}}

\* The rounds both runs completed.
Rounds(b, c) ==
    {n \in Trial : \A l \in {b, c} :
        disk[TrialFile(l, n)] # Absent /\ ~disk[TrialFile(l, n)].interrupted}

Paired(l, rounds) == {disk[TrialFile(l, n)] : n \in rounds}

Field == {"mode", "executor", "digest"}

\* matched_expectation, of tasks that are there to be solved.
Met(outcome) == outcome = "solved"

\* The jobs both runs have in a round.
Pairs(b, c) ==
    {p \in Rounds(b, c) \X Task :
        \A l \in {b, c} : p[2] \in DOMAIN disk[TrialFile(l, p[1])].jobs}

CameOut(l, pair) == disk[TrialFile(l, pair[1])].jobs[pair[2]]

\* _moved_tasks: per task, how often it came out each way over the rounds.
Moved(b, c) ==
    LET ways(l, t) == [o \in {"solved", "capped", "diverged"} \union Underneath |->
                         Cardinality({p \in Pairs(b, c) : p[2] = t /\ CameOut(l, p) = o})]
    IN  {t \in Task : ways(b, t) # ways(c, t)}

\* Paired runs that met their expectation in the second run and not the first.
Flips(b, c) ==
    Cardinality({p \in Pairs(b, c) : Met(CameOut(c, p)) /\ ~Met(CameOut(b, p))})

\* compare, of runs it does not refuse.
Comparison(b, c, expect) ==
    LET rounds   == Rounds(b, c)
        found(x) == (CHOOSE t \in Paired(x, rounds) : TRUE).config
    IN  [rounds |-> rounds,
         unexpected_changes |-> {f \in Field : found(b)[f] # found(c)[f]} \ expect,
         better_pairs |-> Flips(b, c), worse_pairs |-> Flips(c, b),
         tasks |-> Moved(b, c)]

CanCompare(b, c) ==
    /\ Loads(b) /\ Loads(c) /\ Pairs(b, c) # {}
    /\ OneConfig(Paired(b, Rounds(b, c))) /\ OneConfig(Paired(c, Rounds(b, c)))

\* Exit 2 for a difference that was not declared, when any are declared.
Compare(b, c, expect) ==
    /\ command = Idle /\ session < MaxSessions
    /\ session' = session + 1
    /\ \/ /\ ~CanCompare(b, c)
          /\ last' = [NoneYet EXCEPT !.name = "compare", !.exit = "refused"]
       \/ /\ CanCompare(b, c)
          /\ LET found == Comparison(b, c, expect)
             IN  last' = [name |-> "compare", labels |-> <<b, c>>, recorder |-> "nobody",
                          expect |-> expect, found |-> found,
                          exit |-> IF expect # {} /\ found.unexpected_changes # {}
                                   THEN "2" ELSE "0"]
    /\ UNCHANGED <<disk, command, mishaps>>

-----------------------------------------------------------------------------
\* The recordings kept in the repository.
Shipped == [is |-> "recording", session |-> 0, executor |-> "sequential", outcome |-> "solved"]

Init ==
    /\ disk = [f \in File |-> IF f[1] = "recording" THEN Shipped ELSE Absent]
    /\ command = Idle
    /\ session = 0
    /\ mishaps = 0
    /\ last = NoneYet

ReplayArms == {<<<<"replay">>, <<e>>>> : e \in {"sequential", "fleet"}}
AbArms     == {<<<<"ab1", "ab2">>, <<"sequential", "fleet">>>>}
ScaleArms  == {<<<<"scale1", "scale2">>, <<"fleet", "wide_fleet">>>>}

Next ==
    \/ \E n \in Trial, e \in {"sequential", "fleet"}, writes \in BOOLEAN : Record(n, e, writes)
    \/ \E outcome \in {"solved", "capped"} : RunJob(outcome)
    \/ \E outcomes \in [Task -> {"solved", "capped"} \union Underneath] : FleetBatch(outcomes)
    \/ FleetFails
    \/ SummarizeRecorded
    \/ \E a \in ReplayArms \union AbArms \union ScaleArms, trials \in Trial : Replay(a[1], a[2], trials)
    \/ ReplayRefused
    \/ \E outcomes \in [Task -> {"solved", "capped", "diverged"} \union Underneath] :
          RunTrial(outcomes)
    \/ SummarizeReplayed
    \/ \E l \in Label : SummarizeLabel(l) \/ SummarizeRefused(l)
    \/ \E expect \in {{}, {"executor"}, Field} :
          Compare("ab1", "ab2", expect) \/ Compare("real", "replay", expect)
    \/ Save \/ Exit \/ Crash

Spec == Init /\ [][Next]_vars

-----------------------------------------------------------------------------
\* A command that exits 0 leaves a summary that is true of the trial files
\* beside it, whatever crashes and other configurations came before: of its
\* own trials for a replay, of every complete trial for record and summarize
\* (cli.py, record_trial, replay_trials, summarize_label).
ExitZeroMeansCurrent ==
    (last.exit = "0" /\ last.name # "compare") =>
        \A i \in DOMAIN last.labels :
            LET l       == last.labels[i]
                summary == disk[SummaryFile(l)]
                named   == {disk[TrialFile(l, n)] : n \in summary.trials}
            IN  /\ summary.is = "summary"
                /\ Torn \notin named /\ Absent \notin named
                /\ summary = [Summarize(named) EXCEPT
                                 !.interrupted_trials = summary.interrupted_trials]
                /\ last.name # "replay" =>
                      Loads(l) /\ summary.trials = {t.trial : t \in Complete(TrialFiles(l))}

\* cli.py, replay_passed: "Replay is only trustworthy with identical outcomes
\* and no divergence in any trial".  When a replay exits 0 the trials it left
\* on disk, over all its arms, are its own, replayed the same recordings, came
\* out alike job by job, and never strayed.
PassedReplaysAgree ==
    (last.name = "replay" /\ last.exit = "0") =>
        LET left == {disk[TrialFile(l, n)] : l \in Range(last.labels), n \in last.trials}
        IN  /\ \A t \in left : t.is = "trial" /\ t.session = session
            /\ \A t, u \in left : t.jobs = u.jobs /\ t.config.digest = u.config.digest
            /\ \A t \in left : "diverged" \notin Range(t.jobs)

\* Responses recorded in process can be replayed (executor.py, stop_check):
\* none stops at the provider's daily cap, and a recording that exits 0 has
\* made the whole set in its own session.
RecordingsAreWhole ==
    LET set == {disk[RecordingFile(t)] : t \in Task}
    IN  /\ \A r \in set : r.is = "recording" /\ r.executor = "sequential" => r.outcome # "capped"
        /\ (last.exit = "0" /\ last.recorder = "sequential") =>
              \A r \in set : r.is = "recording" /\ r.session = session

\* A comparison that exits 0 set whole trials against each other, round by
\* round, and, where changes were declared, they differ in nothing else
\* (compare.py, unexpected_changes), whichever sessions left the files; and
\* one that lists no task as moved (_moved_tasks) counts as many paired runs
\* better as worse, though it counts tasks over rounds and these run by run.
ComparedRunsDifferAsDeclared ==
    (last.name = "compare" /\ last.exit = "0") =>
        /\ \A n \in last.found.rounds :
              LET b == disk[TrialFile(last.labels[1], n)]
                  c == disk[TrialFile(last.labels[2], n)]
              IN  /\ Len(b.jobs) = Cardinality(Task) /\ Len(c.jobs) = Cardinality(Task)
                  /\ last.expect # {} =>
                        \A f \in Field \ last.expect : b.config[f] = c.config[f]
        /\ last.found.tasks = {} => last.found.better_pairs = last.found.worse_pairs
=============================================================================
