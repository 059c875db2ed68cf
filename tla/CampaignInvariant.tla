------------------------- MODULE CampaignInvariant -------------------------
(***************************************************************************)
(* The inductive invariant behind Campaign's safety properties.            *)
(*                                                                         *)
(* A command's locals are compared with what the files will hold once what *)
(* it has still to write is written (Content): so nothing that is said of  *)
(* them changes as they are saved, and when all are saved it is said of    *)
(* the disk.                                                               *)
(***************************************************************************)
EXTENDS Campaign

-----------------------------------------------------------------------------
(* What a file may hold.                                                   *)

Outcome == {"solved", "capped", "diverged"} \union Underneath

RecordingRec == [is : {"recording"}, session : Nat, executor : Executor, outcome : Outcome]

Config == [mode : {"real", "replay"}, executor : Executor,
           digest : [Task -> RecordingRec \union {Absent}]]

TrialRec == [is : {"trial"}, trial : Trial, session : Nat, config : Config,
             interrupted : BOOLEAN, jobs : Seq(Outcome)]

SummaryRec == [is : {"summary"}, trials : SUBSET Trial, interrupted_trials : SUBSET Trial,
               config : Config, outcomes_identical : BOOLEAN, failed_harness : BOOLEAN]

\* Only a trial that was cut short lacks jobs, and no recording made in
\* process stops at the cap.
TrialContent(n) ==
    {r \in TrialRec : r.trial = n /\ (~r.interrupted => Len(r.jobs) = Cardinality(Task))}

RecordingContent == {r \in RecordingRec : r.executor = "sequential" => r.outcome # "capped"}

Fits(f, v) ==
    \/ \E l \in Label, n \in Trial : f = TrialFile(l, n) /\ v \in TrialContent(n)
    \/ \E t \in Task : f = RecordingFile(t) /\ v \in RecordingContent
    \/ \E l \in Label : f = SummaryFile(l) /\ v \in SummaryRec

DiskSound ==
    /\ disk = [f \in File |-> disk[f]]
    /\ \A f \in File : disk[f] \in {Absent, Torn} \/ Fits(f, disk[f])

-----------------------------------------------------------------------------
(* A command, and the files once it has saved what it holds.               *)

Write == {w \in File \X (TrialRec \union RecordingRec \union SummaryRec) : Fits(w[1], w[2])}

Labels == {<<"real">>, <<"replay">>, <<"ab1", "ab2">>, <<"scale1", "scale2">>}

RecordCommand ==
    [name : {"record"}, labels : {<<"real">>}, trials : {{n} : n \in Trial},
     pc : {"jobs", "summarize", "exit"}, executors : {<<"sequential">>, <<"fleet">>},
     recorder : {"nobody", "sequential", "fleet"}, jobs : Seq(Outcome), saves : Seq(Write),
     exit : {"none", "0", "1"}]

ReplayCommand ==
    [name : {"replay"}, labels : Labels, trials : {1 .. n : n \in Trial},
     pc : {"trials", "summaries", "exit"}, executors : Seq(Executor), recorder : {"nobody"},
     used : [Task -> RecordingContent], records : Seq(SUBSET TrialRec), round : Nat, turn : Nat,
     saves : Seq(Write), exit : {"none", "0", "1"}]

SummarizeCommand ==
    [name : {"summarize"}, labels : {<<l>> : l \in Label}, trials : {{}}, pc : {"exit"},
     exit : {"0"}, recorder : {"nobody"}, saves : Seq(Write)]

\* No file is written twice in one go.
Apart(saves) == \A i, j \in 1 .. Len(saves) : saves[i][1] = saves[j][1] => i = j

After(files, saves, f) ==
    IF \E j \in 1 .. Len(saves) : saves[j][1] = f
    THEN saves[CHOOSE j \in 1 .. Len(saves) : saves[j][1] = f][2]
    ELSE files[f]

Content(f) == After(disk, command.saves, f)

-----------------------------------------------------------------------------
(* record.                                                                 *)

\* What the command ran in process is recorded as it came out.
JobsRecorded ==
    command.recorder = "sequential" =>
        \A t \in 1 .. Len(command.jobs) :
            /\ t \in Task
            /\ Content(RecordingFile(t)).is = "recording"
            /\ Content(RecordingFile(t)).session = session

RecordSound ==
    /\ command \in RecordCommand
    /\ command.recorder \in {"nobody", command.executors[1]}
    /\ JobsRecorded
    /\ command.pc = "jobs" => Len(command.jobs) < Cardinality(Task)
    /\ command.pc = "summarize" => /\ Content(RecordedFile).is = "trial"
                                   /\ Content(RecordedFile).jobs = command.jobs
    /\ command.pc = "exit" /\ command.exit = "0" => Len(command.jobs) = Cardinality(Task)

-----------------------------------------------------------------------------
(* replay.                                                                 *)

\* The trials arm i has run.
Done(i) ==
    {n \in command.trials :
        \/ n < command.round
        \/ /\ n = command.round
           /\ IF n % 2 = 1 THEN i < command.turn ELSE i > Len(command.labels) + 1 - command.turn}

\* A trial held in memory is the one in its file, and this command's own.
Own(r, i) ==
    /\ r = Content(TrialFile(command.labels[i], r.trial))
    /\ r.session = session /\ r.config.digest = command.used
    /\ ~r.interrupted

ReplaySound ==
    /\ command \in ReplayCommand
    /\ Len(command.records) = Len(command.labels)
    /\ Len(command.executors) = Len(command.labels)
    /\ command.round \in 1 .. Cardinality(command.trials) + 1
    /\ command.turn \in 1 .. Len(command.labels)
    /\ command.pc = "trials" <=> command.round <= Cardinality(command.trials)
    /\ command.pc # "trials" => command.turn = 1
    /\ \A i \in 1 .. Len(command.labels) :
         /\ {r.trial : r \in command.records[i]} = Done(i)
         /\ \A r \in command.records[i] : Own(r, i)
    /\ command.exit = "0" => command.pc = "exit" /\ Passed(command.records)

-----------------------------------------------------------------------------
(* Commands about to end.                                                  *)

\* s is true of the trial files of l.
Current(name, l, s) ==
    LET named == {disk[TrialFile(l, n)] : n \in s.trials}
    IN  /\ s.is = "summary"
        /\ Torn \notin named /\ Absent \notin named
        /\ s = [Summarize(named) EXCEPT !.interrupted_trials = s.interrupted_trials]
        /\ name # "replay" =>
              Loads(l) /\ s.trials = {t.trial : t \in Complete(TrialFiles(l))}

SummariesSound ==
    command.pc = "exit" =>
        /\ \A j \in 1 .. Len(command.saves) : \E l \in Label : command.saves[j][1] = SummaryFile(l)
        /\ \A i \in 1 .. Len(command.labels) :
              Current(command.name, command.labels[i], Content(SummaryFile(command.labels[i])))

CommandSound ==
    /\ last = NoneYet
    /\ Apart(command.saves)
    /\ SummariesSound
    /\ \/ RecordSound
       \/ ReplaySound
       \/ command \in SummarizeCommand

LastSound ==
    /\ ExitZeroMeansCurrent
    /\ PassedReplaysAgree
    /\ RecordingsAreWhole
    /\ ComparedRunsDifferAsDeclared

\* The inductive invariant (bench/cli.py, records.py): files hold what their
\* names say or are torn, and the command that runs agrees with them.
CampaignInv ==
    /\ session \in Nat
    /\ DiskSound
    /\ command # Idle => CommandSound
    /\ LastSound

=============================================================================
