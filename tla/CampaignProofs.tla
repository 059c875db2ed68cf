--------------------------- MODULE CampaignProofs ---------------------------
(***************************************************************************)
(* Proofs that CampaignInv is inductive, for any numbers of tasks, trials, *)
(* commands and mishaps, and so that Campaign's four safety properties     *)
(* hold.                                                                   *)
(***************************************************************************)
EXTENDS CampaignInvariant, FiniteSetTheorems, FunctionTheorems, TLAPS

-----------------------------------------------------------------------------
(* Names and contents of files.                                            *)

LEMMA Sizes ==
    /\ IsFiniteSet(Task) /\ Cardinality(Task) \in Nat \ {0} /\ Task = 1 .. Cardinality(Task)
    /\ IsFiniteSet(Trial) /\ Cardinality(Trial) \in Nat \ {0} /\ Trial = 1 .. Cardinality(Trial)
  <1>1. Cardinality(Task) \in Nat /\ Cardinality(Trial) \in Nat
    BY CampaignAssumption, FS_CardinalityType
  <1>2. Cardinality(Task) # 0 /\ Cardinality(Trial) # 0
    BY CampaignAssumption, FS_EmptySet
  <1> QED
    BY <1>1, <1>2, CampaignAssumption

LEMMA Names ==
    /\ \A l \in Label, n \in Trial : TrialFile(l, n) \in File
    /\ \A l \in Label : SummaryFile(l) \in File
    /\ \A t \in Task : RecordingFile(t) \in File
    /\ \A l, k, n, m : TrialFile(l, n) = TrialFile(k, m) => l = k /\ n = m
    /\ \A l, k : SummaryFile(l) = SummaryFile(k) => l = k
    /\ \A t, u : RecordingFile(t) = RecordingFile(u) => t = u
    /\ \A l, k, n : TrialFile(l, n) # SummaryFile(k)
    /\ \A l, n, t : TrialFile(l, n) # RecordingFile(t)
    /\ \A l, t : SummaryFile(l) # RecordingFile(t)
  <1>1. ASSUME NEW l, NEW k, NEW n PROVE TrialFile(l, n) # SummaryFile(k)
    <2>1. TrialFile(l, n)[1] = "trial" /\ SummaryFile(k)[1] = "summary"
      BY DEF TrialFile, SummaryFile
    <2> QED
      BY <2>1
  <1>2. ASSUME NEW l, NEW t, NEW n PROVE TrialFile(l, n) # RecordingFile(t)
    <2>1. TrialFile(l, n)[1] = "trial" /\ RecordingFile(t)[1] = "recording"
      BY DEF TrialFile, RecordingFile
    <2> QED
      BY <2>1
  <1>3. ASSUME NEW l, NEW t PROVE SummaryFile(l) # RecordingFile(t)
    <2>1. SummaryFile(l)[1] = "summary" /\ RecordingFile(t)[1] = "recording"
      BY DEF SummaryFile, RecordingFile
    <2> QED
      BY <2>1
  <1>4. \A l, k, n, m : TrialFile(l, n) = TrialFile(k, m) => l = k /\ n = m
    BY DEF TrialFile
  <1>5. \A l, k : SummaryFile(l) = SummaryFile(k) => l = k
    BY DEF SummaryFile
  <1>6. \A t, u : RecordingFile(t) = RecordingFile(u) => t = u
    BY DEF RecordingFile
  <1>7. /\ \A l \in Label, n \in Trial : TrialFile(l, n) \in File
        /\ \A l \in Label : SummaryFile(l) \in File
        /\ \A t \in Task : RecordingFile(t) \in File
    BY DEF File
  <1> QED
    BY <1>1, <1>2, <1>3, <1>4, <1>5, <1>6, <1>7

\* What fits a name.
LEMMA FitsTrial ==
    ASSUME NEW l, NEW n, NEW v, Fits(TrialFile(l, n), v)
    PROVE  v \in TrialContent(n)
  BY Names DEF Fits

LEMMA FitsRecording ==
    ASSUME NEW t, NEW v, Fits(RecordingFile(t), v)
    PROVE  v \in RecordingContent
  BY Names DEF Fits

LEMMA Kinds ==
    /\ \A r \in TrialRec : r.is = "trial" /\ r # Absent /\ r # Torn
    /\ \A r \in RecordingRec : r.is = "recording" /\ r # Absent /\ r # Torn
    /\ \A r \in SummaryRec : r.is = "summary"
    /\ Absent.is = "absent" /\ Torn.is = "torn"
  <1>1. Absent.is = "absent" /\ Torn.is = "torn"
    BY DEF Absent, Torn
  <1>2. ASSUME NEW r \in TrialRec PROVE r.is = "trial"
    BY DEF TrialRec
  <1>3. ASSUME NEW r \in RecordingRec PROVE r.is = "recording"
    BY DEF RecordingRec
  <1>4. ASSUME NEW r \in SummaryRec PROVE r.is = "summary"
    BY DEF SummaryRec
  <1> QED
    BY <1>1, <1>2, <1>3, <1>4

LEMMA TrialsOnDisk ==
    ASSUME DiskSound, NEW l \in Label, NEW n \in Trial
    PROVE  disk[TrialFile(l, n)] \in TrialContent(n) \union {Absent, Torn}
  BY Names, FitsTrial DEF DiskSound

LEMMA RecordingsOnDisk ==
    ASSUME DiskSound, NEW t \in Task
    PROVE  disk[RecordingFile(t)] \in RecordingContent \union {Absent, Torn}
  BY Names, FitsRecording DEF DiskSound

-----------------------------------------------------------------------------
(* Files once what is held is saved.                                       *)

LEMMA AfterNone ==
    ASSUME NEW files, NEW f
    PROVE  After(files, <<>>, f) = files[f]
  BY DEF After

LEMMA AfterElse ==
    ASSUME NEW files, NEW saves, NEW f, \A j \in 1 .. Len(saves) : saves[j][1] # f
    PROVE  After(files, saves, f) = files[f]
  BY DEF After

Holds(saves, f, v) == \E j \in 1 .. Len(saves) : saves[j][1] = f /\ saves[j][2] = v

LEMMA AfterAt ==
    ASSUME NEW files, NEW saves, NEW f, NEW v, Apart(saves), Holds(saves, f, v)
    PROVE  After(files, saves, f) = v
  <1>1. PICK j \in 1 .. Len(saves) : saves[j][1] = f /\ saves[j][2] = v
    BY DEF Holds
  <1>2. PICK k : k = CHOOSE i \in 1 .. Len(saves) : saves[i][1] = f
    OBVIOUS
  <1>3. k \in 1 .. Len(saves) /\ saves[k][1] = f
    BY <1>1, <1>2
  <1>4. k = j
    BY <1>1, <1>3 DEF Apart
  <1>5. After(files, saves, f) = saves[k][2]
    BY <1>1, <1>2 DEF After
  <1> QED
    BY <1>1, <1>4, <1>5

\* Saving the first changes nothing of what the files will hold.
LEMMA AfterSave ==
    ASSUME NEW files, NEW S, NEW saves \in Seq(S), files = [f \in File |-> files[f]],
           saves # <<>>, Apart(saves), saves[1][1] \in File
    PROVE  /\ Apart(Tail(saves))
           /\ \A f \in File :
                After([files EXCEPT ![saves[1][1]] = saves[1][2]], Tail(saves), f)
                    = After(files, saves, f)
  <1>1. PICK rest : rest = Tail(saves)
    OBVIOUS
  <1>2. /\ Len(saves) \in Nat /\ Len(saves) >= 1 /\ Len(rest) = Len(saves) - 1
        /\ \A j \in 1 .. Len(rest) : rest[j] = saves[j + 1]
    <2>1. saves \in Seq(S) /\ saves # <<>>
      OBVIOUS
    <2>2. /\ Len(saves) \in Nat /\ Len(Tail(saves)) = Len(saves) - 1
          /\ \A j \in 1 .. Len(saves) - 1 : Tail(saves)[j] = saves[j + 1]
      BY ONLY <2>1
    <2>3. Len(saves) >= 1
      BY ONLY <2>1
    <2>4. /\ Len(rest) = Len(saves) - 1
          /\ \A j \in 1 .. Len(saves) - 1 : rest[j] = saves[j + 1]
      BY ONLY <1>1, <2>2, Zenon
    <2> QED
      BY ONLY <2>2, <2>3, <2>4
  <1>3. Apart(rest)
    <2>1. ASSUME NEW i \in 1 .. Len(rest), NEW j \in 1 .. Len(rest), rest[i][1] = rest[j][1]
          PROVE  i = j
      <3>1. PICK k, m : k = i + 1 /\ m = j + 1
        OBVIOUS
      <3>2. k \in 1 .. Len(saves) /\ m \in 1 .. Len(saves) /\ i = k - 1 /\ j = m - 1
        BY <1>2, <2>1, <3>1
      <3>3. saves[k][1] = saves[m][1]
        BY <1>2, <2>1, <3>1
      <3>4. k = m
        BY <3>2, <3>3 DEF Apart
      <3> QED
        BY ONLY <3>2, <3>4
    <2> QED
      BY <2>1 DEF Apart
  <1>4. PICK now : now = [files EXCEPT ![saves[1][1]] = saves[1][2]]
    OBVIOUS
  <1>5. \A f \in File : now[f] = IF f = saves[1][1] THEN saves[1][2] ELSE files[f]
    BY <1>4
  <1>6. 1 \in 1 .. Len(saves)
    BY <1>2
  <1>7. ASSUME NEW f \in File PROVE After(now, rest, f) = After(files, saves, f)
    <2>1. CASE f = saves[1][1]
      <3>1. After(files, saves, f) = saves[1][2]
        <4>1. Holds(saves, f, saves[1][2])
          BY <1>6, <2>1 DEF Holds
        <4> QED
          BY <4>1, AfterAt
      <3>2. ASSUME NEW j \in 1 .. Len(rest) PROVE rest[j][1] # f
        <4>1. j + 1 \in 1 .. Len(saves) /\ j + 1 # 1
          BY <1>2, <3>2
        <4> QED
          BY <1>2, <1>6, <2>1, <4>1 DEF Apart
      <3>3. After(now, rest, f) = now[f]
        BY <3>2, AfterElse
      <3> QED
        BY <1>5, <2>1, <3>1, <3>3
    <2>2. CASE \E j \in 1 .. Len(rest) : rest[j][1] = f
      <3>1. PICK j \in 1 .. Len(rest) : rest[j][1] = f
        BY <2>2
      <3>2. PICK k : k = j + 1
        OBVIOUS
      <3>3. k \in 1 .. Len(saves) /\ rest[j] = saves[k]
        BY <1>2, <3>2
      <3>4. Holds(rest, f, rest[j][2])
        BY <3>1 DEF Holds
      <3>5. Holds(saves, f, rest[j][2])
        BY <3>1, <3>3 DEF Holds
      <3> QED
        BY <1>3, <3>4, <3>5, AfterAt
    <2>3. CASE f # saves[1][1] /\ \A j \in 1 .. Len(rest) : rest[j][1] # f
      <3>1. ASSUME NEW j \in 1 .. Len(saves) PROVE saves[j][1] # f
        <4>1. CASE j = 1
          BY <2>3, <4>1
        <4>2. CASE j # 1
          <5>1. j - 1 \in 1 .. Len(rest) /\ rest[j - 1] = saves[(j - 1) + 1] /\ (j - 1) + 1 = j
            BY <1>2, <3>1, <4>2
          <5> QED
            BY <2>3, <5>1
        <4> QED
          BY <4>1, <4>2
      <3>2. After(files, saves, f) = files[f]
        BY <3>1, AfterElse
      <3>3. After(now, rest, f) = now[f]
        BY <2>3, AfterElse
      <3> QED
        BY <1>5, <2>3, <3>2, <3>3
    <2> QED
      BY <2>1, <2>2, <2>3
  <1> QED
    BY <1>1, <1>3, <1>4, <1>7

-----------------------------------------------------------------------------
(* Commands.                                                               *)

LEMMA LabelsSound ==
    ASSUME NEW labels \in Labels
    PROVE  /\ Len(labels) \in 1 .. 2
           /\ \A i \in 1 .. Len(labels) : labels[i] \in Label
           /\ \A i, j \in 1 .. Len(labels) : labels[i] = labels[j] => i = j
  BY DEF Labels, Label

\* What saving changes of a command.
LEMMA SavesOfRecord ==
    ASSUME NEW c \in RecordCommand, NEW s \in Seq(Write), NEW d, d = [c EXCEPT !.saves = s]
    PROVE  /\ d \in RecordCommand /\ d.saves = s
           /\ d.name = c.name /\ d.labels = c.labels /\ d.trials = c.trials /\ d.pc = c.pc
           /\ d.executors = c.executors /\ d.recorder = c.recorder /\ d.jobs = c.jobs
           /\ d.exit = c.exit
  BY DEF RecordCommand

LEMMA SavesOfReplay ==
    ASSUME NEW c \in ReplayCommand, NEW s \in Seq(Write), NEW d, d = [c EXCEPT !.saves = s]
    PROVE  /\ d \in ReplayCommand /\ d.saves = s
           /\ d.name = c.name /\ d.labels = c.labels /\ d.trials = c.trials /\ d.pc = c.pc
           /\ d.executors = c.executors /\ d.recorder = c.recorder /\ d.used = c.used
           /\ d.records = c.records /\ d.round = c.round /\ d.turn = c.turn /\ d.exit = c.exit
  BY DEF ReplayCommand

LEMMA SavesOfSummarize ==
    ASSUME NEW c \in SummarizeCommand, NEW s \in Seq(Write), NEW d, d = [c EXCEPT !.saves = s]
    PROVE  /\ d \in SummarizeCommand /\ d.saves = s
           /\ d.name = c.name /\ d.labels = c.labels /\ d.trials = c.trials /\ d.pc = c.pc
           /\ d.recorder = c.recorder /\ d.exit = c.exit
  BY DEF SummarizeCommand

\* What all commands have in common.
LEMMA CommandFields ==
    ASSUME CommandSound
    PROVE  /\ command.saves \in Seq(Write)
           /\ \A i \in 1 .. Len(command.labels) : command.labels[i] \in Label
           /\ Apart(command.saves) /\ last = NoneYet
  <1>1. CASE RecordSound
    <2>1. command.saves \in Seq(Write) /\ command.labels = <<"real">>
      BY <1>1 DEF RecordSound, RecordCommand
    <2> QED
      BY <2>1 DEF Label, CommandSound
  <1>2. CASE ReplaySound
    <2>1. command.saves \in Seq(Write) /\ command.labels \in Labels
      BY <1>2 DEF ReplaySound, ReplayCommand
    <2> QED
      BY <2>1, LabelsSound DEF CommandSound
  <1>3. CASE command \in SummarizeCommand
    <2>1. command.saves \in Seq(Write)
      BY <1>3 DEF SummarizeCommand
    <2>2. PICK l \in Label : command.labels = <<l>>
      BY <1>3 DEF SummarizeCommand
    <2> QED
      BY <2>1, <2>2 DEF CommandSound
  <1> QED
    BY <1>1, <1>2, <1>3 DEF CommandSound

LEMMA Writes ==
    ASSUME NEW w \in Write
    PROVE  w[1] \in File /\ Fits(w[1], w[2]) /\ w = <<w[1], w[2]>>
  BY DEF Write

LEMMA Wrote ==
    ASSUME NEW f \in File, NEW v \in TrialRec \union RecordingRec \union SummaryRec, Fits(f, v)
    PROVE  <<f, v>> \in Write
  BY DEF Write

\* A summary is as current as before while the trials of its label are.
LEMMA CurrentKept ==
    ASSUME NEW name, NEW l, NEW s,
           s.is = "summary" => s.trials \subseteq Trial,
           \A n \in Trial : disk'[TrialFile(l, n)] = disk[TrialFile(l, n)],
           Current(name, l, s)
    PROVE  Current(name, l, s)'
  <1>1. s.is = "summary" /\ s.trials \subseteq Trial
    BY DEF Current
  <1>2. {disk'[TrialFile(l, n)] : n \in s.trials} = {disk[TrialFile(l, n)] : n \in s.trials}
    BY <1>1
  <1>3. {disk'[TrialFile(l, n)] : n \in Trial} = {disk[TrialFile(l, n)] : n \in Trial}
    OBVIOUS
  <1>4. TrialFiles(l)' = TrialFiles(l)
    BY <1>3 DEF TrialFiles
  <1>5. Loads(l)' <=> Loads(l)
    BY <1>4 DEF Loads
  <1> QED
    BY <1>1, <1>2, <1>4, <1>5 DEF Current

\* No recording made in process stops at the cap.
LEMMA Playable ==
    ASSUME DiskSound', NEW t \in Task, disk'[RecordingFile(t)].is = "recording",
           disk'[RecordingFile(t)].executor = "sequential"
    PROVE  disk'[RecordingFile(t)].outcome # "capped"
  <1>1. RecordingFile(t) \in File
    BY Names
  <1>2. disk'[RecordingFile(t)] \notin {Absent, Torn}
    BY Kinds
  <1>3. disk'[RecordingFile(t)] \in RecordingContent
    BY <1>1, <1>2, FitsRecording DEF DiskSound
  <1> QED
    BY <1>3 DEF RecordingContent

\* Only a command that exits 0 leaves anything to say.
LEMMA Silent ==
    ASSUME DiskSound', last'.exit # "0"
    PROVE  LastSound'
  <1>1. ASSUME NEW t \in Task, disk'[RecordingFile(t)].is = "recording",
               disk'[RecordingFile(t)].executor = "sequential"
        PROVE  disk'[RecordingFile(t)].outcome # "capped"
    BY <1>1, Playable
  <1>2. RecordingsAreWhole'
    BY <1>1 DEF RecordingsAreWhole
  <1> QED
    BY <1>2 DEF LastSound, ExitZeroMeansCurrent, PassedReplaysAgree, ComparedRunsDifferAsDeclared

-----------------------------------------------------------------------------
(* Save.                                                                   *)

\* Nothing is said of a command that its saving could change.
LEMMA SavedCommand ==
    ASSUME CommandSound, command # Idle, command.saves # <<>>,
           command' = [command EXCEPT !.saves = Tail(@)]
    PROVE  /\ command'.saves = Tail(command.saves) /\ command'.name = command.name
           /\ command'.labels = command.labels /\ command'.pc = command.pc
           /\ Tail(command.saves) \in Seq(Write) /\ command.saves[1] \in Write
           /\ Len(Tail(command.saves)) = Len(command.saves) - 1 /\ Len(command.saves) \in Nat
           /\ \A j \in 1 .. Len(command.saves) - 1 : Tail(command.saves)[j] = command.saves[j + 1]
  <1>1. command.saves \in Seq(Write)
    BY CommandFields
  <1>2. PICK s : s = command.saves
    OBVIOUS
  <1>3. s \in Seq(Write) /\ s # <<>>
    BY <1>1, <1>2
  <1>4. /\ Tail(s) \in Seq(Write) /\ s[1] \in Write
        /\ Len(Tail(s)) = Len(s) - 1 /\ Len(s) \in Nat
        /\ \A j \in 1 .. Len(s) - 1 : Tail(s)[j] = s[j + 1]
    BY ONLY <1>3
  <1>5. command' = [command EXCEPT !.saves = Tail(s)]
    BY <1>2
  <1>6. /\ command'.saves = Tail(s) /\ command'.name = command.name
        /\ command'.labels = command.labels /\ command'.pc = command.pc
    <2>1. CASE RecordSound
      <3>1. command \in RecordCommand
        BY <2>1 DEF RecordSound
      <3> QED
        BY ONLY <1>4, <1>5, <3>1, SavesOfRecord
    <2>2. CASE ReplaySound
      <3>1. command \in ReplayCommand
        BY <2>2 DEF ReplaySound
      <3> QED
        BY ONLY <1>4, <1>5, <3>1, SavesOfReplay
    <2>3. CASE command \in SummarizeCommand
      BY ONLY <1>4, <1>5, <2>3, SavesOfSummarize
    <2> QED
      BY <2>1, <2>2, <2>3 DEF CommandSound
  <1> QED
    BY <1>2, <1>4, <1>6

LEMMA SaveContent ==
    ASSUME DiskSound, CommandSound, Save
    PROVE  /\ Apart(command'.saves)
           /\ \A f \in File : Content(f)' = Content(f)
  <1>1. command # Idle /\ command.saves # <<>> /\ command' = [command EXCEPT !.saves = Tail(@)]
    BY DEF Save
  <1>2. command'.saves = Tail(command.saves) /\ command.saves[1] \in Write
    BY <1>1, SavedCommand
  <1>3. command.saves[1][1] \in File
    BY <1>2, Writes
  <1>4. command.saves \in Seq(Write) /\ Apart(command.saves)
    BY CommandFields
  <1>5. disk = [f \in File |-> disk[f]]
    BY DEF DiskSound
  <1>6. /\ Apart(Tail(command.saves))
        /\ \A f \in File :
             After([disk EXCEPT ![command.saves[1][1]] = command.saves[1][2]], Tail(command.saves), f)
                 = After(disk, command.saves, f)
    BY <1>1, <1>3, <1>4, <1>5, AfterSave
  <1>7. disk' = [disk EXCEPT ![command.saves[1][1]] = command.saves[1][2]]
    BY DEF Save
  <1> QED
    BY <1>2, <1>6, <1>7 DEF Content

LEMMA SaveDisk ==
    ASSUME DiskSound, CommandSound, Save
    PROVE  /\ DiskSound'
           /\ \A f \in File : f # command.saves[1][1] => disk'[f] = disk[f]
  <1>1. command # Idle /\ command.saves # <<>> /\ command' = [command EXCEPT !.saves = Tail(@)]
    BY DEF Save
  <1>2. command.saves[1] \in Write
    BY <1>1, SavedCommand
  <1>3. command.saves[1][1] \in File /\ Fits(command.saves[1][1], command.saves[1][2])
    BY <1>2, Writes
  <1>4. disk' = [disk EXCEPT ![command.saves[1][1]] = command.saves[1][2]]
    BY DEF Save
  <1>5. disk = [f \in File |-> disk[f]] /\ \A f \in File : disk[f] \in {Absent, Torn} \/ Fits(f, disk[f])
    BY DEF DiskSound
  <1>6. disk' = [f \in File |-> disk'[f]]
    BY <1>4, <1>5
  <1>7. \A f \in File : disk'[f] = IF f = command.saves[1][1] THEN command.saves[1][2] ELSE disk[f]
    BY <1>4, <1>5
  <1>8. \A f \in File : disk'[f] \in {Absent, Torn} \/ Fits(f, disk'[f])
    BY <1>3, <1>5, <1>7
  <1> QED
    BY <1>6, <1>7, <1>8 DEF DiskSound

LEMMA SummaryFits ==
    ASSUME NEW l, NEW v, Fits(SummaryFile(l), v)
    PROVE  v \in SummaryRec
  BY Names DEF Fits

\* What a summary file holds, or is to hold, names trials.
LEMMA SummaryContent ==
    ASSUME DiskSound, CommandSound, NEW l \in Label
    PROVE  Content(SummaryFile(l)) \in SummaryRec \union {Absent, Torn}
  <1>1. SummaryFile(l) \in File
    BY Names
  <1>2. CASE \A j \in 1 .. Len(command.saves) : command.saves[j][1] # SummaryFile(l)
    <2>1. Content(SummaryFile(l)) = disk[SummaryFile(l)]
      BY <1>2, AfterElse DEF Content
    <2> QED
      BY <1>1, <2>1, SummaryFits DEF DiskSound
  <1>3. CASE \E j \in 1 .. Len(command.saves) : command.saves[j][1] = SummaryFile(l)
    <2>1. PICK j \in 1 .. Len(command.saves) : command.saves[j][1] = SummaryFile(l)
      BY <1>3
    <2>2. command.saves \in Seq(Write) /\ Apart(command.saves)
      BY CommandFields
    <2>3. command.saves[j] \in Write
      BY <2>1, <2>2
    <2>4. Fits(SummaryFile(l), command.saves[j][2])
      BY <2>1, <2>3, Writes
    <2>5. Holds(command.saves, SummaryFile(l), command.saves[j][2])
      BY <2>1 DEF Holds
    <2>6. Content(SummaryFile(l)) = command.saves[j][2]
      BY <2>2, <2>5, AfterAt DEF Content
    <2> QED
      BY <2>4, <2>6, SummaryFits
  <1> QED
    BY <1>2, <1>3

LEMMA SummaryTrials ==
    ASSUME DiskSound, CommandSound, NEW l \in Label, Content(SummaryFile(l)).is = "summary"
    PROVE  Content(SummaryFile(l)).trials \subseteq Trial
  <1>1. Content(SummaryFile(l)) \in SummaryRec
    BY SummaryContent, Kinds
  <1> QED
    BY <1>1 DEF SummaryRec

LEMMA SaveSummaries ==
    ASSUME DiskSound, CommandSound, Save
    PROVE  SummariesSound'
  <1>1. /\ command'.saves = Tail(command.saves) /\ command'.name = command.name
        /\ command'.labels = command.labels /\ command'.pc = command.pc
        /\ Len(Tail(command.saves)) = Len(command.saves) - 1 /\ Len(command.saves) \in Nat
        /\ \A j \in 1 .. Len(command.saves) - 1 : Tail(command.saves)[j] = command.saves[j + 1]
    BY SavedCommand DEF Save
  <1> SUFFICES ASSUME command'.pc = "exit"
               PROVE  /\ \A j \in 1 .. Len(command'.saves) :
                            \E l \in Label : command'.saves[j][1] = SummaryFile(l)
                      /\ \A i \in 1 .. Len(command'.labels) :
                            Current(command.name, command.labels[i],
                                    Content(SummaryFile(command.labels[i])))'
    BY DEF SummariesSound
  <1>2. /\ \A j \in 1 .. Len(command.saves) : \E l \in Label : command.saves[j][1] = SummaryFile(l)
        /\ \A i \in 1 .. Len(command.labels) :
             Current(command.name, command.labels[i], Content(SummaryFile(command.labels[i])))
    BY <1>1 DEF CommandSound, SummariesSound
  <1>3. ASSUME NEW j \in 1 .. Len(command'.saves)
        PROVE  \E l \in Label : command'.saves[j][1] = SummaryFile(l)
    <2>1. j + 1 \in 1 .. Len(command.saves) /\ command'.saves[j] = command.saves[j + 1]
      BY <1>1, <1>3
    <2> QED
      BY <1>2, <2>1
  <1>4. \A l \in Label, n \in Trial : disk'[TrialFile(l, n)] = disk[TrialFile(l, n)]
    <2>1. 1 \in 1 .. Len(command.saves)
      BY <1>1, CommandFields DEF Save
    <2>2. PICK k \in Label : command.saves[1][1] = SummaryFile(k)
      BY <1>2, <2>1
    <2> QED
      BY <2>2, Names, SaveDisk
  <1>5. ASSUME NEW i \in 1 .. Len(command'.labels)
        PROVE  Current(command.name, command.labels[i], Content(SummaryFile(command.labels[i])))'
    <2>1. PICK l : l = command.labels[i]
      OBVIOUS
    <2>2. PICK s : s = Content(SummaryFile(l))
      OBVIOUS
    <2>3. l \in Label /\ Current(command.name, l, s)
      BY <1>1, <1>2, <1>5, <2>1, <2>2, CommandFields
    <2>4. s.is = "summary" => s.trials \subseteq Trial
      BY <2>2, <2>3, SummaryTrials
    <2>5. PICK name : name = command.name
      OBVIOUS
    <2>6. Current(name, l, s)'
      BY <1>4, <2>3, <2>4, <2>5, CurrentKept
    <2>7. SummaryFile(l) \in File
      BY <2>3, Names
    <2>8. Content(SummaryFile(l))' = s
      BY <2>2, <2>7, SaveContent
    <2>9. command'.name = name /\ command'.labels[i] = l
      BY <1>1, <2>1, <2>5
    <2> QED
      BY <2>6, <2>8, <2>9 DEF Current
  <1> QED
    BY <1>3, <1>5

LEMMA SaveRecord ==
    ASSUME DiskSound, CommandSound, Save, RecordSound
    PROVE  RecordSound'
  <1>1. command \in RecordCommand
    BY DEF RecordSound
  <1>2. PICK s \in Seq(Write) : command' = [command EXCEPT !.saves = s]
    BY SavedCommand DEF Save
  <1>3. /\ command' \in RecordCommand
        /\ command'.trials = command.trials /\ command'.pc = command.pc
        /\ command'.executors = command.executors /\ command'.recorder = command.recorder
        /\ command'.jobs = command.jobs /\ command'.exit = command.exit
    BY ONLY <1>1, <1>2, SavesOfRecord
  <1>4. session' = session
    BY DEF Save
  <1>5. \A f \in File : Content(f)' = Content(f)
    BY SaveContent
  <1>6. \A t \in Task : Content(RecordingFile(t))' = Content(RecordingFile(t))
    BY <1>5, Names
  <1>7. JobsRecorded'
    BY <1>3, <1>4, <1>6 DEF RecordSound, JobsRecorded
  <1>8. RecordedFile' = RecordedFile /\ Content(RecordedFile)' = Content(RecordedFile)
    <2>1. PICK n \in Trial : command.trials = {n}
      BY <1>1 DEF RecordCommand
    <2>2. RecordedFile = TrialFile("real", n) /\ RecordedFile' = TrialFile("real", n)
      BY <1>3, <2>1 DEF RecordedFile
    <2>3. TrialFile("real", n) \in File
      BY Names DEF Label
    <2> QED
      BY <1>5, <2>2, <2>3
  <1> QED
    BY <1>3, <1>7, <1>8 DEF RecordSound

LEMMA SaveReplay ==
    ASSUME DiskSound, CommandSound, Save, ReplaySound
    PROVE  ReplaySound'
  <1>1. command \in ReplayCommand
    BY DEF ReplaySound
  <1>2. PICK s \in Seq(Write) : command' = [command EXCEPT !.saves = s]
    BY SavedCommand DEF Save
  <1>3. /\ command' \in ReplayCommand
        /\ command'.labels = command.labels
        /\ command'.trials = command.trials /\ command'.pc = command.pc
        /\ command'.executors = command.executors /\ command'.used = command.used
        /\ command'.records = command.records /\ command'.round = command.round
        /\ command'.turn = command.turn /\ command'.exit = command.exit
    BY ONLY <1>1, <1>2, SavesOfReplay
  <1>4. session' = session
    BY DEF Save
  <1>5. \A i : Done(i)' = Done(i)
    BY <1>3 DEF Done
  <1>6. ASSUME NEW i \in 1 .. Len(command.labels), NEW r \in command.records[i]
        PROVE  Own(r, i)'
    <2>1. Own(r, i)
      BY <1>6 DEF ReplaySound
    <2>2. TrialFile(command.labels[i], r.trial) \in File
      <3>1. command.labels[i] \in Label
        BY <1>6, CommandFields
      <3>2. Len(command.records) = Len(command.labels)
        BY DEF ReplaySound
      <3>3. command.records \in Seq(SUBSET TrialRec)
        BY <1>1 DEF ReplayCommand
      <3>4. r \in TrialRec
        BY <1>6, <3>2, <3>3
      <3> QED
        BY <3>1, <3>4, Names DEF TrialRec
    <2>3. Content(TrialFile(command.labels[i], r.trial))' = Content(TrialFile(command.labels[i], r.trial))
      BY <1>3, <2>2, SaveContent
    <2> QED
      BY <1>3, <1>4, <2>1, <2>3 DEF Own
  <1>7. \A i \in 1 .. Len(command.labels) :
          /\ {r.trial : r \in command.records[i]} = Done(i)
          /\ \A r \in command.records[i] : Own(r, i)'
    BY <1>6 DEF ReplaySound
  <1>8. Passed(command.records)' <=> Passed(command.records)
    BY <1>3 DEF Passed, OutcomesMatch, ReplayPassed, Summarize, Complete
  <1>9. /\ Len(command'.records) = Len(command'.labels)
        /\ Len(command'.executors) = Len(command'.labels)
        /\ command'.round \in 1 .. Cardinality(command'.trials) + 1
        /\ command'.turn \in 1 .. Len(command'.labels)
        /\ command'.pc = "trials" <=> command'.round <= Cardinality(command'.trials)
        /\ command'.pc # "trials" => command'.turn = 1
        /\ command'.exit = "0" => command'.pc = "exit" /\ Passed(command.records)
    BY <1>3 DEF ReplaySound
  <1>10. \A i \in 1 .. Len(command'.labels) :
          /\ {r.trial : r \in command'.records[i]} = Done(i)'
          /\ \A r \in command'.records[i] : Own(r, i)'
    BY <1>3, <1>5, <1>7
  <1> QED
    BY <1>3, <1>8, <1>9, <1>10 DEF ReplaySound

LEMMA SaveKeeps ==
    ASSUME CampaignInv, Save
    PROVE  CampaignInv'
  <1>1. session \in Nat /\ session' = session /\ DiskSound /\ CommandSound /\ last' = last
    BY DEF Save, CampaignInv
  <1>2. last = NoneYet
    BY <1>1 DEF CommandSound
  <1>3. DiskSound'
    BY <1>1, SaveDisk
  <1>4. LastSound'
    BY <1>1, <1>2, <1>3, Silent DEF NoneYet
  <1>5. CASE RecordSound
    BY <1>1, <1>2, <1>3, <1>4, <1>5, SaveRecord, SaveSummaries, SaveContent DEF CommandSound, CampaignInv
  <1>6. CASE ReplaySound
    BY <1>1, <1>2, <1>3, <1>4, <1>6, SaveReplay, SaveSummaries, SaveContent DEF CommandSound, CampaignInv
  <1>7. CASE command \in SummarizeCommand
    <2>1. PICK s \in Seq(Write) : command' = [command EXCEPT !.saves = s]
      BY <1>1, SavedCommand DEF Save
    <2>2. command' \in SummarizeCommand
      BY ONLY <1>7, <2>1, SavesOfSummarize
    <2> QED
      BY <1>1, <1>2, <1>3, <1>4, <2>2, SaveSummaries, SaveContent DEF CommandSound, CampaignInv
  <1> QED
    BY <1>1, <1>5, <1>6, <1>7 DEF CommandSound

-----------------------------------------------------------------------------
(* Summaries.                                                              *)

LEMMA SummarizeFields ==
    ASSUME NEW S
    PROVE  /\ Summarize(S).is = "summary"
           /\ Summarize(S).trials = {t.trial : t \in Complete(S)}
           /\ Summarize(S).interrupted_trials = {t.trial : t \in S \ Complete(S)}
           /\ Summarize(S).outcomes_identical <=> \A t, u \in Complete(S) : t.jobs = u.jobs
           /\ Summarize(S).failed_harness <=>
                \E t \in Complete(S) : \E j \in DOMAIN t.jobs : t.jobs[j] = "diverged"
  BY DEF Summarize

LEMMA SummarizeType ==
    ASSUME NEW S \in SUBSET TrialRec, Complete(S) # {}
    PROVE  Summarize(S) \in SummaryRec
  <1>1. Complete(S) \subseteq S
    BY DEF Complete
  <1>2. PICK t : t = CHOOSE u \in Complete(S) : TRUE
    OBVIOUS
  <1>3. t \in TrialRec
    BY <1>1, <1>2
  <1>4. t.config \in Config /\ \A u \in S : u.trial \in Trial
    BY <1>3 DEF TrialRec
  <1>5. {u.trial : u \in Complete(S)} \in SUBSET Trial
    BY <1>1, <1>4
  <1>6. {u.trial : u \in S \ Complete(S)} \in SUBSET Trial
    BY <1>4
  <1>7. Summarize(S) =
          [is |-> "summary",
           trials |-> {u.trial : u \in Complete(S)},
           interrupted_trials |-> {u.trial : u \in S \ Complete(S)},
           config |-> t.config,
           outcomes_identical |-> \A u, v \in Complete(S) : u.jobs = v.jobs,
           failed_harness |-> \E u \in Complete(S) : \E j \in DOMAIN u.jobs : u.jobs[j] = "diverged"]
    BY <1>2 DEF Summarize
  <1>8. (\A u, v \in Complete(S) : u.jobs = v.jobs) \in BOOLEAN
    OBVIOUS
  <1>9. (\E u \in Complete(S) : \E j \in DOMAIN u.jobs : u.jobs[j] = "diverged") \in BOOLEAN
    OBVIOUS
  <1> QED
    BY <1>4, <1>5, <1>6, <1>7, <1>8, <1>9 DEF SummaryRec

\* A summary is the one of its complete trials, but for the trials cut short.
LEMMA SummaryOfComplete ==
    ASSUME NEW S
    PROVE  Summarize(S) =
             [Summarize(Complete(S)) EXCEPT !.interrupted_trials = Summarize(S).interrupted_trials]
  <1>1. Complete(Complete(S)) = Complete(S)
    BY DEF Complete
  <1>2. PICK C : C = Complete(S)
    OBVIOUS
  <1>3. Complete(C) = C
    BY <1>1, <1>2
  <1>4. PICK same \in BOOLEAN : same = \A t, u \in C : t.jobs = u.jobs
    OBVIOUS
  <1>5. PICK failed \in BOOLEAN :
           failed = \E t \in C : \E j \in DOMAIN t.jobs : t.jobs[j] = "diverged"
    OBVIOUS
  <1> DEFINE R(interrupted) ==
               [is |-> "summary",
                trials |-> {t.trial : t \in C},
                interrupted_trials |-> interrupted,
                config |-> (CHOOSE t \in C : TRUE).config,
                outcomes_identical |-> same,
                failed_harness |-> failed]
  <1>6. Summarize(S) = R({t.trial : t \in S \ C})
    BY ONLY <1>2, <1>4, <1>5 DEF Summarize
  <1>7. Summarize(C) = R({t.trial : t \in C \ C})
    BY ONLY <1>3, <1>4, <1>5 DEF Summarize
  <1>8. ASSUME NEW x, NEW y
        PROVE  R(x) = [R(y) EXCEPT !.interrupted_trials = x] /\ R(x).interrupted_trials = x
    <2>1. PICK tr : tr = {t.trial : t \in C}
      OBVIOUS
    <2>2. PICK cf : cf = (CHOOSE t \in C : TRUE).config
      OBVIOUS
    <2>3. \A z : R(z) = [is |-> "summary", trials |-> tr, interrupted_trials |-> z, config |-> cf,
                         outcomes_identical |-> same, failed_harness |-> failed]
      BY ONLY <2>1, <2>2
    <2> HIDE DEF R
    <2> QED
      BY ONLY <2>3
  <1> HIDE DEF R
  <1>9. PICK x, y : x = {t.trial : t \in S \ C} /\ y = {t.trial : t \in C \ C}
    OBVIOUS
  <1>10. Summarize(S) = R(x) /\ Summarize(C) = R(y)
    BY ONLY <1>6, <1>7, <1>9
  <1>11. R(x) = [R(y) EXCEPT !.interrupted_trials = x] /\ R(x).interrupted_trials = x
    BY ONLY <1>8
  <1> QED
    BY ONLY <1>2, <1>10, <1>11

LEMMA NamedOnDisk ==
    ASSUME NEW S, NEW l, \A t \in Complete(S) : disk[TrialFile(l, t.trial)] = t
    PROVE  {disk[TrialFile(l, n)] : n \in Summarize(S).trials} = Complete(S)
  <1>1. Summarize(S).trials = {t.trial : t \in Complete(S)}
    BY SummarizeFields
  <1>2. ASSUME NEW t \in Complete(S) PROVE t \in {disk[TrialFile(l, n)] : n \in Summarize(S).trials}
    BY <1>1, <1>2
  <1>3. ASSUME NEW n \in Summarize(S).trials PROVE disk[TrialFile(l, n)] \in Complete(S)
    BY <1>1, <1>3
  <1> QED
    BY <1>2, <1>3

LEMMA SummaryCurrent ==
    ASSUME NEW S, NEW l, NEW name,
           \A t \in Complete(S) : disk[TrialFile(l, t.trial)] = t,
           Complete(S) \subseteq TrialRec,
           name # "replay" => S = TrialFiles(l) /\ Loads(l)
    PROVE  Current(name, l, Summarize(S))
  <1>1. {disk[TrialFile(l, n)] : n \in Summarize(S).trials} = Complete(S)
    BY NamedOnDisk
  <1>2. Torn \notin Complete(S) /\ Absent \notin Complete(S)
    BY Kinds
  <1>3. Summarize(S).is = "summary" /\ Summarize(S).trials = {t.trial : t \in Complete(S)}
    BY SummarizeFields
  <1>4. Summarize(S) =
          [Summarize(Complete(S)) EXCEPT !.interrupted_trials = Summarize(S).interrupted_trials]
    BY SummaryOfComplete
  <1> QED
    BY <1>1, <1>2, <1>3, <1>4 DEF Current

LEMMA TrialFilesLoaded ==
    ASSUME DiskSound, NEW l \in Label, Loads(l)
    PROVE  /\ TrialFiles(l) \subseteq TrialRec
           /\ \A t \in TrialFiles(l) : t.trial \in Trial /\ disk[TrialFile(l, t.trial)] = t
  <1>1. ASSUME NEW t \in TrialFiles(l)
        PROVE  t \in TrialRec /\ t.trial \in Trial /\ disk[TrialFile(l, t.trial)] = t
    <2>1. PICK n \in Trial : t = disk[TrialFile(l, n)]
      BY <1>1 DEF TrialFiles
    <2>2. t # Absent /\ t # Torn
      BY <1>1 DEF TrialFiles, Loads
    <2>3. t \in TrialContent(n)
      BY <2>1, <2>2, TrialsOnDisk
    <2> QED
      BY <2>1, <2>3 DEF TrialContent
  <1> QED
    BY <1>1

LEMMA LabelCurrent ==
    ASSUME DiskSound, NEW l \in Label, CanSummarize(l), NEW name
    PROVE  Current(name, l, Summarize(TrialFiles(l))) /\ Summarize(TrialFiles(l)) \in SummaryRec
  <1>1. Loads(l) /\ Complete(TrialFiles(l)) # {}
    BY DEF CanSummarize
  <1>2. Complete(TrialFiles(l)) \subseteq TrialFiles(l)
    BY DEF Complete
  <1>3. /\ TrialFiles(l) \subseteq TrialRec
        /\ \A t \in TrialFiles(l) : disk[TrialFile(l, t.trial)] = t
    BY <1>1, TrialFilesLoaded
  <1>4. Summarize(TrialFiles(l)) \in SummaryRec
    BY <1>1, <1>3, SummarizeType
  <1>5. Current(name, l, Summarize(TrialFiles(l)))
    <2>1. PICK S : S = TrialFiles(l)
      OBVIOUS
    <2>2. /\ \A t \in Complete(S) : disk[TrialFile(l, t.trial)] = t
          /\ Complete(S) \subseteq TrialRec
          /\ S = TrialFiles(l) /\ Loads(l)
      BY <1>1, <1>2, <1>3, <2>1
    <2>3. Current(name, l, Summarize(S))
      BY <2>2, SummaryCurrent
    <2> QED
      BY <2>1, <2>3
  <1> QED
    BY <1>4, <1>5

-----------------------------------------------------------------------------
(* Ways to begin and to end.                                               *)

LEMMA DiskKept ==
    ASSUME DiskSound, UNCHANGED disk
    PROVE  DiskSound'
  BY DEF DiskSound

\* A step that writes no file and leaves the command running.
LEMMA GoesOn ==
    ASSUME CampaignInv, UNCHANGED disk, session' \in Nat, last' = NoneYet,
           Apart(command'.saves), SummariesSound',
           RecordSound' \/ ReplaySound' \/ command' \in SummarizeCommand
    PROVE  CampaignInv'
  <1>1. DiskSound'
    BY DiskKept DEF CampaignInv
  <1>2. last'.exit # "0"
    BY DEF NoneYet
  <1>3. LastSound'
    BY <1>1, <1>2, Silent
  <1>4. CommandSound'
    BY DEF CommandSound
  <1> QED
    BY <1>1, <1>3, <1>4 DEF CampaignInv

\* A step that leaves no command running, and no success to account for.
LEMMA Stops ==
    ASSUME session' \in Nat, DiskSound', command' = Idle, last'.exit # "0"
    PROVE  CampaignInv'
  BY Silent DEF CampaignInv

LEMMA ApartNone == Apart(<<>>)
  BY DEF Apart

LEMMA RecordKeeps ==
    ASSUME CampaignInv, NEW n \in Trial, NEW executor \in {"sequential", "fleet"},
           NEW writes \in BOOLEAN, Record(n, executor, writes)
    PROVE  CampaignInv'
  <1>1. PICK recorder \in {"nobody", executor} : recorder = IF writes THEN executor ELSE "nobody"
    OBVIOUS
  <1>2. /\ command' = [name |-> "record", labels |-> <<"real">>, trials |-> {n}, pc |-> "jobs",
                       executors |-> <<executor>>, recorder |-> recorder,
                       jobs |-> <<>>, saves |-> <<>>, exit |-> "none"]
        /\ UNCHANGED disk /\ session' = session + 1 /\ last' = NoneYet
    BY <1>1 DEF Record, Begin
  <1>3. command' \in RecordCommand
    <2>1. <<>> \in Seq(Outcome) /\ <<>> \in Seq(Write)
      OBVIOUS
    <2>2. {n} \in {{m} : m \in Trial}
      OBVIOUS
    <2>3. <<executor>> \in {<<"sequential">>, <<"fleet">>}
      OBVIOUS
    <2> QED
      BY <1>1, <1>2, <2>1, <2>2, <2>3 DEF RecordCommand
  <1>4. /\ command'.pc = "jobs" /\ command'.jobs = <<>> /\ command'.saves = <<>>
        /\ command'.recorder \in {"nobody", command'.executors[1]}
    BY <1>1, <1>2
  <1>5. 0 < Cardinality(Task)
    BY Sizes
  <1>6. JobsRecorded'
    BY <1>4 DEF JobsRecorded
  <1>7. RecordSound'
    BY <1>3, <1>4, <1>5, <1>6 DEF RecordSound
  <1>8. SummariesSound'
    BY <1>4 DEF SummariesSound
  <1>9. session' \in Nat
    BY <1>2 DEF CampaignInv
  <1> QED
    BY <1>2, <1>4, <1>7, <1>8, <1>9, ApartNone, GoesOn

\* A command that holds one summary, and is about to end.
LEMMA OneSummary ==
    ASSUME NEW l \in Label, NEW s \in SummaryRec, NEW name,
           command'.saves = <<<<SummaryFile(l), s>>>>, command'.labels = <<l>>,
           command'.name = name, Current(name, l, s), UNCHANGED disk
    PROVE  SummariesSound' /\ Apart(command'.saves)
  <1>1. Apart(command'.saves) /\ Holds(command'.saves, SummaryFile(l), s)
    BY DEF Apart, Holds
  <1>2. Content(SummaryFile(l))' = s
    BY <1>1, AfterAt DEF Content
  <1>3. Current(name, l, s)'
    <2>1. s.is = "summary" => s.trials \subseteq Trial
      BY DEF SummaryRec
    <2> QED
      BY <2>1, CurrentKept
  <1>4. \A j \in 1 .. Len(command'.saves) : command'.saves[j][1] = SummaryFile(l)
    OBVIOUS
  <1>5. ASSUME NEW i \in 1 .. Len(command'.labels)
        PROVE  Current(command.name, command.labels[i], Content(SummaryFile(command.labels[i])))'
    <2>1. command'.name = name /\ command'.labels[i] = l
      BY <1>5
    <2>2. Content(SummaryFile(command.labels[i]))' = s
      BY <1>2, <2>1
    <2> QED
      BY ONLY <1>3, <2>1, <2>2 DEF Current
  <1> QED
    BY <1>1, <1>4, <1>5 DEF SummariesSound

LEMMA SummaryWritten ==
    ASSUME NEW l \in Label, NEW s \in SummaryRec
    PROVE  <<SummaryFile(l), s>> \in Write /\ <<<<SummaryFile(l), s>>>> \in Seq(Write)
  <1>1. SummaryFile(l) \in File /\ Fits(SummaryFile(l), s)
    BY Names DEF Fits
  <1>2. PICK w \in Write : w = <<SummaryFile(l), s>>
    BY <1>1, Wrote
  <1>3. <<w>> \in Seq(Write)
    BY ONLY <1>2
  <1> QED
    BY <1>2, <1>3

LEMMA SummarizeLabelKeeps ==
    ASSUME CampaignInv, NEW l \in Label, SummarizeLabel(l)
    PROVE  CampaignInv'
  <1>1. PICK s \in SummaryRec : s = Summarize(TrialFiles(l)) /\ Current("summarize", l, s)
    BY LabelCurrent DEF SummarizeLabel, CampaignInv
  <1>2. PICK saves \in Seq(Write) : saves = <<<<SummaryFile(l), s>>>>
    BY SummaryWritten
  <1>3. /\ command' = [name |-> "summarize", labels |-> <<l>>, trials |-> {}, pc |-> "exit",
                       exit |-> "0", recorder |-> "nobody", saves |-> saves]
        /\ UNCHANGED disk /\ session' = session + 1 /\ last' = NoneYet
    BY <1>1, <1>2 DEF SummarizeLabel, Begin
  <1>4. command' \in SummarizeCommand
    BY ONLY <1>2, <1>3, l \in Label DEF SummarizeCommand
  <1>5. /\ command'.saves = <<<<SummaryFile(l), s>>>> /\ command'.name = "summarize"
        /\ command'.labels = <<l>>
    BY <1>2, <1>3
  <1>6. SummariesSound' /\ Apart(command'.saves)
    BY <1>1, <1>3, <1>5, OneSummary
  <1>7. session' \in Nat
    BY <1>3 DEF CampaignInv
  <1> QED
    BY <1>3, <1>4, <1>6, <1>7, GoesOn

LEMMA RefusedKeeps ==
    ASSUME CampaignInv, NEW name, Refused(name)
    PROVE  CampaignInv'
  <1>1. DiskSound' /\ session' \in Nat /\ command' = Idle
    BY DiskKept DEF Refused, CampaignInv
  <1>2. last'.exit = "raised"
    BY DEF Refused, NoneYet
  <1> QED
    BY <1>1, <1>2, Stops

LEMMA EndsKeeps ==
    ASSUME CampaignInv, DiskSound', NEW exit, exit # "0", Ends(exit), UNCHANGED session
    PROVE  CampaignInv'
  <1>1. command' = Idle /\ last'.exit # "0" /\ session' \in Nat
    BY DEF Ends, CampaignInv
  <1> QED
    BY <1>1, Stops

LEMMA FleetFailsKeeps ==
    ASSUME CampaignInv, FleetFails
    PROVE  CampaignInv'
  <1>1. Ends("raised") /\ UNCHANGED disk /\ UNCHANGED session
    BY DEF FleetFails
  <1> QED
    BY <1>1, DiskKept, EndsKeeps DEF CampaignInv

LEMMA CrashKeeps ==
    ASSUME CampaignInv, Crash
    PROVE  CampaignInv'
  <1>1. Ends("crashed") /\ UNCHANGED session /\ DiskSound
    BY DEF Crash, CampaignInv
  <1>2. CASE UNCHANGED disk
    BY <1>1, <1>2, DiskKept, EndsKeeps
  <1>3. ASSUME NEW f, disk' = [disk EXCEPT ![f] = Torn]
        PROVE  DiskSound'
    <2>1. \A g \in File : disk'[g] = IF g = f THEN Torn ELSE disk[g]
      BY <1>1, <1>3 DEF DiskSound
    <2>2. disk' = [g \in File |-> disk'[g]]
      BY <1>1, <1>3 DEF DiskSound
    <2> QED
      BY <1>1, <2>1, <2>2 DEF DiskSound
  <1> QED
    BY <1>1, <1>2, <1>3, EndsKeeps DEF Crash

LEMMA ArmsSound ==
    ASSUME NEW a \in ReplayArms \union AbArms \union ScaleArms
    PROVE  a[1] \in Labels /\ a[2] \in Seq(Executor) /\ Len(a[2]) = Len(a[1])
  <1>1. {"sequential", "fleet", "wide_fleet"} \subseteq Executor
    BY DEF Executor, Fleets
  <1>2. CASE a \in ReplayArms
    <2>1. PICK e \in {"sequential", "fleet"} : a = <<<<"replay">>, <<e>>>>
      BY <1>2 DEF ReplayArms
    <2>2. a[1] = <<"replay">> /\ a[2] = <<e>> /\ e \in Executor
      BY <1>1, <2>1
    <2>3. Len(a[1]) = 1 /\ Len(a[2]) = 1 /\ a[2] \in Seq(Executor)
      BY <2>2
    <2>4. <<"replay">> \in Labels
      BY DEF Labels
    <2> QED
      BY ONLY <2>2, <2>3, <2>4
  <1>3. CASE a \in AbArms
    <2>1. a[1] = <<"ab1", "ab2">> /\ a[2] = <<"sequential", "fleet">>
      BY <1>3 DEF AbArms
    <2>2. <<"ab1", "ab2">> \in Labels
      BY DEF Labels
    <2>3. Len(a[1]) = 2 /\ Len(a[2]) = 2 /\ a[2] \in Seq(Executor)
      BY <1>1, <2>1
    <2> QED
      BY ONLY <2>1, <2>2, <2>3
  <1>4. CASE a \in ScaleArms
    <2>1. a[1] = <<"scale1", "scale2">> /\ a[2] = <<"fleet", "wide_fleet">>
      BY <1>4 DEF ScaleArms
    <2>2. <<"scale1", "scale2">> \in Labels
      BY DEF Labels
    <2>3. Len(a[1]) = 2 /\ Len(a[2]) = 2 /\ a[2] \in Seq(Executor)
      BY <1>1, <2>1
    <2> QED
      BY ONLY <2>1, <2>2, <2>3
  <1> QED
    BY <1>2, <1>3, <1>4

LEMMA RoundsOfTrials ==
    ASSUME NEW n \in Trial
    PROVE  n \in Nat \ {0} /\ Cardinality(1 .. n) = n
  <1>1. n \in Nat \ {0}
    BY Sizes
  <1> QED
    BY <1>1, FS_Interval

LEMMA ReplayKeeps ==
    ASSUME CampaignInv, NEW a \in ReplayArms \union AbArms \union ScaleArms, NEW trials \in Trial,
           Replay(a[1], a[2], trials)
    PROVE  CampaignInv'
  <1>1. PICK labels, executors, used, records :
           /\ labels = a[1] /\ executors = a[2] /\ used = Recordings
           /\ records = [i \in 1 .. Len(labels) |-> {}]
    OBVIOUS
  <1>2. /\ command' = [name |-> "replay", labels |-> labels, trials |-> 1 .. trials, pc |-> "trials",
                       executors |-> executors, recorder |-> "nobody",
                       used |-> used, records |-> records,
                       round |-> 1, turn |-> 1, saves |-> <<>>, exit |-> "none"]
        /\ UNCHANGED disk /\ session' = session + 1 /\ last' = NoneYet
    BY <1>1 DEF Replay, Begin
  <1>3. labels \in Labels /\ executors \in Seq(Executor) /\ Len(executors) = Len(labels)
    BY <1>1, ArmsSound
  <1>4. Len(labels) \in 1 .. 2
    BY <1>3, LabelsSound
  <1>5. used \in [Task -> RecordingContent]
    <2>1. ASSUME NEW t \in Task PROVE disk[RecordingFile(t)] \in RecordingContent
      <3>1. disk[RecordingFile(t)].is = "recording"
        BY DEF Replay, Replayable, Recordings
      <3>2. disk[RecordingFile(t)] \in RecordingContent \union {Absent, Torn}
        BY RecordingsOnDisk DEF CampaignInv
      <3> QED
        BY <3>1, <3>2, Kinds
    <2> QED
      BY <1>1, <2>1 DEF Recordings
  <1>6. records \in Seq(SUBSET TrialRec) /\ Len(records) = Len(labels)
        /\ \A i \in 1 .. Len(labels) : records[i] = {}
    <2>1. \A i \in 1 .. Len(labels) : {} \in SUBSET TrialRec
      OBVIOUS
    <2> QED
      BY <1>1, <1>4, <2>1
  <1>7. command' \in ReplayCommand
    <2>1. PICK none \in Seq(Write) : none = <<>>
      <3>1. <<>> \in Seq(Write)
        OBVIOUS
      <3> QED
        BY <3>1
    <2>2. PICK over \in {1 .. n : n \in Trial} : over = 1 .. trials
      OBVIOUS
    <2>3. command' = [name |-> "replay", labels |-> labels, trials |-> over, pc |-> "trials",
                      executors |-> executors, recorder |-> "nobody",
                      used |-> used, records |-> records,
                      round |-> 1, turn |-> 1, saves |-> none, exit |-> "none"]
      BY <1>2, <2>1, <2>2
    <2> QED
      BY ONLY <1>3, <1>5, <1>6, <2>3 DEF ReplayCommand
  <1>8. /\ command'.labels = labels /\ command'.trials = 1 .. trials /\ command'.pc = "trials"
        /\ command'.executors = executors /\ command'.records = records /\ command'.round = 1
        /\ command'.turn = 1 /\ command'.saves = <<>> /\ command'.exit = "none"
    BY <1>2
  <1>9. trials \in Nat \ {0} /\ Cardinality(command'.trials) = trials
    BY <1>8, RoundsOfTrials
  <1>10. ASSUME NEW i \in 1 .. Len(labels) PROVE Done(i)' = {}
    <2>1. ASSUME NEW n \in 1 .. trials, n < 1 \/ (n = 1 /\ i < 1) PROVE FALSE
      BY <2>1
    <2>2. 1 % 2 = 1
      OBVIOUS
    <2>3. Done(i)' = {n \in 1 .. trials : n < 1 \/ (n = 1 /\ IF n % 2 = 1 THEN i < 1 ELSE i > Len(labels) + 1 - 1)}
      BY <1>8 DEF Done
    <2>4. \A n \in 1 .. trials : ~(n < 1 \/ (n = 1 /\ IF n % 2 = 1 THEN i < 1 ELSE i > Len(labels) + 1 - 1))
      BY <1>10, <2>2
    <2> QED
      BY <2>3, <2>4
  <1>11. \A i \in 1 .. Len(command'.labels) :
           /\ {r.trial : r \in command'.records[i]} = Done(i)'
           /\ \A r \in command'.records[i] : Own(r, i)'
    BY <1>6, <1>8, <1>10
  <1>12. /\ command'.round \in 1 .. Cardinality(command'.trials) + 1
         /\ command'.turn \in 1 .. Len(command'.labels)
         /\ command'.pc = "trials" <=> command'.round <= Cardinality(command'.trials)
         /\ command'.exit # "0" /\ Len(command'.records) = Len(command'.labels)
         /\ Len(command'.executors) = Len(command'.labels)
    BY <1>3, <1>4, <1>6, <1>8, <1>9
  <1>13. ReplaySound'
    BY <1>7, <1>8, <1>11, <1>12 DEF ReplaySound
  <1>14. SummariesSound'
    BY <1>8 DEF SummariesSound
  <1>15. session' \in Nat
    BY <1>2 DEF CampaignInv
  <1> QED
    BY <1>2, <1>8, <1>13, <1>14, <1>15, ApartNone, GoesOn

-----------------------------------------------------------------------------
(* record.                                                                 *)

LEMMA RecordingWritten ==
    ASSUME session \in Nat, command \in RecordCommand, NEW t \in Task, NEW outcome \in Outcome,
           command.recorder # "nobody", command.recorder = "sequential" => outcome # "capped"
    PROVE  /\ Recording(t, outcome) \in Write
           /\ Recording(t, outcome)[1] = RecordingFile(t)
           /\ Recording(t, outcome)[2].is = "recording"
           /\ Recording(t, outcome)[2].session = session
  <1>1. PICK r : r = [is |-> "recording", session |-> session,
                      executor |-> command.recorder, outcome |-> outcome]
    OBVIOUS
  <1>2. Recording(t, outcome) = <<RecordingFile(t), r>>
    BY <1>1 DEF Recording
  <1>3. command.recorder \in Executor
    BY DEF RecordCommand, Executor, Fleets
  <1>4. r \in RecordingRec
    BY <1>1, <1>3 DEF RecordingRec
  <1>5. r \in RecordingContent
    BY <1>1, <1>4 DEF RecordingContent
  <1>6. RecordingFile(t) \in File /\ Fits(RecordingFile(t), r)
    BY <1>5, Names DEF Fits
  <1>7. <<RecordingFile(t), r>> \in Write
    BY <1>4, <1>6, Wrote
  <1> QED
    BY <1>1, <1>2, <1>7

LEMMA RecordOwn ==
    ASSUME command \in RecordCommand
    PROVE  \E n \in Trial :
             /\ command.trials = {n} /\ RecordedFile = TrialFile("real", n)
             /\ RecordedFile \in File /\ \A t : RecordedFile # RecordingFile(t)
  <1>1. PICK n \in Trial : command.trials = {n}
    BY DEF RecordCommand
  <1>2. RecordedFile = TrialFile("real", n)
    BY <1>1 DEF RecordedFile
  <1>3. TrialFile("real", n) \in File
    BY Names DEF Label
  <1> QED
    BY <1>1, <1>2, <1>3, Names

LEMMA TrialWritten ==
    ASSUME session \in Nat, command \in RecordCommand, NEW jobs \in Seq(Outcome),
           NEW interrupted \in BOOLEAN, ~interrupted => Len(jobs) = Cardinality(Task)
    PROVE  /\ <<RecordedFile, Ran(jobs, interrupted)>> \in Write
           /\ Ran(jobs, interrupted).is = "trial" /\ Ran(jobs, interrupted).jobs = jobs
  <1>1. PICK n \in Trial : command.trials = {n} /\ RecordedFile = TrialFile("real", n)
    BY RecordOwn
  <1>2. PICK config : config = ConfigOf("real", command.executors[1], NoRecordings)
    OBVIOUS
  <1>3. command.executors[1] \in Executor
    BY DEF RecordCommand, Executor, Fleets
  <1>4. NoRecordings \in [Task -> RecordingRec \union {Absent}]
    BY DEF NoRecordings
  <1>5. config \in Config
    BY <1>2, <1>3, <1>4 DEF Config, ConfigOf
  <1>6. PICK r : r = [is |-> "trial", trial |-> n, session |-> session, config |-> config,
                      interrupted |-> interrupted, jobs |-> jobs]
    OBVIOUS
  <1>7. Ran(jobs, interrupted) = r
    BY <1>1, <1>2, <1>6 DEF Ran, TrialRecord
  <1>8. r \in TrialRec
    BY <1>5, <1>6 DEF TrialRec
  <1>9. r \in TrialContent(n)
    BY <1>6, <1>8 DEF TrialContent
  <1>10. "real" \in Label
    BY DEF Label
  <1>11. TrialFile("real", n) \in File /\ Fits(TrialFile("real", n), r)
    BY <1>9, <1>10, Names DEF Fits
  <1>12. <<TrialFile("real", n), r>> \in Write
    BY <1>8, <1>11, Wrote
  <1> QED
    BY <1>1, <1>6, <1>7, <1>12

\* The jobs go on, or the trial is written.
LEMMA RunsOn ==
    ASSUME NEW jobs \in Seq(Outcome), NEW pc \in {"jobs", "summarize"}, NEW s \in Seq(Write), NEW v,
           CampaignInv, RecordSound, command # Idle,
           command' = [command EXCEPT !.jobs = jobs, !.pc = pc, !.saves = s],
           UNCHANGED <<disk, session, last>>, Apart(s),
           command.recorder = "sequential" =>
               \A t \in 1 .. Len(jobs) : /\ t \in Task
                                         /\ After(disk, s, RecordingFile(t)).is = "recording"
                                         /\ After(disk, s, RecordingFile(t)).session = session,
           pc = "jobs" => Len(jobs) < Cardinality(Task),
           pc = "summarize" => Holds(s, RecordedFile, v) /\ v.is = "trial" /\ v.jobs = jobs
    PROVE  CampaignInv'
  <1>1. command \in RecordCommand
    BY DEF RecordSound
  <1>2. /\ command' \in RecordCommand /\ command'.saves = s /\ command'.jobs = jobs
        /\ command'.pc = pc /\ command'.trials = command.trials
        /\ command'.executors = command.executors /\ command'.recorder = command.recorder
    <2>1. PICK c, d : c \in RecordCommand /\ c = command /\ d = command'
      BY <1>1
    <2>2. d = [c EXCEPT !.jobs = jobs, !.pc = pc, !.saves = s]
      BY <2>1
    <2>3. /\ d \in RecordCommand /\ d.saves = s /\ d.jobs = jobs /\ d.pc = pc
          /\ d.trials = c.trials /\ d.executors = c.executors /\ d.recorder = c.recorder
      <3>1. jobs \in Seq(Outcome) /\ pc \in {"jobs", "summarize"} /\ s \in Seq(Write)
        OBVIOUS
      <3> QED
        BY ONLY <2>1, <2>2, <3>1 DEF RecordCommand
    <2> QED
      BY ONLY <2>1, <2>3
  <1>3. RecordedFile' = RecordedFile
    BY <1>2 DEF RecordedFile
  <1>4. ASSUME pc = "summarize" PROVE Content(RecordedFile)' = v
    <2>1. Apart(command'.saves) /\ Holds(command'.saves, RecordedFile, v)
      BY <1>2, <1>4
    <2> QED
      BY <1>3, <2>1, AfterAt DEF Content
  <1>5. command'.recorder \in {"nobody", command'.executors[1]}
    BY <1>2 DEF RecordSound
  <1>9. JobsRecorded'
    BY <1>2 DEF JobsRecorded, Content
  <1>6. RecordSound'
    BY <1>2, <1>4, <1>5, <1>9 DEF RecordSound
  <1>7. SummariesSound'
    BY <1>2 DEF SummariesSound
  <1>8. last' = NoneYet /\ session' \in Nat
    BY DEF CampaignInv, CommandSound
  <1> QED
    BY <1>2, <1>6, <1>7, <1>8, GoesOn

\* SequentialExecutor.run: what is saved with a job that is kept.
LEMMA KeptSound ==
    ASSUME session \in Nat, command \in RecordCommand, command.recorder \in {"nobody", "sequential"},
           NEW t \in Task, NEW outcome \in Outcome, outcome # "capped"
    PROVE  /\ Kept(t, outcome) \in Seq(Write)
           /\ \/ Kept(t, outcome) = <<>> /\ command.recorder = "nobody"
              \/ Kept(t, outcome) = <<Recording(t, outcome)>> /\ command.recorder = "sequential"
  <1>1. CASE command.recorder = "nobody"
    BY <1>1 DEF Kept
  <1>2. CASE command.recorder = "sequential"
    <2>1. PICK w : w = Recording(t, outcome)
      OBVIOUS
    <2>2. w \in Write /\ Kept(t, outcome) = <<w>>
      BY <1>2, <2>1, RecordingWritten DEF Kept
    <2>3. <<w>> \in Seq(Write)
      BY ONLY <2>2
    <2> QED
      BY <1>2, <2>1, <2>2, <2>3
  <1> QED
    BY <1>1, <1>2

\* The jobs recorded stay recorded, whatever is saved beside.
LEMMA RecordedKept ==
    ASSUME NEW s, NEW u, JobsRecorded, command.saves = <<>>, command.recorder = "sequential",
           u \in 1 .. Len(command.jobs), \A j \in 1 .. Len(s) : s[j][1] # RecordingFile(u)
    PROVE  /\ u \in Task
           /\ After(disk, s, RecordingFile(u)).is = "recording"
           /\ After(disk, s, RecordingFile(u)).session = session
  <1>1. After(disk, s, RecordingFile(u)) = disk[RecordingFile(u)]
    BY AfterElse
  <1>2. Content(RecordingFile(u)) = disk[RecordingFile(u)]
    BY AfterNone DEF Content
  <1> QED
    BY <1>1, <1>2 DEF JobsRecorded

LEMMA InProcessSound ==
    ASSUME CampaignInv, InProcess
    PROVE  /\ RecordSound /\ command # Idle /\ command.saves = <<>> /\ command \in RecordCommand
           /\ command.recorder \in {"nobody", "sequential"} /\ session \in Nat /\ JobsRecorded
           /\ command.jobs \in Seq(Outcome) /\ Len(command.jobs) + 1 \in Task
  <1>1. command # Idle /\ command.saves = <<>> /\ CommandSound
    BY DEF InProcess, Saved, CampaignInv
  <1>2. RecordSound
    BY <1>1 DEF CommandSound, InProcess, ReplaySound, ReplayCommand, SummarizeCommand
  <1>3. command \in RecordCommand
    BY <1>2 DEF RecordSound
  <1>4. command.jobs \in Seq(Outcome)
    BY <1>3 DEF RecordCommand
  <1>5. Len(command.jobs) < Cardinality(Task)
    BY <1>2 DEF RecordSound, InProcess
  <1>6. Len(command.jobs) + 1 \in Task
    BY <1>4, <1>5, Sizes
  <1> QED
    BY <1>1, <1>2, <1>3, <1>4, <1>6 DEF RecordSound, InProcess, CampaignInv

LEMMA RunJobKeeps ==
    ASSUME CampaignInv, NEW outcome \in {"solved", "capped"}, RunJob(outcome)
    PROVE  CampaignInv'
  <1>1. InProcess /\ UNCHANGED <<disk, session, last>>
    BY DEF RunJob
  <1>2. /\ RecordSound /\ command # Idle /\ command.saves = <<>> /\ command \in RecordCommand
        /\ command.recorder \in {"nobody", "sequential"} /\ session \in Nat /\ JobsRecorded
        /\ command.jobs \in Seq(Outcome) /\ Len(command.jobs) + 1 \in Task
    BY <1>1, InProcessSound
  <1>3. PICK t \in Task : t = Len(command.jobs) + 1
    BY <1>2
  <1>4. RecordedFile \in File /\ \A u : RecordedFile # RecordingFile(u)
    BY <1>2, RecordOwn
  <1>5. CASE /\ DailyCapReached(outcome)
             /\ command' = [command EXCEPT !.pc = "summarize",
                                           !.saves = <<<<RecordedFile, Ran(command.jobs, TRUE)>>>>]
    <2>1. PICK v : v = Ran(command.jobs, TRUE)
      OBVIOUS
    <2>2. <<RecordedFile, v>> \in Write /\ v.is = "trial" /\ v.jobs = command.jobs
      BY <1>2, <2>1, TrialWritten
    <2>3. PICK s \in Seq(Write) : s = <<<<RecordedFile, v>>>>
      <3>1. PICK w \in Write : w = <<RecordedFile, v>>
        BY <2>2
      <3>2. <<w>> \in Seq(Write)
        BY ONLY <3>1
      <3> QED
        BY <3>1, <3>2
    <2>4. command' = [command EXCEPT !.jobs = command.jobs, !.pc = "summarize", !.saves = s]
      <3>1. command' = [command EXCEPT !.pc = "summarize", !.saves = s]
        BY <1>5, <2>1, <2>3
      <3> QED
        BY ONLY <1>2, <3>1 DEF RecordCommand
    <2>5. Apart(s) /\ Holds(s, RecordedFile, v)
      BY <2>3 DEF Apart, Holds
    <2>6. \A u : \A j \in 1 .. Len(s) : s[j][1] # RecordingFile(u)
      BY <1>4, <2>3
    <2>7. command.recorder = "sequential" =>
            \A u \in 1 .. Len(command.jobs) :
                /\ u \in Task
                /\ After(disk, s, RecordingFile(u)).is = "recording"
                /\ After(disk, s, RecordingFile(u)).session = session
      BY <1>2, <2>6, RecordedKept
    <2> QED
      BY <1>1, <1>2, <2>2, <2>4, <2>5, <2>7, RunsOn
  <1>6. PICK jobs \in Seq(Outcome) :
          /\ jobs = Append(command.jobs, outcome) /\ Len(jobs) = t /\ Len(command.jobs) = t - 1
    <2>1. outcome \in Outcome
      BY DEF Outcome
    <2>2. PICK old \in Seq(Outcome) : old = command.jobs
      BY <1>2
    <2>3. /\ Append(old, outcome) \in Seq(Outcome)
          /\ Len(Append(old, outcome)) = Len(old) + 1 /\ Len(old) \in Nat
      BY ONLY <2>1, <2>2
    <2>4. t = Len(old) + 1 /\ Len(old) = t - 1
      BY <1>3, <2>2, <2>3
    <2> QED
      BY ONLY <2>2, <2>3, <2>4
  <1>7. CASE ~DailyCapReached(outcome)
    <2>1. outcome \in Outcome /\ outcome # "capped"
      BY <1>7 DEF DailyCapReached, Outcome
    <2>2. PICK kept \in Seq(Write) :
            /\ kept = Kept(t, outcome)
            /\ \/ kept = <<>> /\ command.recorder = "nobody"
               \/ kept = <<Recording(t, outcome)>> /\ command.recorder = "sequential"
      BY <1>2, <2>1, KeptSound
    <2>3. command.recorder = "sequential" =>
            /\ Recording(t, outcome)[1] = RecordingFile(t)
            /\ Recording(t, outcome)[2].is = "recording"
            /\ Recording(t, outcome)[2].session = session
      BY <1>2, <2>1, RecordingWritten
    <2>4. ASSUME NEW s, Apart(s), \A j \in 1 .. Len(kept) : Holds(s, kept[j][1], kept[j][2]),
                 \A j \in 1 .. Len(s) : s[j][1] = RecordedFile \/ s[j][1] = RecordingFile(t)
          PROVE  command.recorder = "sequential" =>
                   \A u \in 1 .. Len(jobs) :
                       /\ u \in Task
                       /\ After(disk, s, RecordingFile(u)).is = "recording"
                       /\ After(disk, s, RecordingFile(u)).session = session
      <3> SUFFICES ASSUME command.recorder = "sequential", NEW u \in 1 .. Len(jobs)
                   PROVE  /\ u \in Task
                          /\ After(disk, s, RecordingFile(u)).is = "recording"
                          /\ After(disk, s, RecordingFile(u)).session = session
        OBVIOUS
      <3>1. CASE u = t
        <4>1. kept = <<Recording(t, outcome)>>
          BY <2>2
        <4>2. Holds(s, RecordingFile(t), Recording(t, outcome)[2])
          BY <2>3, <2>4, <4>1
        <4> QED
          BY <2>3, <2>4, <3>1, <4>2, AfterAt
      <3>2. CASE u # t
        <4>1. u \in 1 .. Len(command.jobs)
          BY <1>2, <1>3, <1>6, <3>2
        <4>2. \A j \in 1 .. Len(s) : s[j][1] # RecordingFile(u)
          BY <1>4, <2>4, <3>2, Names
        <4> QED
          BY <1>2, <4>1, <4>2, RecordedKept
      <3> QED
        BY <3>1, <3>2
    <2>5. CASE t < Cardinality(Task) /\ command' = [command EXCEPT !.jobs = jobs, !.saves = kept]
      <3>1. command' = [command EXCEPT !.jobs = jobs, !.pc = "jobs", !.saves = kept]
        <4>1. command.pc = "jobs"
          BY <1>1 DEF InProcess
        <4> QED
          BY ONLY <1>2, <2>5, <4>1 DEF RecordCommand
      <3>2. Apart(kept)
        BY <2>2 DEF Apart
      <3>3. \A j \in 1 .. Len(kept) : Holds(kept, kept[j][1], kept[j][2])
        BY DEF Holds
      <3>4. \A j \in 1 .. Len(kept) : kept[j][1] = RecordingFile(t)
        BY <2>2, <2>3
      <3>5. command.recorder = "sequential" =>
              \A u \in 1 .. Len(jobs) :
                  /\ u \in Task
                  /\ After(disk, kept, RecordingFile(u)).is = "recording"
                  /\ After(disk, kept, RecordingFile(u)).session = session
        BY <2>4, <3>2, <3>3, <3>4
      <3> QED
        BY <1>1, <1>2, <1>6, <2>5, <3>1, <3>2, <3>5, RunsOn
    <2>6. CASE /\ t = Cardinality(Task)
               /\ command' = [command EXCEPT !.jobs = jobs, !.pc = "summarize",
                                 !.saves = Append(kept, <<RecordedFile, Ran(jobs, FALSE)>>)]
      <3>1. PICK v : v = Ran(jobs, FALSE)
        OBVIOUS
      <3>2. <<RecordedFile, v>> \in Write /\ v.is = "trial" /\ v.jobs = jobs
        BY <1>2, <1>6, <2>6, <3>1, TrialWritten
      <3>3. PICK s \in Seq(Write) :
              /\ s = Append(kept, <<RecordedFile, v>>) /\ Len(s) = Len(kept) + 1
              /\ s[Len(kept) + 1] = <<RecordedFile, v>>
              /\ \A j \in 1 .. Len(kept) : s[j] = kept[j]
        <4>1. PICK w \in Write : w = <<RecordedFile, v>>
          BY <3>2
        <4>2. Append(kept, w) \in Seq(Write)
          BY ONLY <4>1, kept \in Seq(Write)
        <4>3. /\ Len(Append(kept, w)) = Len(kept) + 1 /\ Append(kept, w)[Len(kept) + 1] = w
              /\ \A j \in 1 .. Len(kept) : Append(kept, w)[j] = kept[j]
          BY ONLY <4>1, kept \in Seq(Write)
        <4> QED
          BY <4>1, <4>2, <4>3
      <3>4. command' = [command EXCEPT !.jobs = jobs, !.pc = "summarize", !.saves = s]
        BY <2>6, <3>1, <3>3
      <3>5. Len(kept) \in {0, 1} /\ \A j \in 1 .. Len(kept) : kept[j][1] = RecordingFile(t)
        BY <2>2, <2>3
      <3>6. Apart(s)
        BY <1>4, <3>3, <3>5 DEF Apart
      <3>7. Holds(s, RecordedFile, v)
        BY <3>3, <3>5 DEF Holds
      <3>8. \A j \in 1 .. Len(kept) : Holds(s, kept[j][1], kept[j][2])
        BY <3>3, <3>5 DEF Holds
      <3>9. \A j \in 1 .. Len(s) : s[j][1] = RecordedFile \/ s[j][1] = RecordingFile(t)
        BY <3>3, <3>5
      <3>10. command.recorder = "sequential" =>
              \A u \in 1 .. Len(jobs) :
                  /\ u \in Task
                  /\ After(disk, s, RecordingFile(u)).is = "recording"
                  /\ After(disk, s, RecordingFile(u)).session = session
        BY <2>4, <3>6, <3>8, <3>9
      <3> QED
        BY <1>1, <1>2, <3>2, <3>4, <3>6, <3>7, <3>10, RunsOn
    <2> QED
      BY <1>3, <1>6, <1>7, <2>2, <2>5, <2>6 DEF RunJob
  <1> QED
    BY <1>5, <1>7 DEF RunJob

\* on_fleet: the recordings that come in results' bodies, each to its own file.
LEMMA OnFleetSound ==
    ASSUME session \in Nat, command \in RecordCommand, command.recorder # "sequential",
           NEW outcomes \in [Task -> Outcome], NEW order \in InOrder(FromBodies(outcomes))
    PROVE  /\ OnFleet(order, outcomes) \in Seq(Write)
           /\ Apart(OnFleet(order, outcomes))
           /\ \A j \in 1 .. Len(OnFleet(order, outcomes)) : \E t \in Task :
                OnFleet(order, outcomes)[j][1] = RecordingFile(t)
  <1>1. PICK S, n : S = FromBodies(outcomes) /\ n = Cardinality(S)
    OBVIOUS
  <1>2. S \subseteq Task /\ (S # {} => command.recorder # "nobody")
    BY <1>1 DEF FromBodies
  <1>3. n \in Nat
    BY <1>1, <1>2, Sizes, FS_Subset, FS_CardinalityType
  <1>4. order \in [1 .. n -> S] /\ \A i, j \in 1 .. n : i < j => order[i] < order[j]
    BY <1>1 DEF InOrder
  <1>5. Len(order) = n
    BY <1>3, <1>4
  <1>6. PICK made : made = [i \in 1 .. n |-> Recording(order[i], outcomes[order[i]])]
    OBVIOUS
  <1>7. OnFleet(order, outcomes) = made
    BY <1>5, <1>6 DEF OnFleet
  <1>8. ASSUME NEW i \in 1 .. n
        PROVE  /\ order[i] \in Task /\ made[i] \in Write /\ made[i][1] = RecordingFile(order[i])
    <2>1. order[i] \in Task /\ command.recorder # "nobody"
      BY <1>2, <1>4, <1>8
    <2>2. outcomes[order[i]] \in Outcome
      BY <2>1
    <2>3. made[i] = Recording(order[i], outcomes[order[i]])
      BY <1>6, <1>8
    <2> QED
      BY <2>1, <2>2, <2>3, RecordingWritten
  <1>9. made \in Seq(Write) /\ Len(made) = n
    <2>1. made = [i \in 1 .. n |-> made[i]]
      BY <1>6
    <2> QED
      BY ONLY <1>3, <1>8, <2>1
  <1>10. ASSUME NEW i \in 1 .. n, NEW j \in 1 .. n, made[i][1] = made[j][1]
         PROVE  i = j
    <2>1. order[i] = order[j]
      BY <1>8, <1>10, Names
    <2>2. \A k \in 1 .. n : order[k] \in Nat
      BY <1>8, Sizes
    <2> QED
      BY <1>3, <1>4, <1>10, <2>1, <2>2
  <1>11. Apart(made)
    BY <1>9, <1>10 DEF Apart
  <1> QED
    BY <1>7, <1>8, <1>9, <1>11

LEMMA FleetBatchKeeps ==
    ASSUME CampaignInv, NEW outcomes \in [Task -> {"solved", "capped"} \union Underneath],
           FleetBatch(outcomes)
    PROVE  CampaignInv'
  <1>1. /\ command # Idle /\ command.saves = <<>> /\ CommandSound /\ session \in Nat
        /\ command.executors[1] \in Fleets /\ UNCHANGED <<disk, session, last>>
    BY DEF FleetBatch, Saved, CampaignInv
  <1>2. RecordSound
    BY <1>1 DEF CommandSound, FleetBatch, ReplaySound, ReplayCommand, SummarizeCommand
  <1>3. command \in RecordCommand /\ command.recorder # "sequential"
    BY <1>1, <1>2 DEF RecordSound, Fleets
  <1>4. PICK order \in InOrder(FromBodies(outcomes)) :
          command' = [command EXCEPT
              !.jobs = outcomes, !.pc = "summarize",
              !.saves = Append(OnFleet(order, outcomes), <<RecordedFile, Ran(outcomes, FALSE)>>)]
    BY DEF FleetBatch
  <1>5. outcomes \in [Task -> Outcome]
    BY DEF Outcome
  <1>6. PICK jobs \in Seq(Outcome) : jobs = outcomes /\ Len(jobs) = Cardinality(Task)
    <2>1. outcomes \in [1 .. Cardinality(Task) -> Outcome] /\ Cardinality(Task) \in Nat
      BY <1>5, Sizes
    <2>2. outcomes \in Seq(Outcome) /\ Len(outcomes) = Cardinality(Task)
      BY ONLY <2>1
    <2> QED
      BY <2>2
  <1>7. PICK made \in Seq(Write) :
          /\ made = OnFleet(order, outcomes) /\ Apart(made)
          /\ \A j \in 1 .. Len(made) : \E t \in Task : made[j][1] = RecordingFile(t)
    BY <1>1, <1>3, <1>5, OnFleetSound
  <1>8. PICK v : v = Ran(jobs, FALSE)
    OBVIOUS
  <1>9. <<RecordedFile, v>> \in Write /\ v.is = "trial" /\ v.jobs = jobs
    BY <1>1, <1>3, <1>6, <1>8, TrialWritten
  <1>10. PICK s \in Seq(Write) :
           /\ s = Append(made, <<RecordedFile, v>>) /\ Len(s) = Len(made) + 1 /\ Len(made) \in Nat
           /\ s[Len(made) + 1] = <<RecordedFile, v>>
           /\ \A j \in 1 .. Len(made) : s[j] = made[j]
    <2>1. PICK w \in Write : w = <<RecordedFile, v>>
      BY <1>9
    <2>2. /\ Append(made, w) \in Seq(Write) /\ Len(made) \in Nat
          /\ Len(Append(made, w)) = Len(made) + 1 /\ Append(made, w)[Len(made) + 1] = w
          /\ \A j \in 1 .. Len(made) : Append(made, w)[j] = made[j]
      BY ONLY <2>1, made \in Seq(Write)
    <2> QED
      BY <2>1, <2>2
  <1>11. RecordedFile \in File /\ \A u : RecordedFile # RecordingFile(u)
    BY <1>3, RecordOwn
  <1>12. Apart(s)
    <2>1. ASSUME NEW i \in 1 .. Len(s), NEW j \in 1 .. Len(s), s[i][1] = s[j][1]
          PROVE  i = j
      <3>1. CASE i \in 1 .. Len(made) /\ j \in 1 .. Len(made)
        BY <1>7, <1>10, <2>1, <3>1 DEF Apart
      <3>2. CASE i = Len(made) + 1 /\ j = Len(made) + 1
        BY <3>2
      <3>3. CASE i \in 1 .. Len(made) /\ j = Len(made) + 1
        BY <1>7, <1>10, <1>11, <2>1, <3>3
      <3>4. CASE i = Len(made) + 1 /\ j \in 1 .. Len(made)
        BY <1>7, <1>10, <1>11, <2>1, <3>4
      <3> QED
        BY <1>10, <2>1, <3>1, <3>2, <3>3, <3>4
    <2> QED
      BY <2>1 DEF Apart
  <1>13. Holds(s, RecordedFile, v)
    BY <1>10 DEF Holds
  <1>14. command' = [command EXCEPT !.jobs = jobs, !.pc = "summarize", !.saves = s]
    BY <1>4, <1>6, <1>7, <1>8, <1>10
  <1> QED
    BY <1>1, <1>2, <1>3, <1>9, <1>12, <1>13, <1>14, RunsOn

LEMMA SummarizeRecordedKeeps ==
    ASSUME CampaignInv, SummarizeRecorded
    PROVE  CampaignInv'
  <1>1. /\ command # Idle /\ command.saves = <<>> /\ CommandSound /\ session \in Nat
        /\ command.pc = "summarize" /\ UNCHANGED <<disk, session>> /\ DiskSound
    BY DEF SummarizeRecorded, Saved, CampaignInv
  <1>2. RecordSound
    BY <1>1 DEF CommandSound, SummarizeRecorded, ReplaySound, ReplayCommand, SummarizeCommand
  <1>3. command \in RecordCommand
    BY <1>2 DEF RecordSound
  <1>4. PICK n \in Trial : command.trials = {n} /\ RecordedFile = TrialFile("real", n)
    BY <1>3, RecordOwn
  <1>5. "real" \in Label
    BY DEF Label
  <1>6. PICK own : own = disk[RecordedFile]
    OBVIOUS
  <1>7. own.is = "trial" /\ own.jobs = command.jobs
    <2>1. Content(RecordedFile) = own
      BY <1>1, <1>6, AfterNone DEF Content
    <2> QED
      BY <1>1, <1>2, <2>1 DEF RecordSound
  <1>8. own \in TrialContent(n) /\ own \in TrialFiles("real")
    <2>1. own # Absent /\ own # Torn
      BY <1>7, Kinds
    <2> QED
      BY <1>1, <1>4, <1>5, <1>6, <2>1, TrialsOnDisk DEF TrialFiles
  <1>9. own.interrupted \in BOOLEAN /\ (~own.interrupted => Len(own.jobs) = Cardinality(Task))
    BY <1>8 DEF TrialContent, TrialRec
  <1>10. PICK exit \in {"0", "1"} : exit = IF own.interrupted THEN "1" ELSE "0"
    OBVIOUS
  <1>11. ASSUME Complete(TrialFiles("real")) = {}, Ends(exit)
         PROVE  CampaignInv'
    <2>1. own.interrupted
      BY <1>8, <1>11 DEF Complete
    <2> QED
      BY <1>1, <1>10, <1>11, <2>1, DiskKept, EndsKeeps
  <1>12. ASSUME Ends("raised")
         PROVE  CampaignInv'
    BY <1>1, <1>12, DiskKept, EndsKeeps
  <1>13. ASSUME CanSummarize("real"), UNCHANGED last,
                command' = [command EXCEPT !.pc = "exit", !.exit = exit,
                    !.saves = <<<<SummaryFile("real"), Summarize(TrialFiles("real"))>>>>]
         PROVE  CampaignInv'
    <2>1. PICK s \in SummaryRec : s = Summarize(TrialFiles("real")) /\ Current("record", "real", s)
      BY <1>1, <1>5, <1>13, LabelCurrent
    <2>2. PICK saves \in Seq(Write) : saves = <<<<SummaryFile("real"), s>>>>
      BY <1>5, <2>1, SummaryWritten
    <2>3. command' = [command EXCEPT !.pc = "exit", !.exit = exit, !.saves = saves]
      BY <1>13, <2>1, <2>2
    <2>4. /\ command' \in RecordCommand /\ command'.saves = saves /\ command'.pc = "exit"
          /\ command'.exit = exit /\ command'.name = "record" /\ command'.labels = <<"real">>
          /\ command'.trials = command.trials /\ command'.executors = command.executors
          /\ command'.recorder = command.recorder /\ command'.jobs = command.jobs
      BY ONLY <1>3, <1>10, <2>2, <2>3 DEF RecordCommand
    <2>5. SummariesSound' /\ Apart(command'.saves)
      BY <1>1, <1>5, <2>1, <2>2, <2>4, OneSummary
    <2>6. \A t : Content(RecordingFile(t))' = Content(RecordingFile(t))
      <3>1. ASSUME NEW t PROVE Content(RecordingFile(t))' = Content(RecordingFile(t))
        <4>1. \A j \in 1 .. Len(command'.saves) : command'.saves[j][1] # RecordingFile(t)
          BY <2>2, <2>4, Names
        <4>2. Content(RecordingFile(t))' = disk'[RecordingFile(t)]
          BY <4>1, AfterElse DEF Content
        <4>3. Content(RecordingFile(t)) = disk[RecordingFile(t)]
          BY <1>1, AfterNone DEF Content
        <4> QED
          BY <1>1, <4>2, <4>3
      <3> QED
        BY <3>1
    <2>7. JobsRecorded'
      BY <1>1, <1>2, <2>4, <2>6 DEF RecordSound, JobsRecorded
    <2>8. exit = "0" => Len(command'.jobs) = Cardinality(Task)
      BY <1>7, <1>9, <1>10, <2>4
    <2>9. command'.recorder \in {"nobody", command'.executors[1]}
      BY <1>2, <2>4 DEF RecordSound
    <2>10. RecordSound'
      BY <2>4, <2>7, <2>8, <2>9 DEF RecordSound
    <2>11. last' = NoneYet
      BY <1>1, <1>13 DEF CommandSound
    <2> QED
      BY <1>1, <2>5, <2>10, <2>11, GoesOn
  <1> QED
    BY <1>6, <1>10, <1>11, <1>12, <1>13 DEF SummarizeRecorded

-----------------------------------------------------------------------------
(* The trials of a replay.                                                 *)

\* The arm whose turn it is, and what its trial adds to those it has run.
LEMMA ArmSound ==
    ASSUME Len(command.labels) \in 1 .. 2, command.turn \in 1 .. Len(command.labels),
           command.round \in Nat
    PROVE  /\ Arm \in 1 .. Len(command.labels)
           /\ Arm = IF command.round % 2 = 1 THEN command.turn
                                             ELSE Len(command.labels) + 1 - command.turn
  <1>1. PICK k, turn, round : k = Len(command.labels) /\ turn = command.turn /\ round = command.round
    OBVIOUS
  <1>2. k \in 1 .. 2 /\ turn \in 1 .. k /\ round \in Nat
    BY <1>1
  <1>3. TrialOrder(k, round)[turn] = IF round % 2 = 1 THEN turn ELSE k + 1 - turn
    BY ONLY <1>2 DEF TrialOrder
  <1>4. (IF round % 2 = 1 THEN turn ELSE k + 1 - turn) \in 1 .. k
    BY ONLY <1>2
  <1> QED
    BY <1>1, <1>3, <1>4 DEF Arm

LEMMA DoneFollows ==
    ASSUME NEW m \in Nat, NEW i, Len(command.labels) \in 1 .. 2, i \in 1 .. Len(command.labels),
           command.turn \in 1 .. Len(command.labels), command.round \in 1 .. m,
           command.trials = 1 .. m,
           command'.labels = command.labels, command'.trials = command.trials,
           command'.turn = IF command.turn = Len(command.labels) THEN 1 ELSE command.turn + 1,
           command'.round = IF command.turn = Len(command.labels) THEN command.round + 1
                                                                  ELSE command.round
    PROVE  /\ command.round \notin Done(Arm)
           /\ Done(i)' = IF i = Arm THEN Done(i) \union {command.round} ELSE Done(i)
  <1>1. PICK k, turn, round : /\ k \in 1 .. 2 /\ k = Len(command.labels)
                             /\ turn = command.turn /\ round = command.round
    OBVIOUS
  <1>2. /\ k \in 1 .. 2 /\ turn \in 1 .. k /\ round \in 1 .. m /\ i \in 1 .. k
        /\ command'.turn = IF turn = k THEN 1 ELSE turn + 1
        /\ command'.round = IF turn = k THEN round + 1 ELSE round
    BY <1>1
  <1>3. PICK arm \in 1 .. k : arm = Arm /\ arm = IF round % 2 = 1 THEN turn ELSE k + 1 - turn
    BY <1>1, <1>2, ArmSound
  <1>4. \A j : Done(j) = {n \in 1 .. m : \/ n < round
                                         \/ n = round /\ IF n % 2 = 1 THEN j < turn ELSE j > k + 1 - turn}
    BY <1>1 DEF Done
  <1>5. round \notin Done(arm)
    BY <1>2, <1>3, <1>4
  <1>6. CASE turn # k
    <2>1. Done(i)' = {n \in 1 .. m : \/ n < round
                                     \/ n = round /\ IF n % 2 = 1 THEN i < turn + 1
                                                                  ELSE i > k + 1 - (turn + 1)}
      BY <1>1, <1>2, <1>6 DEF Done
    <2>2. IF round % 2 = 1 THEN i < turn + 1 <=> (i < turn \/ i = arm)
                           ELSE i > k + 1 - (turn + 1) <=> (i > k + 1 - turn \/ i = arm)
      BY ONLY <1>2, <1>3, <1>6
    <2>3. Done(i)' = IF i = arm THEN Done(i) \union {round} ELSE Done(i)
      BY <1>2, <1>4, <2>1, <2>2
    <2> QED
      BY <1>1, <1>3, <1>5, <2>3
  <1>7. CASE turn = k
    <2>1. Done(i)' = {n \in 1 .. m : \/ n < round + 1
                                     \/ n = round + 1 /\ IF n % 2 = 1 THEN i < 1 ELSE i > k + 1 - 1}
      BY <1>1, <1>2, <1>7 DEF Done
    <2>2. ~(i < 1) /\ ~(i > k + 1 - 1) /\ round \in Nat
      BY ONLY <1>2, m \in Nat
    <2>3. Done(i)' = {n \in 1 .. m : n <= round}
      <3>1. Done(i)' = {n \in 1 .. m : n < round + 1}
        BY <2>1, <2>2
      <3>2. \A n \in 1 .. m : n < round + 1 <=> n <= round
        BY ONLY <2>2, m \in Nat
      <3> QED
        BY ONLY <3>1, <3>2
    <2>4. IF round % 2 = 1 THEN i < turn \/ i = arm ELSE i > k + 1 - turn \/ i = arm
      BY ONLY <1>2, <1>3, <1>7
    <2>5. IF i = arm THEN TRUE
          ELSE IF round % 2 = 1 THEN i < turn ELSE i > k + 1 - turn
      BY ONLY <2>4
    <2>6. Done(i)' = IF i = arm THEN Done(i) \union {round} ELSE Done(i)
      BY <1>2, <1>4, <2>3, <2>5
    <2> QED
      BY <1>1, <1>3, <1>5, <2>6
  <1> QED
    BY <1>6, <1>7

\* The trial an arm leaves.
ReplayedTrial(n, executor, used, at, outcomes) ==
    [is |-> "trial", trial |-> n, session |-> at,
     config |-> [mode |-> "replay", executor |-> executor, digest |-> used],
     interrupted |-> FALSE, jobs |-> outcomes]

LEMMA ReplayedTrialSound ==
    ASSUME NEW n \in Trial, NEW l \in Label, NEW executor \in Executor,
           NEW used \in [Task -> RecordingContent], NEW at \in Nat, NEW outcomes \in [Task -> Outcome]
    PROVE  /\ ReplayedTrial(n, executor, used, at, outcomes) \in TrialRec
           /\ ReplayedTrial(n, executor, used, at, outcomes).trial = n
           /\ ReplayedTrial(n, executor, used, at, outcomes).session = at
           /\ ReplayedTrial(n, executor, used, at, outcomes).config.digest = used
           /\ ~ReplayedTrial(n, executor, used, at, outcomes).interrupted
           /\ <<TrialFile(l, n), ReplayedTrial(n, executor, used, at, outcomes)>> \in Write
  <1>1. PICK config : config = [mode |-> "replay", executor |-> executor, digest |-> used]
    OBVIOUS
  <1>2. used \in [Task -> RecordingRec \union {Absent}]
    BY DEF RecordingContent
  <1>3. config \in Config /\ config.digest = used
    BY <1>1, <1>2 DEF Config
  <1>4. outcomes \in Seq(Outcome) /\ Len(outcomes) = Cardinality(Task)
    <2>1. outcomes \in [1 .. Cardinality(Task) -> Outcome] /\ Cardinality(Task) \in Nat
      BY Sizes
    <2> QED
      BY ONLY <2>1
  <1>5. PICK r : r = [is |-> "trial", trial |-> n, session |-> at, config |-> config,
                      interrupted |-> FALSE, jobs |-> outcomes]
    OBVIOUS
  <1>6. r \in TrialRec
    BY <1>3, <1>4, <1>5 DEF TrialRec
  <1>7. r \in TrialContent(n)
    BY <1>4, <1>5, <1>6 DEF TrialContent
  <1>8. TrialFile(l, n) \in File /\ Fits(TrialFile(l, n), r)
    BY <1>7, Names DEF Fits
  <1>9. <<TrialFile(l, n), r>> \in Write
    BY <1>6, <1>8, Wrote
  <1>10. ReplayedTrial(n, executor, used, at, outcomes) = r
    BY <1>1, <1>5 DEF ReplayedTrial
  <1>11. r.trial = n /\ r.session = at /\ r.config.digest = used /\ ~r.interrupted
    BY <1>3, <1>5
  <1> QED
    BY <1>6, <1>9, <1>10, <1>11

LEMMA ReplaySavedSound ==
    ASSUME CampaignInv, Saved, command.name = "replay"
    PROVE  /\ command # Idle /\ command.saves = <<>> /\ ReplaySound /\ command \in ReplayCommand
           /\ session \in Nat /\ DiskSound /\ last = NoneYet
           /\ Len(command.labels) \in 1 .. 2
           /\ \A i \in 1 .. Len(command.labels) :
                command.labels[i] \in Label /\ command.executors[i] \in Executor
           /\ \A i, j \in 1 .. Len(command.labels) : command.labels[i] = command.labels[j] => i = j
           /\ \E m \in Trial : command.trials = 1 .. m /\ Cardinality(command.trials) = m /\ m \in Nat
           /\ \A f : Content(f) = disk[f]
  <1>1. command # Idle /\ command.saves = <<>> /\ CommandSound
    BY DEF Saved, CampaignInv
  <1>2. ReplaySound
    BY <1>1 DEF CommandSound, RecordSound, RecordCommand, SummarizeCommand
  <1>3. command \in ReplayCommand /\ Len(command.executors) = Len(command.labels)
    BY <1>2 DEF ReplaySound
  <1>4. command.labels \in Labels /\ command.executors \in Seq(Executor)
    BY <1>3 DEF ReplayCommand
  <1>5. PICK m \in Trial : command.trials = 1 .. m
    BY <1>3 DEF ReplayCommand
  <1>6. Cardinality(command.trials) = m /\ m \in Nat
    BY <1>5, RoundsOfTrials
  <1>7. \A i \in 1 .. Len(command.labels) : command.executors[i] \in Executor
    BY <1>3, <1>4
  <1>8. \A f : Content(f) = disk[f]
    BY <1>1, AfterNone DEF Content
  <1>9. last = NoneYet
    BY <1>1 DEF CommandSound
  <1>10. /\ Len(command.labels) \in 1 .. 2
         /\ \A i \in 1 .. Len(command.labels) : command.labels[i] \in Label
         /\ \A i, j \in 1 .. Len(command.labels) : command.labels[i] = command.labels[j] => i = j
    BY <1>4, LabelsSound
  <1> QED
    BY <1>1, <1>2, <1>3, <1>5, <1>6, <1>7, <1>8, <1>9, <1>10 DEF CampaignInv

LEMMA RunTrialKeeps ==
    ASSUME CampaignInv,
           NEW outcomes \in [Task -> {"solved", "capped", "diverged"} \union Underneath],
           RunTrial(outcomes)
    PROVE  CampaignInv'
  <1>1. /\ Saved /\ command.name = "replay" /\ command.pc = "trials"
        /\ UNCHANGED <<disk, session, last>>
    BY DEF RunTrial
  <1>2. /\ command # Idle /\ command.saves = <<>> /\ ReplaySound /\ command \in ReplayCommand
        /\ session \in Nat /\ DiskSound /\ last = NoneYet
        /\ Len(command.labels) \in 1 .. 2
        /\ \A i \in 1 .. Len(command.labels) :
             command.labels[i] \in Label /\ command.executors[i] \in Executor
        /\ \A i, j \in 1 .. Len(command.labels) : command.labels[i] = command.labels[j] => i = j
        /\ \A f : Content(f) = disk[f]
    BY <1>1, ReplaySavedSound
  <1>3. PICK m \in Trial : command.trials = 1 .. m /\ Cardinality(command.trials) = m /\ m \in Nat
    BY <1>1, ReplaySavedSound
  <1>4. PICK k, turn, round : /\ k \in 1 .. 2 /\ k = Len(command.labels)
                             /\ turn = command.turn /\ round = command.round
    BY <1>2
  <1>5. turn \in 1 .. k /\ round \in 1 .. m
    BY <1>1, <1>2, <1>3, <1>4 DEF ReplaySound
  <1>6. PICK arm \in 1 .. k : arm = Arm
    BY <1>4, <1>5, ArmSound
  <1>7. PICK l \in Label, executor \in Executor :
          l = command.labels[arm] /\ executor = command.executors[arm]
    BY <1>2, <1>4, <1>6
  <1>8. PICK used \in [Task -> RecordingContent] : used = command.used
    BY <1>2 DEF ReplayCommand
  <1>9. round \in Trial
    BY <1>3, <1>5, Sizes
  <1>10. outcomes \in [Task -> Outcome]
    BY DEF Outcome
  <1>11. PICK r : r = ReplayedTrial(round, executor, used, session, outcomes)
    OBVIOUS
  <1>12. /\ r \in TrialRec /\ r.trial = round /\ r.session = session
         /\ r.config.digest = used /\ ~r.interrupted
         /\ <<TrialFile(l, round), r>> \in Write
    <2>1. /\ session \in Nat /\ round \in Trial /\ l \in Label /\ executor \in Executor
          /\ used \in [Task -> RecordingContent] /\ outcomes \in [Task -> Outcome]
      BY <1>2, <1>7, <1>8, <1>9, <1>10
    <2> QED
      BY ONLY <1>11, <2>1, ReplayedTrialSound
  <1>13. PICK s \in Seq(Write) : s = <<<<TrialFile(l, round), r>>>>
    <2>1. PICK w \in Write : w = <<TrialFile(l, round), r>>
      BY <1>12
    <2>2. <<w>> \in Seq(Write)
      BY ONLY <2>1
    <2> QED
      BY <2>1, <2>2
  <1>14. PICK records : records = [command.records EXCEPT ![arm] = @ \union {r}]
    OBVIOUS
  <1>15. command.records \in Seq(SUBSET TrialRec) /\ Len(command.records) = k
    BY <1>2, <1>4 DEF ReplaySound, ReplayCommand
  <1>16. /\ records \in Seq(SUBSET TrialRec) /\ Len(records) = k
         /\ \A i \in 1 .. k : records[i] = IF i = arm THEN command.records[i] \union {r}
                                           ELSE command.records[i]
    <2>1. PICK old \in Seq(SUBSET TrialRec) : old = command.records /\ Len(old) = k
      BY <1>15
    <2>2. records = [old EXCEPT ![arm] = old[arm] \union {r}]
      BY <1>14, <2>1
    <2>3. r \in TrialRec /\ arm \in 1 .. k
      BY <1>6, <1>12
    <2>4. old[arm] \union {r} \in SUBSET TrialRec
      BY <2>1, <2>3
    <2>5. /\ records \in Seq(SUBSET TrialRec) /\ Len(records) = k
          /\ \A i \in 1 .. k : records[i] = IF i = arm THEN old[arm] \union {r} ELSE old[i]
      BY ONLY <2>1, <2>2, <2>3, <2>4
    <2> QED
      BY <2>1, <2>5
  <1>17. PICK next, after, pc :
           /\ next = IF turn = k THEN 1 ELSE turn + 1
           /\ after = IF turn = k THEN round + 1 ELSE round
           /\ pc = IF turn = k /\ round = m THEN "summaries" ELSE "trials"
    OBVIOUS
  <1>18. command' = [command EXCEPT !.records = records, !.saves = s, !.turn = next,
                                    !.round = after, !.pc = pc]
    <2>1. Follow(r)
      BY <1>4, <1>6, <1>7, <1>8, <1>11 DEF RunTrial, ReplayConfig, TrialRecord, ConfigOf, ReplayedTrial
    <2>2. command' = [command EXCEPT
            !.records[arm] = @ \union {r},
            !.saves = <<<<TrialFile(l, round), r>>>>,
            !.turn = IF turn = k THEN 1 ELSE @ + 1,
            !.round = IF turn = k THEN @ + 1 ELSE @,
            !.pc = IF turn = k /\ round = m THEN "summaries" ELSE @]
      BY <1>3, <1>4, <1>6, <1>7, <2>1 DEF Follow
    <2> QED
      BY <1>1, <1>2, <1>4, <1>13, <1>14, <1>17, <2>2 DEF ReplayCommand
  <1>19. /\ command' \in ReplayCommand /\ command'.saves = s /\ command'.records = records
         /\ command'.turn = next /\ command'.round = after /\ command'.pc = pc
         /\ command'.labels = command.labels /\ command'.trials = command.trials
         /\ command'.executors = command.executors /\ command'.used = command.used
         /\ command'.exit = command.exit
    <2>1. next \in Nat /\ after \in Nat /\ pc \in {"trials", "summaries"}
      BY <1>5, <1>17
    <2> QED
      BY ONLY <1>2, <1>13, <1>16, <1>18, <2>1 DEF ReplayCommand
  <1>20. Apart(s) /\ Holds(s, TrialFile(l, round), r)
    BY <1>13 DEF Apart, Holds
  <1>21. round \notin Done(arm) /\
         \A i \in 1 .. k : Done(i)' = IF i = arm THEN Done(i) \union {round} ELSE Done(i)
    <2>1. /\ m \in Nat /\ Len(command.labels) \in 1 .. 2
          /\ command.turn \in 1 .. Len(command.labels) /\ command.round \in 1 .. m
          /\ command.trials = 1 .. m
          /\ command'.labels = command.labels /\ command'.trials = command.trials
          /\ command'.turn = IF command.turn = Len(command.labels) THEN 1 ELSE command.turn + 1
          /\ command'.round = IF command.turn = Len(command.labels) THEN command.round + 1
                                                                    ELSE command.round
      BY <1>3, <1>4, <1>5, <1>17, <1>19
    <2>2. ASSUME NEW i \in 1 .. k
          PROVE  /\ command.round \notin Done(Arm)
                 /\ Done(i)' = IF i = Arm THEN Done(i) \union {command.round} ELSE Done(i)
      <3>1. i \in 1 .. Len(command.labels)
        BY <1>4, <2>2
      <3> QED
        BY ONLY <2>1, <3>1, DoneFollows
    <2> QED
      BY <1>4, <1>6, <2>2
  <1>22. \A i \in 1 .. k : /\ {x.trial : x \in command.records[i]} = Done(i)
                           /\ \A x \in command.records[i] : Own(x, i)
    BY <1>2, <1>4 DEF ReplaySound
  <1>23. Own(r, arm)'
    <2>1. Content(TrialFile(l, round))' = r
      BY <1>19, <1>20, AfterAt DEF Content
    <2>2. command'.labels[arm] = l /\ command'.used = used /\ session' = session
      BY <1>1, <1>7, <1>8, <1>19
    <2> QED
      BY <1>12, <2>1, <2>2 DEF Own
  <1>24. ASSUME NEW i \in 1 .. k, NEW x \in command.records[i]
         PROVE  Own(x, i)'
    <2>1. Own(x, i) /\ x.trial \in Done(i)
      BY <1>22, <1>24
    <2>2. TrialFile(command.labels[i], x.trial) # TrialFile(l, round)
      <3>1. CASE i = arm
        BY <1>21, <2>1, <3>1, Names
      <3>2. CASE i # arm
        <4>1. command.labels[i] # l
          BY <1>2, <1>4, <1>7, <1>24, <3>2
        <4> QED
          BY <4>1, Names
      <3> QED
        BY <3>1, <3>2
    <2>3. Content(TrialFile(command.labels[i], x.trial))' = Content(TrialFile(command.labels[i], x.trial))
      <3>1. command'.labels[i] = command.labels[i]
        BY <1>19
      <3>2. \A j \in 1 .. Len(s) : s[j][1] # TrialFile(command.labels[i], x.trial)
        BY <1>13, <2>2
      <3>3. After(disk, s, TrialFile(command.labels[i], x.trial)) = disk[TrialFile(command.labels[i], x.trial)]
        BY <3>2, AfterElse
      <3> QED
        BY <1>1, <1>2, <1>19, <3>1, <3>3 DEF Content
    <2> QED
      BY <1>1, <1>19, <2>1, <2>3 DEF Own
  <1>25. ASSUME NEW i \in 1 .. k
         PROVE  /\ {x.trial : x \in records[i]} = Done(i)'
                /\ \A x \in records[i] : Own(x, i)'
    <2>1. CASE i = arm
      <3>1. records[i] = command.records[i] \union {r}
        BY <1>16, <2>1
      <3>2. {x.trial : x \in records[i]} = {x.trial : x \in command.records[i]} \union {r.trial}
        BY <3>1
      <3> QED
        BY <1>12, <1>21, <1>22, <1>23, <1>24, <2>1, <3>1, <3>2
    <2>2. CASE i # arm
      BY <1>16, <1>21, <1>22, <1>24, <2>2
    <2> QED
      BY <2>1, <2>2
  <1>26. /\ Len(command'.records) = Len(command'.labels)
         /\ Len(command'.executors) = Len(command'.labels)
         /\ \A i \in 1 .. Len(command'.labels) :
              /\ {x.trial : x \in command'.records[i]} = Done(i)'
              /\ \A x \in command'.records[i] : Own(x, i)'
    BY <1>2, <1>4, <1>16, <1>19, <1>25 DEF ReplaySound
  <1>27. /\ command'.round \in 1 .. Cardinality(command'.trials) + 1
         /\ command'.turn \in 1 .. Len(command'.labels)
         /\ command'.pc = "trials" <=> command'.round <= Cardinality(command'.trials)
         /\ command'.pc # "trials" => command'.turn = 1
    <2>1. k \in 1 .. 2
      BY <1>4
    <2>2. next \in 1 .. k /\ after \in 1 .. m + 1 /\ (pc = "trials" <=> after <= m)
          /\ (pc # "trials" => next = 1)
      BY ONLY <1>3, <1>5, <1>17, <2>1
    <2> QED
      BY <1>3, <1>4, <1>19, <2>2
  <1>28. command'.exit # "0"
    BY <1>1, <1>2, <1>19 DEF ReplaySound
  <1>29. ReplaySound'
    BY <1>19, <1>26, <1>27, <1>28 DEF ReplaySound
  <1>30. SummariesSound'
    BY <1>17, <1>19 DEF SummariesSound
  <1> QED
    BY <1>1, <1>2, <1>19, <1>20, <1>29, <1>30, GoesOn

\* A replay that has run its trials holds them all, whole, as the disk does.
LEMMA ReplayDone ==
    ASSUME CampaignInv, Saved, command.name = "replay", command.pc # "trials",
           NEW i \in 1 .. Len(command.labels)
    PROVE  /\ command.records[i] \in SUBSET TrialRec
           /\ {r.trial : r \in command.records[i]} = command.trials
           /\ Complete(command.records[i]) = command.records[i] /\ command.records[i] # {}
           /\ \A r \in command.records[i] :
                /\ disk[TrialFile(command.labels[i], r.trial)] = r
                /\ r.session = session /\ r.config.digest = command.used
  <1>1. /\ ReplaySound /\ command \in ReplayCommand /\ Len(command.labels) \in 1 .. 2
        /\ \A f : Content(f) = disk[f]
    BY ReplaySavedSound
  <1>2. PICK m \in Trial : command.trials = 1 .. m /\ Cardinality(command.trials) = m /\ m \in Nat
    BY ReplaySavedSound
  <1>3. command.round = m + 1
    BY <1>1, <1>2 DEF ReplaySound
  <1>4. Done(i) = 1 .. m
    <2>1. \A n \in 1 .. m : n < m + 1
      BY ONLY <1>2
    <2> QED
      BY <1>2, <1>3, <2>1 DEF Done
  <1>5. {r.trial : r \in command.records[i]} = 1 .. m /\ \A r \in command.records[i] : Own(r, i)
    BY <1>1, <1>4 DEF ReplaySound
  <1>6. command.records[i] \in SUBSET TrialRec
    <2>1. command.records \in Seq(SUBSET TrialRec) /\ Len(command.records) = Len(command.labels)
      BY <1>1 DEF ReplaySound, ReplayCommand
    <2> QED
      BY <2>1
  <1>7. command.records[i] # {}
    <2>1. m \in Nat \ {0}
      BY RoundsOfTrials
    <2>2. 1 \in 1 .. m
      BY ONLY <2>1
    <2> QED
      BY <1>5, <2>2
  <1>8. Complete(command.records[i]) = command.records[i]
    BY <1>5 DEF Own, Complete
  <1>9. ASSUME NEW r \in command.records[i]
        PROVE  /\ disk[TrialFile(command.labels[i], r.trial)] = r
               /\ r.session = session /\ r.config.digest = command.used
    BY <1>1, <1>5, <1>9 DEF Own
  <1> QED
    BY <1>2, <1>5, <1>6, <1>7, <1>8, <1>9

LEMMA ReplaySummary ==
    ASSUME CampaignInv, Saved, command.name = "replay", command.pc # "trials",
           NEW i \in 1 .. Len(command.labels)
    PROVE  /\ Summarize(command.records[i]) \in SummaryRec
           /\ Current("replay", command.labels[i], Summarize(command.records[i]))
  <1>1. PICK S, l : S = command.records[i] /\ l = command.labels[i]
    OBVIOUS
  <1>2. /\ S \in SUBSET TrialRec /\ Complete(S) = S /\ S # {}
        /\ \A r \in S : disk[TrialFile(l, r.trial)] = r
    BY <1>1, ReplayDone
  <1>3. Summarize(S) \in SummaryRec
    BY <1>2, SummarizeType
  <1>4. Current("replay", l, Summarize(S))
    BY <1>2, SummaryCurrent
  <1> QED
    BY <1>1, <1>3, <1>4

LEMMA SummarizeReplayedKeeps ==
    ASSUME CampaignInv, SummarizeReplayed
    PROVE  CampaignInv'
  <1>1. /\ Saved /\ command.name = "replay" /\ command.pc = "summaries"
        /\ UNCHANGED <<disk, session, last>>
    BY DEF SummarizeReplayed
  <1>2. /\ command # Idle /\ command.saves = <<>> /\ ReplaySound /\ command \in ReplayCommand
        /\ session \in Nat /\ DiskSound /\ last = NoneYet
        /\ Len(command.labels) \in 1 .. 2
        /\ \A i \in 1 .. Len(command.labels) : command.labels[i] \in Label
        /\ \A i, j \in 1 .. Len(command.labels) : command.labels[i] = command.labels[j] => i = j
        /\ \A f : Content(f) = disk[f]
    BY <1>1, ReplaySavedSound
  <1>3. PICK k \in 1 .. 2 : k = Len(command.labels)
    BY <1>2
  <1>4. DOMAIN command.labels = 1 .. k
    <2>1. command.labels \in Labels
      BY <1>2 DEF ReplayCommand
    <2> QED
      BY <1>3, <2>1 DEF Labels
  <1>5. PICK s : s = [i \in 1 .. k |->
                        <<SummaryFile(command.labels[i]), Summarize(command.records[i])>>]
    OBVIOUS
  <1>6. ASSUME NEW i \in 1 .. k
        PROVE  /\ s[i] \in Write /\ s[i][1] = SummaryFile(command.labels[i])
               /\ s[i][2] = Summarize(command.records[i]) /\ command.labels[i] \in Label
               /\ Summarize(command.records[i]) \in SummaryRec
               /\ Current("replay", command.labels[i], Summarize(command.records[i]))
    <2>1. /\ Summarize(command.records[i]) \in SummaryRec
          /\ Current("replay", command.labels[i], Summarize(command.records[i]))
      BY <1>1, <1>3, <1>6, ReplaySummary
    <2>2. command.labels[i] \in Label
      BY <1>2, <1>3, <1>6
    <2>3. s[i] = <<SummaryFile(command.labels[i]), Summarize(command.records[i])>>
      BY <1>5, <1>6
    <2> QED
      BY <2>1, <2>2, <2>3, SummaryWritten
  <1>7. s \in Seq(Write) /\ Len(s) = k
    <2>1. s = [i \in 1 .. k |-> s[i]]
      BY <1>5
    <2>2. \A i \in 1 .. k : s[i] \in Write
      BY <1>6
    <2> QED
      BY ONLY <2>1, <2>2, k \in 1 .. 2
  <1>8. PICK exit \in {"0", "1"} : exit = IF Passed(command.records) THEN "0" ELSE "1"
    OBVIOUS
  <1>9. command' = [command EXCEPT !.pc = "exit", !.exit = exit, !.saves = s]
    BY <1>4, <1>5, <1>8 DEF SummarizeReplayed
  <1>10. /\ command' \in ReplayCommand /\ command'.saves = s /\ command'.pc = "exit"
         /\ command'.exit = exit /\ command'.name = command.name
         /\ command'.labels = command.labels /\ command'.trials = command.trials
         /\ command'.executors = command.executors /\ command'.used = command.used
         /\ command'.records = command.records /\ command'.round = command.round
         /\ command'.turn = command.turn
    BY ONLY <1>2, <1>7, <1>8, <1>9 DEF ReplayCommand
  <1>11. Apart(s)
    <2>1. ASSUME NEW i \in 1 .. Len(s), NEW j \in 1 .. Len(s), s[i][1] = s[j][1]
          PROVE  i = j
      <3>1. command.labels[i] = command.labels[j]
        BY <1>6, <1>7, <2>1, Names
      <3> QED
        BY <1>2, <1>3, <1>7, <2>1, <3>1
    <2> QED
      BY <2>1 DEF Apart
  <1>12. \A j \in 1 .. Len(command'.saves) : \E l \in Label : command'.saves[j][1] = SummaryFile(l)
    BY <1>6, <1>7, <1>10
  <1>13. ASSUME NEW i \in 1 .. k
         PROVE  Current(command.name, command.labels[i], Content(SummaryFile(command.labels[i])))'
    <2>1. PICK l, x : l = command.labels[i] /\ x = Summarize(command.records[i])
      OBVIOUS
    <2>2. /\ x \in SummaryRec /\ Current("replay", l, x)
          /\ s[i][1] = SummaryFile(l) /\ s[i][2] = x
      BY <1>6, <2>1
    <2>3. x.is = "summary" => x.trials \subseteq Trial
      BY <2>2 DEF SummaryRec
    <2>4. Current("replay", l, x)'
      BY <1>1, <2>2, <2>3, CurrentKept
    <2>5. Holds(s, SummaryFile(l), x)
      BY <1>7, <1>13, <2>2 DEF Holds
    <2>6. Content(SummaryFile(l))' = x
      <3>1. Apart(command'.saves) /\ Holds(command'.saves, SummaryFile(l), x)
        BY <1>10, <1>11, <2>5
      <3> QED
        BY <3>1, AfterAt DEF Content
    <2>7. command'.name = "replay" /\ command'.labels[i] = l
      BY <1>1, <1>10, <2>1
    <2>8. Content(SummaryFile(command.labels[i]))' = x
      BY <2>6, <2>7
    <2> QED
      BY ONLY <2>4, <2>7, <2>8 DEF Current
  <1>14. SummariesSound'
    <2>1. Len(command'.labels) = k
      BY <1>3, <1>10
    <2> QED
      BY <1>12, <1>13, <2>1 DEF SummariesSound
  <1>15. ASSUME NEW l, NEW n
         PROVE  Content(TrialFile(l, n))' = Content(TrialFile(l, n))
    <2>1. \A j \in 1 .. Len(s) : s[j][1] # TrialFile(l, n)
      BY <1>6, <1>7, Names
    <2>2. After(disk, s, TrialFile(l, n)) = disk[TrialFile(l, n)]
      BY <2>1, AfterElse
    <2> QED
      BY <1>1, <1>2, <1>10, <2>2 DEF Content
  <1>16. ASSUME NEW i \in 1 .. k, NEW x \in command.records[i]
         PROVE  Own(x, i)'
    <2>1. Own(x, i)
      BY <1>2, <1>3, <1>16 DEF ReplaySound
    <2>2. Content(TrialFile(command.labels[i], x.trial))' = Content(TrialFile(command.labels[i], x.trial))
      BY <1>10, <1>15
    <2> QED
      BY <1>1, <1>10, <2>1, <2>2 DEF Own
  <1>17. \A i : Done(i)' = Done(i)
    BY <1>10 DEF Done
  <1>18. \A i \in 1 .. Len(command'.labels) :
           /\ {r.trial : r \in command'.records[i]} = Done(i)'
           /\ \A r \in command'.records[i] : Own(r, i)'
    BY <1>2, <1>3, <1>10, <1>16, <1>17 DEF ReplaySound
  <1>19. /\ Len(command'.records) = Len(command'.labels)
         /\ Len(command'.executors) = Len(command'.labels)
         /\ command'.round \in 1 .. Cardinality(command'.trials) + 1
         /\ command'.turn \in 1 .. Len(command'.labels)
         /\ ~(command'.round <= Cardinality(command'.trials))
         /\ command'.turn = 1
    BY <1>1, <1>2, <1>10 DEF ReplaySound
  <1>20. command'.exit = "0" => Passed(command'.records)
    BY <1>8, <1>10
  <1>21. Passed(command'.records) => Passed(command.records)'
    BY DEF Passed, OutcomesMatch, ReplayPassed, Summarize, Complete
  <1>22. ReplaySound'
    BY <1>10, <1>18, <1>19, <1>20, <1>21 DEF ReplaySound
  <1> QED
    BY <1>1, <1>2, <1>10, <1>11, <1>14, <1>22, GoesOn

-----------------------------------------------------------------------------
(* Exit.                                                                   *)

\* What a command leaves to say once it has saved everything and exits.
LEMMA ExitFields ==
    ASSUME CampaignInv, Exit
    PROVE  /\ command # Idle /\ command.saves = <<>> /\ command.pc = "exit" /\ Saved
           /\ UNCHANGED <<disk, session>> /\ command' = Idle
           /\ CommandSound /\ DiskSound /\ DiskSound' /\ session \in Nat
           /\ last'.name = command.name /\ last'.labels = command.labels
           /\ last'.exit = command.exit /\ last'.trials = command.trials
           /\ last'.recorder = command.recorder
           /\ \A f : Content(f) = disk[f]
           /\ DOMAIN command.labels = 1 .. Len(command.labels)
  <1>1. /\ command # Idle /\ command.saves = <<>> /\ command.pc = "exit" /\ Saved
        /\ UNCHANGED <<disk, session>> /\ Ends(command.exit)
    BY DEF Exit, Saved
  <1>2. CommandSound /\ DiskSound /\ session \in Nat
    BY <1>1 DEF CampaignInv
  <1>3. \A f : Content(f) = disk[f]
    BY <1>1, AfterNone DEF Content
  <1>4. DOMAIN command.labels = 1 .. Len(command.labels)
    <2>1. CASE RecordSound
      BY <2>1 DEF RecordSound, RecordCommand
    <2>2. CASE ReplaySound
      <3>1. command.labels \in Labels
        BY <2>2 DEF ReplaySound, ReplayCommand
      <3> QED
        BY <3>1 DEF Labels
    <2>3. CASE command \in SummarizeCommand
      BY <2>3 DEF SummarizeCommand
    <2> QED
      BY <1>2, <2>1, <2>2, <2>3 DEF CommandSound
  <1>5. command' = Idle /\ last' = [name |-> command.name, labels |-> command.labels,
                                    exit |-> command.exit, trials |-> command.trials,
                                    recorder |-> command.recorder]
    BY <1>1 DEF Ends
  <1>6. DiskSound'
    BY <1>1, <1>2, DiskKept
  <1> QED
    BY <1>1, <1>2, <1>3, <1>4, <1>5, <1>6

LEMMA ExitCurrent ==
    ASSUME CampaignInv, Exit
    PROVE  ExitZeroMeansCurrent'
  <1>1. /\ command.pc = "exit" /\ UNCHANGED <<disk, session>> /\ CommandSound /\ DiskSound
        /\ last'.name = command.name /\ last'.labels = command.labels
        /\ \A f : Content(f) = disk[f] /\ DOMAIN command.labels = 1 .. Len(command.labels)
    BY ExitFields
  <1>2. ASSUME NEW i \in DOMAIN command.labels
        PROVE  Current(last.name, last.labels[i], disk[SummaryFile(last.labels[i])])'
    <2>1. PICK name, l, s : name = command.name /\ l = command.labels[i] /\ s = disk[SummaryFile(l)]
      OBVIOUS
    <2>2. l \in Label /\ Content(SummaryFile(l)) = s
      BY <1>1, <1>2, <2>1, CommandFields
    <2>3. Current(name, l, s)
      BY <1>1, <1>2, <2>1, <2>2 DEF CommandSound, SummariesSound
    <2>4. s.is = "summary" => s.trials \subseteq Trial
      BY <1>1, <2>2, SummaryTrials
    <2>5. Current(name, l, s)'
      BY <1>1, <2>3, <2>4, CurrentKept
    <2>6. last'.labels[i] = l /\ disk'[SummaryFile(l)] = s /\ last'.name = name
      BY <1>1, <2>1
    <2> QED
      BY ONLY <2>5, <2>6 DEF Current
  <1> QED
    BY <1>1, <1>2 DEF ExitZeroMeansCurrent, Current

\* replay_passed, over all the arms' records.
LEMMA PassedMeans ==
    ASSUME NEW records, Passed(records), NEW i \in DOMAIN records, NEW j \in DOMAIN records,
           NEW t \in records[i], NEW u \in records[j], ~t.interrupted
    PROVE  t.jobs = u.jobs /\ "diverged" \notin Range(t.jobs)
  <1>1. t.jobs = u.jobs
    BY DEF Passed, OutcomesMatch
  <1>2. PICK S : S = records[i]
    OBVIOUS
  <1>3. ~Summarize(S).failed_harness
    BY <1>2 DEF Passed, ReplayPassed
  <1>4. t \in Complete(S)
    BY <1>2 DEF Complete
  <1>5. \A x \in DOMAIN t.jobs : t.jobs[x] # "diverged"
    BY <1>3, <1>4, SummarizeFields
  <1> QED
    BY <1>1, <1>5 DEF Range

LEMMA ExitAgree ==
    ASSUME CampaignInv, Exit
    PROVE  PassedReplaysAgree'
  <1>1. /\ command.pc = "exit" /\ UNCHANGED <<disk, session>> /\ Saved
        /\ last'.name = command.name /\ last'.labels = command.labels
        /\ last'.exit = command.exit /\ last'.trials = command.trials
        /\ DOMAIN command.labels = 1 .. Len(command.labels)
    BY ExitFields
  <1> SUFFICES ASSUME command.name = "replay", command.exit = "0"
               PROVE  LET left == {disk'[TrialFile(l, n)] : l \in Range(last'.labels), n \in last'.trials}
                      IN  /\ \A t \in left : t.is = "trial" /\ t.session = session'
                          /\ \A t, u \in left : t.jobs = u.jobs /\ t.config.digest = u.config.digest
                          /\ \A t \in left : "diverged" \notin Range(t.jobs)
    BY <1>1 DEF PassedReplaysAgree
  <1>2. ReplaySound /\ command \in ReplayCommand
    BY <1>1, ReplaySavedSound
  <1>3. Passed(command.records) /\ DOMAIN command.records = 1 .. Len(command.labels)
    <2>1. command.records \in Seq(SUBSET TrialRec)
      BY <1>2 DEF ReplayCommand
    <2> QED
      BY <1>2, <2>1 DEF ReplaySound
  <1>4. \A t \in {disk'[TrialFile(l, n)] : l \in Range(last'.labels), n \in last'.trials} :
            \E l \in Range(command.labels), n \in command.trials : t = disk[TrialFile(l, n)]
    BY <1>1
  <1> DEFINE left == {disk'[TrialFile(l, n)] : l \in Range(last'.labels), n \in last'.trials}
  <1>5. ASSUME NEW t \in left
        PROVE  /\ \E i \in DOMAIN command.records : t \in command.records[i]
               /\ t.is = "trial" /\ t.session = session /\ t.config.digest = command.used
               /\ ~t.interrupted
    <2>1. PICK l \in Range(command.labels), n \in command.trials : t = disk[TrialFile(l, n)]
      BY <1>4, <1>5
    <2>2. PICK i \in 1 .. Len(command.labels) : l = command.labels[i]
      BY <1>1, <2>1 DEF Range
    <2>3. PICK S : S = command.records[i]
      OBVIOUS
    <2>4. /\ S \in SUBSET TrialRec /\ {r.trial : r \in S} = command.trials /\ Complete(S) = S
          /\ \A r \in S : /\ disk[TrialFile(l, r.trial)] = r
                          /\ r.session = session /\ r.config.digest = command.used
      BY <1>1, <2>2, <2>3, ReplayDone
    <2>5. PICK r \in S : r.trial = n
      BY <2>1, <2>4
    <2>6. t = r /\ t \in TrialRec
      BY <2>1, <2>4, <2>5
    <2>7. ~t.interrupted
      BY <2>4, <2>5, <2>6 DEF Complete
    <2>8. i \in DOMAIN command.records /\ t \in command.records[i]
      BY <1>3, <2>2, <2>3, <2>5, <2>6
    <2> QED
      BY <2>4, <2>5, <2>6, <2>7, <2>8, Kinds
  <1>6. ASSUME NEW t \in left, NEW u \in left
        PROVE  /\ t.jobs = u.jobs /\ t.config.digest = u.config.digest
               /\ "diverged" \notin Range(t.jobs)
    <2>1. PICK i \in DOMAIN command.records : t \in command.records[i]
      BY <1>5
    <2>2. PICK j \in DOMAIN command.records : u \in command.records[j]
      BY <1>5
    <2>3. t.jobs = u.jobs /\ "diverged" \notin Range(t.jobs)
      BY <1>3, <1>5, <2>1, <2>2, PassedMeans
    <2> QED
      BY <1>5, <2>3
  <1> QED
    BY <1>1, <1>5, <1>6

LEMMA ExitWhole ==
    ASSUME CampaignInv, Exit
    PROVE  RecordingsAreWhole'
  <1>1. /\ command.pc = "exit" /\ UNCHANGED <<disk, session>> /\ CommandSound /\ DiskSound'
        /\ last'.exit = command.exit /\ last'.recorder = command.recorder
        /\ \A f : Content(f) = disk[f]
    BY ExitFields
  <1>2. ASSUME command.exit = "0", command.recorder = "sequential", NEW t \in Task
        PROVE  disk'[RecordingFile(t)].is = "recording" /\ disk'[RecordingFile(t)].session = session'
    <2>1. RecordSound
      BY <1>1, <1>2 DEF CommandSound, ReplaySound, ReplayCommand, SummarizeCommand
    <2>2. Len(command.jobs) = Cardinality(Task) /\ JobsRecorded
      BY <1>1, <1>2, <2>1 DEF RecordSound
    <2>3. t \in 1 .. Len(command.jobs)
      BY <2>2, Sizes
    <2> QED
      BY <1>1, <1>2, <2>2, <2>3 DEF JobsRecorded
  <1>3. ASSUME NEW t \in Task, disk'[RecordingFile(t)].is = "recording",
               disk'[RecordingFile(t)].executor = "sequential"
        PROVE  disk'[RecordingFile(t)].outcome # "capped"
    BY <1>1, <1>3, Playable
  <1> QED
    BY <1>1, <1>2, <1>3 DEF RecordingsAreWhole

LEMMA ExitKeeps ==
    ASSUME CampaignInv, Exit
    PROVE  CampaignInv'
  <1>1. /\ UNCHANGED <<disk, session>> /\ command' = Idle /\ DiskSound' /\ session \in Nat
        /\ last'.name = command.name /\ CommandSound
    BY ExitFields
  <1>2. last'.name # "compare"
    BY <1>1 DEF CommandSound, RecordSound, RecordCommand, ReplaySound, ReplayCommand, SummarizeCommand
  <1>3. ComparedRunsDifferAsDeclared'
    BY <1>2 DEF ComparedRunsDifferAsDeclared
  <1> QED
    BY <1>1, <1>3, ExitCurrent, ExitAgree, ExitWhole DEF LastSound, CampaignInv

-----------------------------------------------------------------------------
(* compare.                                                                *)

Part(S, t) == {p \in S : p[2] = t}

\* Two sets of pairs with as many for every second member are as large.
LEMMA SameByPart ==
    ASSUME NEW A, NEW B, IsFiniteSet(A), IsFiniteSet(B),
           \A p \in A \union B : Cardinality(Part(A, p[2])) = Cardinality(Part(B, p[2]))
    PROVE  Cardinality(A) = Cardinality(B)
  <1> DEFINE bij(t) == CHOOSE f : f \in Bijection(Part(A, t), Part(B, t))
  <1>1. ASSUME NEW p \in A \union B
        PROVE  bij(p[2]) \in Bijection(Part(A, p[2]), Part(B, p[2]))
    <2>1. PICK X, Y : X = Part(A, p[2]) /\ Y = Part(B, p[2])
      OBVIOUS
    <2>2. X \in SUBSET A /\ Y \in SUBSET B
      BY <2>1 DEF Part
    <2>3. IsFiniteSet(X) /\ IsFiniteSet(Y)
      BY <2>2, FS_Subset
    <2>4. Cardinality(X) = Cardinality(Y)
      BY <1>1, <2>1
    <2>5. ExistsBijection(X, Y)
      BY <2>3, <2>4, FS_SameCardinalityBij
    <2>6. \E f : f \in Bijection(X, Y)
      BY <2>5 DEF ExistsBijection
    <2> QED
      BY <2>1, <2>6
  <1>2. ASSUME NEW p \in A \union B
        PROVE  /\ \A x \in Part(A, p[2]) : bij(p[2])[x] \in Part(B, p[2])
               /\ \A x, y \in Part(A, p[2]) : bij(p[2])[x] = bij(p[2])[y] => x = y
               /\ \A y \in Part(B, p[2]) : \E x \in Part(A, p[2]) : bij(p[2])[x] = y
    <2>1. PICK f, X, Y : f = bij(p[2]) /\ X = Part(A, p[2]) /\ Y = Part(B, p[2])
      OBVIOUS
    <2>2. f \in Bijection(X, Y)
      BY <1>1, <1>2, <2>1
    <2>3. f \in [X -> Y] /\ (\A x, y \in X : f[x] = f[y] => x = y) /\ \A y \in Y : \E x \in X : f[x] = y
      BY <2>2, Fun_BijectionProperties
    <2> HIDE DEF bij
    <2> QED
      BY <2>1, <2>3
  <1> HIDE DEF bij
  <1>3. PICK g : g = [p \in A |-> bij(p[2])[p]]
    OBVIOUS
  <1>4. ASSUME NEW p \in A PROVE p \in Part(A, p[2]) /\ g[p] \in Part(B, p[2]) /\ g[p] = bij(p[2])[p]
    <2>1. p \in Part(A, p[2]) /\ g[p] = bij(p[2])[p]
      BY <1>3 DEF Part
    <2> QED
      BY <1>2, <2>1
  <1>5. g \in [A -> B] /\ \A p \in A : g[p][2] = p[2]
    BY <1>3, <1>4 DEF Part
  <1>6. ASSUME NEW p \in A, NEW q \in A, g[p] = g[q] PROVE p = q
    <2>1. p[2] = q[2]
      BY <1>5, <1>6
    <2>2. q \in Part(A, p[2]) /\ bij(p[2])[p] = bij(p[2])[q]
      BY <1>4, <1>6, <2>1
    <2> QED
      BY <1>2, <1>4, <2>2
  <1>7. ASSUME NEW y \in B PROVE \E p \in A : g[p] = y
    <2>1. y \in Part(B, y[2])
      BY DEF Part
    <2>2. PICK p \in Part(A, y[2]) : bij(y[2])[p] = y
      BY <1>2, <2>1
    <2>3. p \in A /\ p[2] = y[2]
      BY <2>2 DEF Part
    <2> QED
      BY <1>4, <2>2, <2>3
  <1>8. g \in Bijection(A, B)
    BY <1>5, <1>6, <1>7, Fun_IsBij
  <1>9. ExistsBijection(A, B)
    BY <1>8 DEF ExistsBijection
  <1> QED
    BY <1>9, FS_Bijection

LEMMA PairsSound ==
    ASSUME NEW b, NEW c
    PROVE  IsFiniteSet(Pairs(b, c)) /\ Pairs(c, b) = Pairs(b, c) /\ \A p \in Pairs(b, c) : p[2] \in Task
  <1>1. Rounds(c, b) = Rounds(b, c)
    BY DEF Rounds
  <1>2. Rounds(b, c) \in SUBSET Trial
    BY DEF Rounds
  <1>3. IsFiniteSet(Rounds(b, c))
    BY <1>2, Sizes, FS_Subset
  <1>4. IsFiniteSet(Rounds(b, c) \X Task)
    BY <1>3, Sizes, FS_Product
  <1>5. Pairs(b, c) \in SUBSET (Rounds(b, c) \X Task)
    BY DEF Pairs
  <1>6. IsFiniteSet(Pairs(b, c))
    BY <1>4, <1>5, FS_Subset
  <1>7. Pairs(c, b) = Pairs(b, c)
    BY <1>1 DEF Pairs
  <1> QED
    BY <1>5, <1>6, <1>7

\* _moved_tasks counts tasks over the rounds, better and worse pairs are
\* counted run by run: none moved, and they balance.
LEMMA NoneMovedBalances ==
    ASSUME NEW b, NEW c, Moved(b, c) = {}
    PROVE  Flips(b, c) = Flips(c, b)
  <1>1. PICK P : P = Pairs(b, c)
    OBVIOUS
  <1>2. IsFiniteSet(P) /\ Pairs(c, b) = P /\ \A p \in P : p[2] \in Task
    BY <1>1, PairsSound
  <1>3. PICK B : B = {p \in P : Met(CameOut(b, p))}
    OBVIOUS
  <1>4. PICK C : C = {p \in P : Met(CameOut(c, p))}
    OBVIOUS
  <1>5. IsFiniteSet(B) /\ IsFiniteSet(C)
    BY <1>2, <1>3, <1>4, FS_Subset
  <1>6. ASSUME NEW t \in Task
        PROVE  Cardinality(Part(B, t)) = Cardinality(Part(C, t))
    <2>1. [o \in {"solved", "capped", "diverged"} \union Underneath |->
             Cardinality({p \in Pairs(b, c) : p[2] = t /\ CameOut(b, p) = o})] =
          [o \in {"solved", "capped", "diverged"} \union Underneath |->
             Cardinality({p \in Pairs(b, c) : p[2] = t /\ CameOut(c, p) = o})]
      BY <1>6 DEF Moved
    <2>2. Cardinality({p \in P : p[2] = t /\ CameOut(b, p) = "solved"}) =
          Cardinality({p \in P : p[2] = t /\ CameOut(c, p) = "solved"})
      BY <1>1, <2>1
    <2>3. Part(B, t) = {p \in P : p[2] = t /\ CameOut(b, p) = "solved"}
      BY <1>3 DEF Part, Met
    <2>4. Part(C, t) = {p \in P : p[2] = t /\ CameOut(c, p) = "solved"}
      BY <1>4 DEF Part, Met
    <2> QED
      BY ONLY <2>2, <2>3, <2>4
  <1>7. \A p \in B \union C : p[2] \in Task
    BY <1>2, <1>3, <1>4
  <1>8. Cardinality(B) = Cardinality(C)
    BY <1>5, <1>6, <1>7, SameByPart
  <1>9. Flips(b, c) = Cardinality(C \ B)
    <2>1. {p \in Pairs(b, c) : Met(CameOut(c, p)) /\ ~Met(CameOut(b, p))} = C \ B
      BY <1>1, <1>3, <1>4
    <2> QED
      BY <2>1 DEF Flips
  <1>10. Flips(c, b) = Cardinality(B \ C)
    <2>1. {p \in Pairs(c, b) : Met(CameOut(b, p)) /\ ~Met(CameOut(c, p))} = B \ C
      BY <1>2, <1>3, <1>4
    <2> QED
      BY <2>1 DEF Flips
  <1>11. /\ Cardinality(C \ B) = Cardinality(C) - Cardinality(C \intersect B)
         /\ Cardinality(B \ C) = Cardinality(B) - Cardinality(B \intersect C)
    BY <1>5, FS_Difference
  <1>12. C \intersect B = B \intersect C
    OBVIOUS
  <1> QED
    BY <1>8, <1>9, <1>10, <1>11, <1>12

LEMMA RoundsWhole ==
    ASSUME DiskSound, NEW b \in Label, NEW c \in Label, CanCompare(b, c), NEW n \in Rounds(b, c)
    PROVE  /\ Len(disk[TrialFile(b, n)].jobs) = Cardinality(Task)
           /\ Len(disk[TrialFile(c, n)].jobs) = Cardinality(Task)
  <1>1. ASSUME NEW l \in {b, c}
        PROVE  Len(disk[TrialFile(l, n)].jobs) = Cardinality(Task)
    <2>1. n \in Trial /\ disk[TrialFile(l, n)] # Absent /\ ~disk[TrialFile(l, n)].interrupted
      BY <1>1 DEF Rounds
    <2>2. disk[TrialFile(l, n)] # Torn
      <3>1. Loads(l)
        BY <1>1 DEF CanCompare
      <3>2. disk[TrialFile(l, n)] \in TrialFiles(l)
        BY <2>1 DEF TrialFiles
      <3> QED
        BY <3>1, <3>2 DEF Loads
    <2>3. disk[TrialFile(l, n)] \in TrialContent(n)
      BY <1>1, <2>1, <2>2, TrialsOnDisk
    <2> QED
      BY <2>1, <2>3 DEF TrialContent
  <1> QED
    BY <1>1

\* What a comparison found of a run's configuration is every paired trial's.
LEMMA FoundConfig ==
    ASSUME NEW l, NEW rounds, NEW n \in rounds, OneConfig(Paired(l, rounds))
    PROVE  disk[TrialFile(l, n)].config = (CHOOSE t \in Paired(l, rounds) : TRUE).config
  <1>1. disk[TrialFile(l, n)] \in Paired(l, rounds)
    BY DEF Paired
  <1> QED
    BY <1>1 DEF OneConfig

LEMMA ComparisonFields ==
    ASSUME NEW b, NEW c, NEW expect
    PROVE  /\ Comparison(b, c, expect).rounds = Rounds(b, c)
           /\ Comparison(b, c, expect).better_pairs = Flips(b, c)
           /\ Comparison(b, c, expect).worse_pairs = Flips(c, b)
           /\ Comparison(b, c, expect).tasks = Moved(b, c)
           /\ Comparison(b, c, expect).unexpected_changes =
                {f \in Field : (CHOOSE t \in Paired(b, Rounds(b, c)) : TRUE).config[f]
                                  # (CHOOSE t \in Paired(c, Rounds(b, c)) : TRUE).config[f]} \ expect
  BY DEF Comparison

LEMMA CompareKeeps ==
    ASSUME CampaignInv, NEW b \in Label, NEW c \in Label, NEW expect, Compare(b, c, expect)
    PROVE  CampaignInv'
  <1>1. /\ command' = Idle /\ session' = session + 1 /\ UNCHANGED disk
        /\ session \in Nat /\ DiskSound
    BY DEF Compare, CampaignInv
  <1>2. session' \in Nat /\ DiskSound'
    BY <1>1, DiskKept
  <1>3. CASE ~CanCompare(b, c)
    <2>1. last' = [NoneYet EXCEPT !.name = "compare", !.exit = "refused"]
      BY <1>3 DEF Compare
    <2>2. last'.exit # "0"
      BY <2>1 DEF NoneYet
    <2> QED
      BY <1>1, <1>2, <2>2, Stops
  <1>4. CASE CanCompare(b, c)
    <2>1. PICK found, exit : /\ found = Comparison(b, c, expect)
                             /\ exit = IF expect # {} /\ found.unexpected_changes # {} THEN "2" ELSE "0"
      OBVIOUS
    <2>2. last' = [name |-> "compare", labels |-> <<b, c>>, recorder |-> "nobody",
                   expect |-> expect, found |-> found, exit |-> exit]
      BY <1>4, <2>1 DEF Compare
    <2>3. /\ last'.name = "compare" /\ last'.labels = <<b, c>> /\ last'.recorder = "nobody"
          /\ last'.expect = expect /\ last'.found = found /\ last'.exit = exit
      BY <2>2
    <2>4. ExitZeroMeansCurrent' /\ PassedReplaysAgree'
      BY <2>3 DEF ExitZeroMeansCurrent, PassedReplaysAgree
    <2>5. RecordingsAreWhole'
      <3>1. ASSUME NEW t \in Task, disk'[RecordingFile(t)].is = "recording",
                   disk'[RecordingFile(t)].executor = "sequential"
            PROVE  disk'[RecordingFile(t)].outcome # "capped"
        BY <1>2, <3>1, Playable
      <3> QED
        BY <2>3, <3>1 DEF RecordingsAreWhole
    <2>6. ASSUME NEW n \in found.rounds
          PROVE  /\ n \in Rounds(b, c)
                 /\ Len(disk[TrialFile(b, n)].jobs) = Cardinality(Task)
                 /\ Len(disk[TrialFile(c, n)].jobs) = Cardinality(Task)
      <3>1. n \in Rounds(b, c)
        BY <2>1, <2>6, ComparisonFields
      <3> QED
        BY <1>1, <1>4, <3>1, RoundsWhole
    <2>7. ASSUME exit = "0", expect # {}, NEW n \in found.rounds, NEW f \in Field \ expect
          PROVE  disk[TrialFile(b, n)].config[f] = disk[TrialFile(c, n)].config[f]
      <3>1. PICK B, C : /\ B = (CHOOSE t \in Paired(b, Rounds(b, c)) : TRUE).config
                        /\ C = (CHOOSE t \in Paired(c, Rounds(b, c)) : TRUE).config
        OBVIOUS
      <3>2. found.unexpected_changes = {g \in Field : B[g] # C[g]} \ expect
        BY <2>1, <3>1, ComparisonFields
      <3>3. found.unexpected_changes = {}
        BY <2>1, <2>7
      <3>4. B[f] = C[f]
        BY <2>7, <3>2, <3>3
      <3>5. n \in Rounds(b, c)
        BY <2>6, <2>7
      <3>6. OneConfig(Paired(b, Rounds(b, c))) /\ OneConfig(Paired(c, Rounds(b, c)))
        BY <1>4 DEF CanCompare
      <3>7. disk[TrialFile(b, n)].config = B
        BY <3>1, <3>5, <3>6, FoundConfig
      <3>8. disk[TrialFile(c, n)].config = C
        BY <3>1, <3>5, <3>6, FoundConfig
      <3> QED
        BY <3>4, <3>7, <3>8
    <2>8. found.tasks = {} => found.better_pairs = found.worse_pairs
      BY <2>1, ComparisonFields, NoneMovedBalances
    <2>9. last'.labels[1] = b /\ last'.labels[2] = c
      BY <2>3
    <2>10. ComparedRunsDifferAsDeclared'
      BY <1>1, <2>3, <2>6, <2>7, <2>8, <2>9 DEF ComparedRunsDifferAsDeclared
    <2> QED
      BY <1>1, <1>2, <2>4, <2>5, <2>10 DEF LastSound, CampaignInv
  <1> QED
    BY <1>3, <1>4

-----------------------------------------------------------------------------
(* The invariant.                                                          *)

LEMMA InitSound ==
    ASSUME Init
    PROVE  CampaignInv
  <1>1. session \in Nat /\ command = Idle /\ last = NoneYet
    BY DEF Init
  <1>2. disk = [f \in File |-> IF f[1] = "recording" THEN Shipped ELSE Absent]
    BY DEF Init
  <1>3. Shipped \in RecordingContent
    BY DEF Shipped, RecordingContent, RecordingRec, Executor, Outcome
  <1>4. ASSUME NEW f \in File PROVE disk[f] \in {Absent, Torn} \/ Fits(f, disk[f])
    <2>1. CASE f[1] = "recording"
      <3>1. PICK t \in Task : f = RecordingFile(t)
        BY <1>4, <2>1 DEF File, TrialFile, SummaryFile, RecordingFile
      <3>2. disk[f] = Shipped
        BY <1>2, <1>4, <2>1
      <3> QED
        BY <1>3, <3>1, <3>2 DEF Fits
    <2>2. CASE f[1] # "recording"
      BY <1>2, <1>4, <2>2
    <2> QED
      BY <2>1, <2>2
  <1>5. disk = [f \in File |-> disk[f]]
    BY <1>2
  <1>6. DiskSound
    BY <1>4, <1>5 DEF DiskSound
  <1>7. ASSUME NEW t \in Task, disk[RecordingFile(t)].is = "recording",
               disk[RecordingFile(t)].executor = "sequential"
        PROVE  disk[RecordingFile(t)].outcome # "capped"
    <2>1. disk[RecordingFile(t)] \in RecordingContent
      BY <1>6, <1>7, RecordingsOnDisk, Kinds
    <2> QED
      BY <1>7, <2>1 DEF RecordingContent
  <1>8. last.exit = "none" /\ last.name = "none" /\ last.recorder = "nobody"
    BY <1>1 DEF NoneYet
  <1>9. RecordingsAreWhole
    BY <1>7, <1>8 DEF RecordingsAreWhole
  <1>10. ExitZeroMeansCurrent /\ PassedReplaysAgree /\ ComparedRunsDifferAsDeclared
    BY <1>8 DEF ExitZeroMeansCurrent, PassedReplaysAgree, ComparedRunsDifferAsDeclared
  <1> QED
    BY <1>1, <1>6, <1>9, <1>10 DEF CampaignInv, LastSound

LEMMA StutterKeeps ==
    ASSUME CampaignInv, UNCHANGED vars
    PROVE  CampaignInv'
  <1>1. UNCHANGED <<disk, command, session, last>>
    BY DEF vars
  <1>2. DiskSound'
    BY <1>1, DiskKept DEF CampaignInv
  <1>3. SummariesSound' <=> SummariesSound
    BY <1>1 DEF SummariesSound, Current, Content, TrialFiles, Loads
  <1>4. RecordSound' <=> RecordSound
    BY <1>1 DEF RecordSound, JobsRecorded, RecordedFile, Content
  <1>5. ReplaySound' <=> ReplaySound
    BY <1>1 DEF ReplaySound, Done, Own, Content
  <1>6. CommandSound' <=> CommandSound
    BY <1>1, <1>3, <1>4, <1>5 DEF CommandSound
  <1>7. ExitZeroMeansCurrent' <=> ExitZeroMeansCurrent
    BY <1>1 DEF ExitZeroMeansCurrent, TrialFiles, Loads
  <1>8. /\ PassedReplaysAgree' <=> PassedReplaysAgree
        /\ RecordingsAreWhole' <=> RecordingsAreWhole
        /\ ComparedRunsDifferAsDeclared' <=> ComparedRunsDifferAsDeclared
    BY <1>1 DEF PassedReplaysAgree, RecordingsAreWhole, ComparedRunsDifferAsDeclared
  <1> QED
    BY <1>1, <1>2, <1>6, <1>7, <1>8 DEF CampaignInv, LastSound

LEMMA StepSound ==
    ASSUME CampaignInv, [Next]_vars
    PROVE  CampaignInv'
  <1>1. ASSUME NEW n \in Trial, NEW e \in {"sequential", "fleet"}, NEW writes \in BOOLEAN,
               Record(n, e, writes)
        PROVE  CampaignInv'
    BY <1>1, RecordKeeps
  <1>2. ASSUME NEW outcome \in {"solved", "capped"}, RunJob(outcome) PROVE CampaignInv'
    BY <1>2, RunJobKeeps
  <1>3. ASSUME NEW outcomes \in [Task -> {"solved", "capped"} \union Underneath], FleetBatch(outcomes)
        PROVE  CampaignInv'
    BY <1>3, FleetBatchKeeps
  <1>4. CASE FleetFails
    BY <1>4, FleetFailsKeeps
  <1>5. CASE SummarizeRecorded
    BY <1>5, SummarizeRecordedKeeps
  <1>6. ASSUME NEW a \in ReplayArms \union AbArms \union ScaleArms, NEW trials \in Trial,
               Replay(a[1], a[2], trials)
        PROVE  CampaignInv'
    BY <1>6, ReplayKeeps
  <1>7. CASE ReplayRefused
    BY <1>7, RefusedKeeps DEF ReplayRefused
  <1>8. ASSUME NEW outcomes \in [Task -> {"solved", "capped", "diverged"} \union Underneath],
               RunTrial(outcomes)
        PROVE  CampaignInv'
    BY <1>8, RunTrialKeeps
  <1>9. CASE SummarizeReplayed
    BY <1>9, SummarizeReplayedKeeps
  <1>10. ASSUME NEW l \in Label, SummarizeLabel(l) PROVE CampaignInv'
    BY <1>10, SummarizeLabelKeeps
  <1>11. ASSUME NEW l \in Label, SummarizeRefused(l) PROVE CampaignInv'
    BY <1>11, RefusedKeeps DEF SummarizeRefused
  <1>12. ASSUME NEW expect, Compare("ab1", "ab2", expect) PROVE CampaignInv'
    BY <1>12, CompareKeeps DEF Label
  <1>13. ASSUME NEW expect, Compare("real", "replay", expect) PROVE CampaignInv'
    BY <1>13, CompareKeeps DEF Label
  <1>14. CASE Save
    BY <1>14, SaveKeeps
  <1>15. CASE Exit
    BY <1>15, ExitKeeps
  <1>16. CASE Crash
    BY <1>16, CrashKeeps
  <1>17. CASE UNCHANGED vars
    BY <1>17, StutterKeeps
  <1> QED
    BY <1>1, <1>2, <1>3, <1>4, <1>5, <1>6, <1>7, <1>8, <1>9, <1>10, <1>11, <1>12, <1>13, <1>14,
       <1>15, <1>16, <1>17 DEF Next

-----------------------------------------------------------------------------
(* The theorems.                                                           *)

\* The invariant holds (bench/cli.py, records.py): every file holds what its
\* name says or is torn, and the command that runs agrees with what the files
\* will hold once it has saved what it has still to save.
THEOREM CampaignInductive == Spec => []CampaignInv
  <1>1. Init => CampaignInv
    BY InitSound
  <1>2. CampaignInv /\ [Next]_vars => CampaignInv'
    BY StepSound
  <1> QED
    BY <1>1, <1>2, PTL DEF Spec

\* cli.py, record_trial, replay_trials and summarize_label: a command that
\* exits 0 leaves a summary that is true of the trial files beside it,
\* whatever crashes, torn files and other configurations came before.
THEOREM SummariesCurrent == Spec => []ExitZeroMeansCurrent
  <1>1. CampaignInv => ExitZeroMeansCurrent
    BY DEF CampaignInv, LastSound
  <1> QED
    BY <1>1, CampaignInductive, PTL

\* cli.py, replay_passed: the trials a replay that exits 0 leaves on disk, over
\* all its arms, are its own, replayed the same recordings, came out alike job
\* by job, and never strayed.
THEOREM ReplaysAgree == Spec => []PassedReplaysAgree
  <1>1. CampaignInv => PassedReplaysAgree
    BY DEF CampaignInv, LastSound
  <1> QED
    BY <1>1, CampaignInductive, PTL

\* executor.py, stop_check: no recording made in process stops at the daily
\* cap, and a recording in process that exits 0 has made the whole set.
THEOREM RecordingsWhole == Spec => []RecordingsAreWhole
  <1>1. CampaignInv => RecordingsAreWhole
    BY DEF CampaignInv, LastSound
  <1> QED
    BY <1>1, CampaignInductive, PTL

\* compare.py, unexpected_changes and _moved_tasks: a comparison that exits 0
\* set whole trials against each other, which differ in nothing undeclared,
\* and where no task moved it counts as many paired runs better as worse.
THEOREM ComparisonsDifferAsDeclared == Spec => []ComparedRunsDifferAsDeclared
  <1>1. CampaignInv => ComparedRunsDifferAsDeclared
    BY DEF CampaignInv, LastSound
  <1> QED
    BY <1>1, CampaignInductive, PTL

=============================================================================
