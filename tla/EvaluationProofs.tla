-------------------------- MODULE EvaluationProofs --------------------------
(***************************************************************************)
(* Proofs that EvaluationInv is inductive, for any tasks, tickets,         *)
(* processes and bounds, and what follows: verdicts that no regression     *)
(* passes, counts that add up, and, with one tracker server, answers that  *)
(* stay true.                                                              *)
(***************************************************************************)
EXTENDS EvaluationInvariant, FiniteSetTheorems, TLAPS

-----------------------------------------------------------------------------
(* Sequences and sets.                                                     *)

LEMMA Appended ==
    ASSUME NEW S, NEW s \in Seq(S), NEW e \in S
    PROVE  /\ Append(s, e) \in Seq(S)
           /\ Len(Append(s, e)) = Len(s) + 1 /\ Len(s) \in Nat
           /\ \A i \in 1 .. Len(s) : Append(s, e)[i] = s[i]
           /\ Append(s, e)[Len(s) + 1] = e
  OBVIOUS

LEMMA ElementOf ==
    ASSUME NEW S, NEW s \in Seq(S), NEW i \in 1 .. Len(s)
    PROVE  s[i] \in S
  OBVIOUS

\* What is counted in a sequence is finite.
LEMMA Counted ==
    ASSUME NEW S, NEW s \in Seq(S), NEW T, T \subseteq DOMAIN s
    PROVE  IsFiniteSet(T) /\ Cardinality(T) \in Nat
  <1>1. DOMAIN s = 1 .. Len(s) /\ Len(s) \in Nat
    OBVIOUS
  <1>2. IsFiniteSet(1 .. Len(s))
    BY <1>1, FS_Interval
  <1>3. IsFiniteSet(T)
    BY <1>1, <1>2, FS_Subset
  <1> QED
    BY <1>3, FS_CardinalityType

\* A set of positions that is not empty has a last one.
LEMMA LastExists ==
    ASSUME NEW n \in Nat, NEW T, T \subseteq 1 .. n, T # {}
    PROVE  Max(T) \in T
  <1>1. PICK D : D = {n - i : i \in T}
    OBVIOUS
  <1>2. D \subseteq Nat /\ D # {}
    <2>1. \A i \in T : n - i \in Nat
      OBVIOUS
    <2>2. D \subseteq Nat
      BY <1>1, <2>1
    <2> QED
      BY <1>1, <2>2
  <1>3. IsWellFoundedOn(OpToRel(<, Nat), Nat)
    BY NatLessThanWellFounded
  <1>4. PICK d \in D : \A e \in D : <<e, d>> \notin OpToRel(<, Nat)
    BY <1>2, <1>3, WFMin
  <1>5. PICK i \in T : d = n - i
    BY <1>1
  <1>6. \A j \in T : i >= j
    <2> SUFFICES ASSUME NEW j \in T, ~(i >= j) PROVE FALSE
      OBVIOUS
    <2>1. n - j \in D /\ n - j \in Nat /\ d \in Nat /\ n - j < d
      BY <1>1, <1>2, <1>5
    <2> QED
      BY <1>4, <2>1 DEF OpToRel
  <1> QED
    BY <1>6 DEF Max

-----------------------------------------------------------------------------
(* What is made is sound.                                                  *)

LEMMA OutcomesAreRows ==
    ASSUME NEW result \in Result
    PROVE  Outcome(result) \in Row
  BY EvaluationAssumption DEF Outcome, ClassifyFailure, Row, Failure, Solved

LEMMA BaselineIsRows ==
    BaselineRows \in Rows /\ DOMAIN BaselineRows = Task
  <1>1. Cardinality(Task) \in Nat
    BY EvaluationAssumption, FS_CardinalityType
  <1>2. \A t \in Task : [solved |-> t \in Baseline,
                         failure_mode |-> IF t \in Baseline THEN Solved ELSE "wrong_solution"]
                          \in Row
    <2> TAKE t \in Task
    <2>1. CASE t \in Baseline
      <3>1. (t \in Baseline) = TRUE
        BY <2>1
      <3>2. [solved |-> TRUE, failure_mode |-> Solved] \in Row
        BY DEF Row, Solved
      <3> QED
        BY <3>1, <3>2
    <2>2. CASE t \notin Baseline
      <3>1. (t \in Baseline) = FALSE
        BY <2>2
      <3>2. [solved |-> FALSE, failure_mode |-> "wrong_solution"] \in Row
        BY DEF Row, Solved, Failure
      <3> QED
        BY <3>1, <3>2
    <2> QED
      BY <2>1, <2>2
  <1>3. BaselineRows \in [Task -> Row]
    BY <1>2, Zenon DEF BaselineRows
  <1>4. BaselineRows \in [1 .. Cardinality(Task) -> Row]
    BY <1>3, EvaluationAssumption
  <1>5. BaselineRows \in Seq(Row)
    BY <1>1, <1>4
  <1> QED
    BY <1>3, <1>5 DEF Rows

LEMMA RunsAreRuns ==
    ASSUME NEW label \in RunLabel, NEW rows \in Rows
    PROVE  /\ BenchmarkRun(label, rows) \in Run
           /\ BenchmarkRun(label, rows).label = label
           /\ BenchmarkRun(label, rows).results = rows
  <1>1. rows \in Seq(Row)
    BY DEF Rows
  <1>2. Cardinality(DOMAIN rows) \in Nat /\ Cardinality(SolvedOf(rows)) \in Nat
    BY <1>1, Counted DEF SolvedOf
  <1>3. FailureTaxonomy(rows) \in [Failure -> Nat]
    BY <1>1, Counted DEF FailureTaxonomy
  <1> QED
    BY <1>2, <1>3 DEF BenchmarkRun, Run

\* A run more.
LEMMA RunStored ==
    ASSUME RunsSound, NEW label \in RunLabel, NEW rows \in Rows,
           runs' = Append(runs, BenchmarkRun(label, rows))
    PROVE  RunsSound'
  <1>1. PICK new : new = BenchmarkRun(label, rows)
    OBVIOUS
  <1>2. new \in Run /\ new = BenchmarkRun(new.label, new.results)
    BY <1>1, RunsAreRuns
  <1>3. runs \in Seq(Run) /\ runs' = Append(runs, new)
    BY <1>1 DEF RunsSound
  <1>4. /\ runs' \in Seq(Run) /\ Len(runs') = Len(runs) + 1 /\ Len(runs) \in Nat
        /\ \A i \in 1 .. Len(runs) : runs'[i] = runs[i]
        /\ runs'[Len(runs) + 1] = new
    BY <1>2, <1>3, Appended
  <1> QED
    BY <1>2, <1>4 DEF RunsSound

\* What is read of a run is rows.
LEMMA LoadedAreRows ==
    ASSUME RunsSound, NEW label, Labelled(label) # {}
    PROVE  LoadRunRows(label) \in Rows
  <1>1. runs \in Seq(Run) /\ Len(runs) \in Nat /\ DOMAIN runs = 1 .. Len(runs)
    BY DEF RunsSound
  <1>2. Labelled(label) \subseteq 1 .. Len(runs)
    BY <1>1 DEF Labelled
  <1>3. Max(Labelled(label)) \in 1 .. Len(runs)
    BY <1>1, <1>2, LastExists
  <1>4. runs[Max(Labelled(label))] \in Run
    BY <1>1, <1>3
  <1> QED
    BY <1>4 DEF LoadRunRows, Run

-----------------------------------------------------------------------------
(* What a process that does something holds.                               *)

LEMMA EvalHolds ==
    ASSUME NEW cmd, CommandSound(cmd), cmd.does = "eval"
    PROVE  cmd \in EvalCmd
  BY DEF CommandSound, EvalCmd, GateCmd, SelectCmd, CompareCmd, ResolveCmd, WriteCmd, LoadCmd,
         DiffCmd, IdleCmd, SaveCmd

LEMMA GateHolds ==
    ASSUME NEW cmd, CommandSound(cmd), cmd.does = "gate"
    PROVE  cmd \in GateCmd
  BY DEF CommandSound, EvalCmd, GateCmd, SelectCmd, CompareCmd, ResolveCmd, WriteCmd, LoadCmd,
         DiffCmd, IdleCmd, SaveCmd

LEMMA SelectHolds ==
    ASSUME NEW cmd, CommandSound(cmd), cmd.does = "select"
    PROVE  cmd \in SelectCmd
  BY DEF CommandSound, EvalCmd, GateCmd, SelectCmd, CompareCmd, ResolveCmd, WriteCmd, LoadCmd,
         DiffCmd, IdleCmd, SaveCmd

LEMMA CompareHolds ==
    ASSUME NEW cmd, CommandSound(cmd), cmd.does = "compare"
    PROVE  cmd \in CompareCmd
  BY DEF CommandSound, EvalCmd, GateCmd, SelectCmd, CompareCmd, ResolveCmd, WriteCmd, LoadCmd,
         DiffCmd, IdleCmd, SaveCmd

LEMMA ResolveHolds ==
    ASSUME NEW cmd, CommandSound(cmd), cmd.does = "resolve"
    PROVE  cmd \in ResolveCmd
  BY DEF CommandSound, EvalCmd, GateCmd, SelectCmd, CompareCmd, ResolveCmd, WriteCmd, LoadCmd,
         DiffCmd, IdleCmd, SaveCmd

LEMMA WriteHolds ==
    ASSUME NEW cmd, CommandSound(cmd), cmd.does = "write"
    PROVE  cmd \in WriteCmd
  BY DEF CommandSound, EvalCmd, GateCmd, SelectCmd, CompareCmd, ResolveCmd, WriteCmd, LoadCmd,
         DiffCmd, IdleCmd, SaveCmd

LEMMA LoadHolds ==
    ASSUME NEW cmd, CommandSound(cmd), cmd.does = "load"
    PROVE  cmd \in LoadCmd
  BY DEF CommandSound, EvalCmd, GateCmd, SelectCmd, CompareCmd, ResolveCmd, WriteCmd, LoadCmd,
         DiffCmd, IdleCmd, SaveCmd

LEMMA DiffHolds ==
    ASSUME NEW cmd, CommandSound(cmd), cmd.does = "diff"
    PROVE  cmd \in DiffCmd
  BY DEF CommandSound, EvalCmd, GateCmd, SelectCmd, CompareCmd, ResolveCmd, WriteCmd, LoadCmd,
         DiffCmd, IdleCmd, SaveCmd

LEMMA SaveHolds ==
    ASSUME NEW cmd, CommandSound(cmd), cmd.does \in {"save", "fill", "answer"}
    PROVE  cmd \in SaveCmd
  BY DEF CommandSound, EvalCmd, GateCmd, SelectCmd, CompareCmd, ResolveCmd, WriteCmd, LoadCmd,
         DiffCmd, IdleCmd, SaveCmd

LEMMA EndedHolds ==
    ASSUME NEW cmd, CommandSound(cmd), cmd.does = "ended"
    PROVE  RunsJudged(cmd) /\ ReportsJudged(cmd)
  BY DEF CommandSound, EvalCmd, GateCmd, SelectCmd, CompareCmd, ResolveCmd, WriteCmd, LoadCmd,
         DiffCmd, IdleCmd, SaveCmd

-----------------------------------------------------------------------------
(* Steps of a process.                                                     *)

Serving == {"serve", "save", "fill", "answer"}

LEMMA ProcMoves ==
    ASSUME ProcsSound, NEW p \in Proc, NEW cmd, proc' = [proc EXCEPT ![p] = cmd],
           CommandSound(cmd), cmd.does \in Serving => p \in Tracker, commands' \in Nat
    PROVE  /\ ProcsSound' /\ proc'[p] = cmd
           /\ \A q \in Proc : q # p => proc'[q] = proc[q]
  <1>1. proc'[p] = cmd /\ \A q \in Proc : q # p => proc'[q] = proc[q]
    BY DEF ProcsSound
  <1>2. proc' = [q \in Proc |-> proc'[q]]
    BY DEF ProcsSound
  <1>3. ASSUME NEW q \in Proc
        PROVE  CommandSound(proc'[q]) /\ (proc'[q].does \in Serving => q \in Tracker)
    BY <1>1 DEF ProcsSound, Serving
  <1> QED
    BY <1>1, <1>2, <1>3 DEF ProcsSound, Serving

\* A step that leaves the tracker's file and its answers alone.
LEMMA Moves ==
    ASSUME EvaluationInv, NEW p \in Proc, NEW cmd, proc' = [proc EXCEPT ![p] = cmd],
           CommandSound(cmd), cmd.does \notin {"save", "fill", "answer"},
           cmd.does = "serve" => p \in Tracker,
           UNCHANGED <<tickets, acked>>, commands' \in {commands, commands + 1},
           RunsSound', ReportsSound'
    PROVE  EvaluationInv'
  <1>1. ProcsSound /\ commands \in Nat /\ commands' \in Nat /\ commands <= commands'
    BY DEF EvaluationInv, ProcsSound
  <1>2. /\ ProcsSound' /\ proc'[p] = cmd
        /\ \A q \in Proc : q # p => proc'[q] = proc[q]
    BY <1>1, ProcMoves DEF Serving
  <1>3. TicketsSound'
    BY DEF EvaluationInv, TicketsSound
  <1>4. TrackerSound'
    <2> SUFFICES ASSUME \A u, v \in Tracker : u = v
                 PROVE  FileSound' /\ \A q \in Proc : ServerSound(q)'
      BY DEF TrackerSound
    <2>1. FileSound'
      <3>1. tickets.is = "tickets" => \A t \in Tracked : tickets.of[t].updated_at \in Nat
        BY DEF EvaluationInv, TicketsSound, TrackerFile, Ticket, Absent, Torn
      <3>2. \A t \in Tracked : acked[t].updated_at \in Nat
        BY DEF EvaluationInv, TicketsSound, Ticket
      <3> QED
        BY <1>1, <3>1, <3>2 DEF EvaluationInv, TrackerSound, FileSound, AnsweredChangesStay, Dated
    <2>2. ASSUME NEW q \in Proc, proc'[q].does \in {"save", "fill", "answer"}
          PROVE  ServerSound(q)'
      <3>1. proc'[q] = proc[q]
        BY <1>2, <2>2
      <3>2. ServerSound(q) /\ CommandSound(proc[q])
        BY DEF EvaluationInv, TrackerSound, ProcsSound
      <3>3. proc[q] \in SaveCmd
        BY <2>2, <3>1, <3>2, SaveHolds
      <3>4. \A t \in Tracked : proc[q].file.of[t].updated_at \in Nat
        BY <3>3 DEF SaveCmd, TrackerFile, Ticket
      <3> QED
        BY <1>1, <2>2, <3>1, <3>2, <3>4 DEF ServerSound, KeepsAnswers, Dated
    <2>3. ASSUME NEW q \in Proc PROVE ServerSound(q)'
      BY <2>2 DEF ServerSound
    <2> QED
      BY <2>1, <2>3
  <1> QED
    BY <1>2, <1>3, <1>4 DEF EvaluationInv

\* The runs and the reports are left alone too.
LEMMA KeptStores ==
    ASSUME EvaluationInv, UNCHANGED <<runs, reports>>
    PROVE  RunsSound' /\ ReportsSound'
  BY DEF EvaluationInv, RunsSound, ReportsSound

\* A command is given.
LEMMA BeginKeeps ==
    ASSUME EvaluationInv, NEW p \in Proc, NEW on, NEW cmd, Begin(p, on, cmd),
           CommandSound(cmd), cmd.does \notin Serving
    PROVE  EvaluationInv'
  <1>1. /\ proc' = [proc EXCEPT ![p] = cmd] /\ commands' = commands + 1
        /\ UNCHANGED <<runs, reports, tickets, acked>>
    BY DEF Begin, Asked
  <1> QED
    BY <1>1, KeptStores, Moves DEF Serving

\* A command goes on with other locals.
LEMMA GoesKeeps ==
    ASSUME EvaluationInv, NEW p \in Proc, NEW cmd, Goes(p, cmd),
           CommandSound(cmd), cmd.does \notin Serving,
           UNCHANGED <<runs, reports, tickets, acked>>
    PROVE  EvaluationInv'
  <1>1. proc' = [proc EXCEPT ![p] = cmd] /\ commands' = commands
    BY DEF Goes
  <1> QED
    BY <1>1, KeptStores, Moves DEF Serving

\* A command that is over is sound, if it is no verdict.
LEMMA EndsKeeps ==
    ASSUME EvaluationInv, NEW p \in Proc, NEW exit, NEW read, Ends(p, exit, read),
           RunsJudged([does |-> "ended", was |-> proc[p].does, exit |-> exit, read |-> read]),
           ReportsJudged([does |-> "ended", was |-> proc[p].does, exit |-> exit, read |-> read]),
           UNCHANGED <<tickets, acked>>, RunsSound', ReportsSound'
    PROVE  EvaluationInv'
  <1>1. PICK cmd : cmd = [does |-> "ended", was |-> proc[p].does, exit |-> exit, read |-> read]
    OBVIOUS
  <1>2. proc' = [proc EXCEPT ![p] = cmd] /\ commands' = commands
    BY <1>1 DEF Ends, Goes
  <1>3. cmd.does = "ended" /\ RunsJudged(cmd) /\ ReportsJudged(cmd)
    BY <1>1
  <1>4. CommandSound(cmd)
    BY <1>3 DEF CommandSound
  <1> QED
    BY <1>2, <1>3, <1>4, Moves

LEMMA EndsUnjudged ==
    ASSUME EvaluationInv, NEW p \in Proc, NEW exit, NEW read, Ends(p, exit, read),
           exit # "0" \/ proc[p].does \notin {"gate", "compare", "diff"},
           UNCHANGED <<tickets, acked>>, RunsSound', ReportsSound'
    PROVE  EvaluationInv'
  BY EndsKeeps DEF RunsJudged, ReportsJudged

-----------------------------------------------------------------------------
(* Benchmark runs.                                                         *)

\* What the process of a step holds.
LEMMA Held ==
    ASSUME EvaluationInv, NEW p \in Proc
    PROVE  CommandSound(proc[p]) /\ RunsSound /\ ReportsSound
  BY DEF EvaluationInv, ProcsSound

LEMMA EvalKeeps ==
    ASSUME EvaluationInv, NEW p \in Proc, NEW label \in RunLabel,
           NEW limit \in 0 .. Cardinality(Task), Eval(p, label, limit)
    PROVE  EvaluationInv'
  <1>1. PICK cmd : cmd = [does |-> "eval", label |-> label, limit |-> limit, rows |-> <<>>]
    OBVIOUS
  <1>2. limit \in Nat /\ <<>> \in Seq(Row)
    BY EvaluationAssumption, FS_CardinalityType
  <1>3. cmd \in EvalCmd /\ cmd.does = "eval"
    BY <1>1, <1>2 DEF EvalCmd, Rows
  <1> QED
    BY <1>1, <1>3, BeginKeeps DEF Eval, CommandSound, Serving

LEMMA RunTaskKeeps ==
    ASSUME EvaluationInv, NEW p \in Proc, NEW result \in Result, RunTask(p, result)
    PROVE  EvaluationInv'
  <1>1. proc[p] \in EvalCmd
    BY Held, EvalHolds DEF RunTask
  <1>2. PICK rows : rows = Append(proc[p].rows, Outcome(result))
    OBVIOUS
  <1>3. rows \in Rows
    BY <1>1, <1>2, OutcomesAreRows, Appended DEF EvalCmd, Rows
  <1>4. PICK cmd : cmd = [proc[p] EXCEPT !.rows = rows]
    OBVIOUS
  <1>5. cmd \in EvalCmd /\ cmd.does = "eval"
    BY <1>1, <1>3, <1>4 DEF EvalCmd
  <1>6. Goes(p, cmd) /\ UNCHANGED <<runs, reports, tickets, acked>>
    BY <1>2, <1>4 DEF RunTask
  <1> QED
    BY <1>5, <1>6, GoesKeeps DEF CommandSound, Serving

LEMMA PersistReportKeeps ==
    ASSUME EvaluationInv, NEW p \in Proc, PersistReport(p)
    PROVE  EvaluationInv'
  <1>1. proc[p] \in EvalCmd
    BY Held, EvalHolds DEF PersistReport
  <1>2. RunsSound'
    BY <1>1, Held, RunStored DEF PersistReport, EvalCmd
  <1>3. ReportsSound'
    BY Held DEF PersistReport, ReportsSound
  <1>4. Ends(p, "0", <<>>) /\ proc[p].does = "eval" /\ UNCHANGED <<tickets, acked>>
    BY DEF PersistReport
  <1> QED
    BY <1>2, <1>3, <1>4, EndsUnjudged

LEMMA ImportResultsKeeps ==
    ASSUME EvaluationInv, NEW p \in Proc, ImportResults(p)
    PROVE  EvaluationInv'
  <1>1. /\ commands' = commands + 1 /\ UNCHANGED <<reports, tickets, proc, acked>>
        /\ proc[p].does \in {"nothing", "ended"}
    BY DEF ImportResults, Free
  <1>2. RunsSound'
    BY Held, RunStored, BaselineIsRows DEF ImportResults, RunLabel
  <1>3. ReportsSound'
    BY <1>1, Held DEF ReportsSound
  <1>4. proc' = [proc EXCEPT ![p] = proc[p]]
    BY <1>1 DEF EvaluationInv, ProcsSound
  <1> QED
    BY <1>1, <1>2, <1>3, <1>4, Held, Moves

LEMMA GateKeeps ==
    ASSUME EvaluationInv, NEW p \in Proc, NEW floor \in Floor, Gate(p, floor)
    PROVE  EvaluationInv'
  <1>1. PICK cmd : cmd = [does |-> "gate", floor |-> floor, base |-> BaselineRows]
    OBVIOUS
  <1>2. cmd \in GateCmd /\ cmd.does = "gate"
    BY <1>1 DEF GateCmd
  <1> QED
    BY <1>1, <1>2, BeginKeeps DEF Gate, CommandSound, Serving

LEMMA JudgeCandidateKeeps ==
    ASSUME EvaluationInv, NEW p \in Proc, JudgeCandidate(p)
    PROVE  EvaluationInv'
  <1>1. proc[p] \in GateCmd /\ proc[p].does = "gate"
    BY Held, GateHolds DEF JudgeCandidate
  <1>2. UNCHANGED <<tickets, acked>> /\ RunsSound' /\ ReportsSound'
    BY KeptStores DEF JudgeCandidate
  <1>3. CASE Labelled("ci") = {}
    BY <1>2, <1>3, EndsUnjudged DEF JudgeCandidate
  <1>4. CASE Labelled("ci") # {}
    <2>1. PICK cand : cand = LoadRunRows("ci")
      OBVIOUS
    <2>2. PICK exit : exit = EvaluateGate(proc[p].base, cand, proc[p].floor)
      OBVIOUS
    <2>3. PICK read : read = [base |-> proc[p].base, cand |-> cand, floor |-> proc[p].floor]
      OBVIOUS
    <2>4. Ends(p, exit, read)
      BY <1>4, <2>1, <2>2, <2>3 DEF JudgeCandidate
    <2>5. cand \in Rows /\ proc[p].base = BaselineRows
      BY <1>1, <1>4, <2>1, Held, LoadedAreRows DEF GateCmd
    <2>6. exit = "0" => /\ CompareRuns(proc[p].base, cand) = "fine"
                        /\ AtLeast(Cardinality(SolvedOf(cand)), Cardinality(DOMAIN cand),
                                   proc[p].floor)
      BY <2>2 DEF EvaluateGate
    <2>7. RunsJudged([does |-> "ended", was |-> proc[p].does, exit |-> exit, read |-> read])
      BY <2>3, <2>5, <2>6, BaselineIsRows DEF RunsJudged
    <2>8. ReportsJudged([does |-> "ended", was |-> proc[p].does, exit |-> exit, read |-> read])
      BY <1>1 DEF ReportsJudged
    <2> QED
      BY <1>2, <2>4, <2>7, <2>8, EndsKeeps
  <1> QED
    BY <1>3, <1>4

LEMMA CompareKeeps ==
    ASSUME EvaluationInv, NEW p \in Proc, NEW base \in RunLabel, NEW cand \in RunLabel,
           Compare(p, base, cand)
    PROVE  EvaluationInv'
  <1>1. PICK cmd : cmd = [does |-> "select", base |-> base, cand |-> cand]
    OBVIOUS
  <1>2. cmd \in SelectCmd /\ cmd.does = "select"
    BY <1>1 DEF SelectCmd
  <1> QED
    BY <1>1, <1>2, BeginKeeps DEF Compare, CommandSound, Serving

LEMMA SelectBaselineKeeps ==
    ASSUME EvaluationInv, NEW p \in Proc, SelectBaseline(p)
    PROVE  EvaluationInv'
  <1>1. proc[p] \in SelectCmd /\ proc[p].does = "select"
    BY Held, SelectHolds DEF SelectBaseline
  <1>2. UNCHANGED <<runs, reports, tickets, acked>> /\ RunsSound' /\ ReportsSound'
    BY KeptStores DEF SelectBaseline
  <1>3. CASE Labelled(proc[p].base) = {}
    BY <1>2, <1>3, EndsUnjudged DEF SelectBaseline
  <1>4. CASE Labelled(proc[p].base) # {}
    <2>1. PICK rows : rows = LoadRunRows(proc[p].base)
      OBVIOUS
    <2>2. rows \in Rows
      BY <1>4, <2>1, Held, LoadedAreRows
    <2>3. PICK cmd : cmd = [proc[p] EXCEPT !.does = "compare", !.base = rows]
      OBVIOUS
    <2>4. cmd \in CompareCmd /\ cmd.does = "compare"
      BY <1>1, <2>2, <2>3 DEF SelectCmd, CompareCmd
    <2>5. Goes(p, cmd)
      BY <1>4, <2>1, <2>3 DEF SelectBaseline
    <2> QED
      BY <1>2, <2>4, <2>5, GoesKeeps DEF CommandSound, Serving
  <1> QED
    BY <1>3, <1>4

LEMMA SelectCandidateKeeps ==
    ASSUME EvaluationInv, NEW p \in Proc, SelectCandidate(p)
    PROVE  EvaluationInv'
  <1>1. proc[p] \in CompareCmd /\ proc[p].does = "compare"
    BY Held, CompareHolds DEF SelectCandidate
  <1>2. UNCHANGED <<tickets, acked>> /\ RunsSound' /\ ReportsSound'
    BY KeptStores DEF SelectCandidate
  <1>3. CASE Labelled(proc[p].cand) = {}
    BY <1>2, <1>3, EndsUnjudged DEF SelectCandidate
  <1>4. CASE Labelled(proc[p].cand) # {}
    <2>1. PICK cand : cand = LoadRunRows(proc[p].cand)
      OBVIOUS
    <2>2. PICK verdict : verdict = CompareRuns(proc[p].base, cand)
      OBVIOUS
    <2>3. PICK exit : exit = IF verdict = "raised" THEN "raised"
                             ELSE IF verdict = "fine" THEN "0" ELSE "1"
      OBVIOUS
    <2>4. PICK read : read = [base |-> proc[p].base, cand |-> cand, floor |-> 0]
      OBVIOUS
    <2>5. Ends(p, exit, read)
      BY <1>4, <2>1, <2>2, <2>3, <2>4 DEF SelectCandidate
    <2>6. cand \in Rows /\ proc[p].base \in Rows
      BY <1>1, <1>4, <2>1, Held, LoadedAreRows DEF CompareCmd
    <2>7. exit = "0" => CompareRuns(proc[p].base, cand) = "fine"
      BY <2>2, <2>3
    <2>8. RunsJudged([does |-> "ended", was |-> proc[p].does, exit |-> exit, read |-> read])
      BY <1>1, <2>4, <2>6, <2>7 DEF RunsJudged
    <2>9. ReportsJudged([does |-> "ended", was |-> proc[p].does, exit |-> exit, read |-> read])
      BY <1>1 DEF ReportsJudged
    <2> QED
      BY <1>2, <2>5, <2>8, <2>9, EndsKeeps
  <1> QED
    BY <1>3, <1>4

-----------------------------------------------------------------------------
(* Reports.                                                                *)

LEMMA ReportWritten ==
    ASSUME ReportsSound, NEW path \in Path, NEW r, reports' = [reports EXCEPT ![path] = r],
           r \in {Absent, Torn} \/ (r.outcomes \in Whole /\ r = ReportOf(r.outcomes))
    PROVE  ReportsSound'
  <1>1. /\ reports'[path] = r /\ \A q \in Path : q # path => reports'[q] = reports[q]
        /\ reports' = [q \in Path |-> reports'[q]]
    BY DEF ReportsSound
  <1>2. ASSUME NEW q \in Path
        PROVE  \/ reports'[q] \in {Absent, Torn}
               \/ reports'[q].outcomes \in Whole /\ reports'[q] = ReportOf(reports'[q].outcomes)
    BY <1>1 DEF ReportsSound
  <1> QED
    BY <1>1, <1>2 DEF ReportsSound

LEMMA TicketEvalKeeps ==
    ASSUME EvaluationInv, NEW p \in Proc, NEW path \in Path, TicketEval(p, path)
    PROVE  EvaluationInv'
  <1>1. PICK cmd : cmd = [does |-> "resolve", path |-> path, outcomes |-> <<>>]
    OBVIOUS
  <1>2. <<>> \in Outcomes
    BY CaseAssumption DEF Outcomes
  <1>3. cmd \in ResolveCmd /\ cmd.does = "resolve"
    BY <1>1, <1>2 DEF ResolveCmd
  <1> QED
    BY <1>1, <1>3, BeginKeeps DEF TicketEval, CommandSound, Serving

LEMMA GetDeploymentReportKeeps ==
    ASSUME EvaluationInv, NEW p \in Proc, NEW path \in Path, GetDeploymentReport(p, path)
    PROVE  EvaluationInv'
  <1>1. PICK exit : proc' = [proc EXCEPT ![p] = [does |-> "ended", was |-> "serve",
                                                 read |-> <<>>, exit |-> exit]]
    BY DEF GetDeploymentReport
  <1>2. PICK cmd : cmd = [does |-> "ended", was |-> "serve", read |-> <<>>, exit |-> exit]
    OBVIOUS
  <1>3. cmd.does = "ended" /\ CommandSound(cmd)
    BY <1>2 DEF CommandSound, RunsJudged, ReportsJudged
  <1>4. commands' = commands + 1 /\ UNCHANGED <<runs, reports, tickets, acked>>
    BY DEF GetDeploymentReport
  <1> QED
    BY <1>1, <1>2, <1>3, <1>4, KeptStores, Moves

LEMMA ResolveTicketKeeps ==
    ASSUME EvaluationInv, NEW p \in Proc, NEW outcome \in Resolution, NEW intact \in BOOLEAN,
           ResolveTicket(p, outcome, intact)
    PROVE  EvaluationInv'
  <1>1. proc[p] \in ResolveCmd /\ Len(proc[p].outcomes) < Len(Case)
    BY Held, ResolveHolds DEF ResolveTicket
  <1>2. PICK before : before = proc[p].outcomes
    OBVIOUS
  <1>3. before \in Outcomes /\ before \in Seq(Ending) /\ Len(before) \in Nat
    BY <1>1, <1>2 DEF ResolveCmd, Outcomes
  <1>4. PICK case : case = Case[Len(before) + 1]
    OBVIOUS
  <1>5. /\ Len(before) + 1 \in 1 .. Len(Case) /\ Len(Case) \in Nat
        /\ case \in [expects : {"resolve", "escalate"}, adversarial : BOOLEAN, canaries : BOOLEAN]
    <2>1. Len(Case) \in Nat
      BY CaseAssumption
    <2>2. Len(before) + 1 \in 1 .. Len(Case)
      BY <1>1, <1>2, <1>3, <2>1
    <2> QED
      BY <1>4, <2>1, <2>2, CaseAssumption, ElementOf
  <1>6. PICK o : o = TicketOutcome(case, outcome, intact)
    OBVIOUS
  <1>7. CanEnd(case, outcome, intact)
    BY <1>2, <1>4 DEF ResolveTicket
  <1>8. Correct(case, outcome, intact) \in BOOLEAN
    BY DEF Correct
  <1>9. o \in Ending /\ Fits(o, case)
    BY <1>5, <1>6, <1>7, <1>8 DEF Ending, TicketOutcome, Fits
  <1>10. PICK after : after = Append(before, o)
    OBVIOUS
  <1>11. /\ after \in Seq(Ending) /\ Len(after) = Len(before) + 1
         /\ \A c \in 1 .. Len(before) : after[c] = before[c]
         /\ after[Len(before) + 1] = o
    BY <1>3, <1>9, <1>10, Appended
  <1>12. \A c \in 1 .. Len(after) : Fits(after[c], Case[c])
    BY <1>3, <1>4, <1>9, <1>11 DEF Outcomes
  <1>13. after \in Outcomes
    BY <1>1, <1>2, <1>3, <1>5, <1>11, <1>12 DEF Outcomes
  <1>14. PICK cmd : cmd = [proc[p] EXCEPT !.outcomes = after]
    OBVIOUS
  <1>15. cmd \in ResolveCmd /\ cmd.does = "resolve"
    BY <1>1, <1>13, <1>14 DEF ResolveCmd
  <1>16. Goes(p, cmd) /\ UNCHANGED <<runs, reports, tickets, acked>>
    BY <1>2, <1>4, <1>6, <1>10, <1>14 DEF ResolveTicket
  <1> QED
    BY <1>15, <1>16, GoesKeeps DEF CommandSound, Serving

LEMMA EmptyReportKeeps ==
    ASSUME EvaluationInv, NEW p \in Proc, EmptyReport(p)
    PROVE  EvaluationInv'
  <1>1. proc[p] \in ResolveCmd /\ Len(proc[p].outcomes) = Len(Case)
    BY Held, ResolveHolds DEF EmptyReport
  <1>2. PICK cmd : cmd = [proc[p] EXCEPT !.does = "write"]
    OBVIOUS
  <1>3. cmd \in WriteCmd /\ cmd.does = "write"
    BY <1>1, <1>2 DEF ResolveCmd, WriteCmd, Whole
  <1>4. RunsSound' /\ ReportsSound'
    BY <1>1, Held, ReportWritten DEF EmptyReport, ResolveCmd, RunsSound
  <1>5. /\ proc' = [proc EXCEPT ![p] = cmd] /\ commands' = commands
        /\ UNCHANGED <<tickets, acked>>
    BY <1>2 DEF EmptyReport, Goes
  <1> QED
    BY <1>3, <1>4, <1>5, Moves DEF CommandSound

LEMMA WriteReportKeeps ==
    ASSUME EvaluationInv, NEW p \in Proc, WriteReport(p)
    PROVE  EvaluationInv'
  <1>1. proc[p] \in WriteCmd /\ proc[p].does = "write"
    BY Held, WriteHolds DEF WriteReport
  <1>2. PICK r : r = ReportOf(proc[p].outcomes)
    OBVIOUS
  <1>3. r.outcomes \in Whole /\ r = ReportOf(r.outcomes)
    BY <1>1, <1>2 DEF WriteCmd, ReportOf
  <1>4. reports' = [reports EXCEPT ![proc[p].path] = r] /\ proc[p].path \in Path
    BY <1>1, <1>2 DEF WriteReport, ReportOf, WriteCmd
  <1>5. RunsSound' /\ ReportsSound'
    BY <1>3, <1>4, Held, ReportWritten DEF WriteReport, RunsSound
  <1>6. Ends(p, "0", <<>>) /\ UNCHANGED <<tickets, acked>>
    BY DEF WriteReport
  <1> QED
    BY <1>1, <1>5, <1>6, EndsUnjudged

LEMMA CompareReportsKeeps ==
    ASSUME EvaluationInv, NEW p \in Proc, NEW base \in Path, NEW cand \in Path,
           CompareReports(p, base, cand)
    PROVE  EvaluationInv'
  <1>1. PICK cmd : cmd = [does |-> "load", base |-> base, cand |-> cand]
    OBVIOUS
  <1>2. cmd \in LoadCmd /\ cmd.does = "load"
    BY <1>1 DEF LoadCmd
  <1> QED
    BY <1>1, <1>2, BeginKeeps DEF CompareReports, CommandSound, Serving

\* A file that is a report has the outcome of every ticket.
LEMMA ReportsAreWhole ==
    ASSUME ReportsSound, NEW path \in Path, reports[path].is = "report"
    PROVE  reports[path].outcomes \in Whole
  BY DEF ReportsSound, Absent, Torn

LEMMA LoadBaselineKeeps ==
    ASSUME EvaluationInv, NEW p \in Proc, LoadBaseline(p)
    PROVE  EvaluationInv'
  <1>1. proc[p] \in LoadCmd /\ proc[p].base \in Path
    BY Held, LoadHolds DEF LoadBaseline, LoadCmd
  <1>2. UNCHANGED <<runs, reports, tickets, acked>> /\ RunsSound' /\ ReportsSound'
    BY KeptStores DEF LoadBaseline
  <1>3. CASE reports[proc[p].base].is # "report"
    BY <1>2, <1>3, EndsUnjudged DEF LoadBaseline
  <1>4. CASE reports[proc[p].base].is = "report"
    <2>1. PICK outcomes : outcomes = reports[proc[p].base].outcomes
      OBVIOUS
    <2>2. outcomes \in Whole
      BY <1>1, <1>4, <2>1, Held, ReportsAreWhole
    <2>3. PICK cmd : cmd = [proc[p] EXCEPT !.does = "diff", !.base = outcomes]
      OBVIOUS
    <2>4. cmd \in DiffCmd /\ cmd.does = "diff"
      BY <1>1, <2>2, <2>3 DEF LoadCmd, DiffCmd
    <2>5. Goes(p, cmd)
      BY <1>4, <2>1, <2>3 DEF LoadBaseline
    <2> QED
      BY <1>2, <2>4, <2>5, GoesKeeps DEF CommandSound, Serving
  <1> QED
    BY <1>3, <1>4

LEMMA LoadCandidateKeeps ==
    ASSUME EvaluationInv, NEW p \in Proc, LoadCandidate(p)
    PROVE  EvaluationInv'
  <1>1. proc[p] \in DiffCmd /\ proc[p].does = "diff"
    BY Held, DiffHolds DEF LoadCandidate
  <1>2. UNCHANGED <<tickets, acked>> /\ RunsSound' /\ ReportsSound'
    BY KeptStores DEF LoadCandidate
  <1>3. PICK file : file = reports[proc[p].cand]
    OBVIOUS
  <1>4. PICK base : base = proc[p].base
    OBVIOUS
  <1>5. CASE file.is # "report" \/ DOMAIN base # DOMAIN file.outcomes
    BY <1>2, <1>3, <1>4, <1>5, EndsUnjudged DEF LoadCandidate
  <1>6. CASE file.is = "report" /\ DOMAIN base = DOMAIN file.outcomes
    <2>1. PICK exit : exit = IF \E c \in DOMAIN base :
                                  TicketTransition(base[c], file.outcomes[c]) = "regressed"
                             THEN "1" ELSE "0"
      OBVIOUS
    <2>2. PICK read : read = [base |-> base, cand |-> file.outcomes]
      OBVIOUS
    <2>3. Ends(p, exit, read)
      BY <1>3, <1>4, <1>6, <2>1, <2>2 DEF LoadCandidate
    <2>4. base \in Whole /\ file.outcomes \in Whole
      BY <1>1, <1>3, <1>4, <1>6, Held, ReportsAreWhole DEF DiffCmd
    <2>5. exit = "0" => \A c \in DOMAIN base :
                           TicketTransition(base[c], file.outcomes[c]) # "regressed"
      BY <2>1
    <2>6. ReportsJudged([does |-> "ended", was |-> proc[p].does, exit |-> exit, read |-> read])
      BY <2>2, <2>4, <2>5 DEF ReportsJudged
    <2>7. RunsJudged([does |-> "ended", was |-> proc[p].does, exit |-> exit, read |-> read])
      BY <1>1 DEF RunsJudged
    <2> QED
      BY <1>2, <2>3, <2>6, <2>7, EndsKeeps
  <1> QED
    BY <1>5, <1>6

-----------------------------------------------------------------------------
(* The tracker.                                                            *)

\* The runs and reports are no business of the tracker's.
LEMMA TracksKeep ==
    ASSUME EvaluationInv, UNCHANGED <<runs, reports>>, TicketsSound', ProcsSound', TrackerSound'
    PROVE  EvaluationInv'
  BY KeptStores DEF EvaluationInv

\* With one tracker, no other process holds a file.
LEMMA OneHolder ==
    ASSUME ProcsSound, \A u, v \in Tracker : u = v, NEW p \in Tracker, NEW q \in Proc, q # p
    PROVE  proc[q].does \notin {"save", "fill", "answer"}
  BY DEF ProcsSound

\* A server that goes on to hold a file.
LEMMA TrackerMoves ==
    ASSUME EvaluationInv, NEW p \in Tracker, p \in Proc, NEW cmd \in SaveCmd,
           proc' = [proc EXCEPT ![p] = cmd], commands' \in Nat,
           UNCHANGED <<runs, reports, acked>>, TicketsSound',
           (\A u, v \in Tracker : u = v) =>
               /\ FileSound'
               /\ KeepsAnswers(cmd.file)
               /\ \A t \in Tracked : cmd.file.of[t].updated_at <= commands'
               /\ cmd.does = "answer" => tickets' = cmd.file
    PROVE  EvaluationInv'
  <1>1. CommandSound(cmd)
    BY DEF CommandSound
  <1>2. /\ ProcsSound' /\ proc'[p] = cmd
        /\ \A q \in Proc : q # p => proc'[q] = proc[q]
    BY <1>1, ProcMoves DEF EvaluationInv
  <1>3. TrackerSound'
    <2> SUFFICES ASSUME \A u, v \in Tracker : u = v
                 PROVE  FileSound' /\ \A q \in Proc : ServerSound(q)'
      BY DEF TrackerSound
    <2>1. ServerSound(p)'
      BY <1>2 DEF ServerSound, KeepsAnswers, Dated
    <2>2. ASSUME NEW q \in Proc, q # p PROVE ServerSound(q)'
      <3>1. proc'[q].does \notin {"save", "fill", "answer"}
        BY <1>2, <2>2, OneHolder DEF EvaluationInv
      <3> QED
        BY <3>1 DEF ServerSound
    <2> QED
      BY <2>1, <2>2
  <1> QED
    BY <1>2, <1>3, TracksKeep

\* The seed keeps the answers of a file that was never there.
LEMMA SeedKeeps ==
    /\ Saving(Seed) \in SaveCmd
    /\ FileSound /\ tickets = Absent => KeepsAnswers(Seed)
    /\ \A t \in Tracked : Seed.of[t].updated_at = 0
  <1>1. SeedTicket \in Ticket /\ SeedTicket.updated_at = 0
    BY DEF SeedTicket, Ticket, Status
  <1>2. Seed \in TrackerFile /\ \A t \in Tracked : Seed.of[t] = SeedTicket
    BY <1>1 DEF Seed, TrackerFile
  <1>3. Saving(Seed) \in SaveCmd
    BY <1>2 DEF Saving, SaveCmd
  <1>4. FileSound /\ tickets = Absent => KeepsAnswers(Seed)
    BY <1>1, <1>2 DEF FileSound, KeepsAnswers, Ticket
  <1> QED
    BY <1>1, <1>2, <1>3, <1>4

\* The file is left alone, and one more call or command was made.
LEMMA TicketsKept ==
    ASSUME EvaluationInv, UNCHANGED <<tickets, acked>>, commands' \in {commands, commands + 1}
    PROVE  /\ TicketsSound' /\ commands' \in Nat /\ commands \in Nat
           /\ (\A u, v \in Tracker : u = v) => FileSound'
  <1>1. commands \in Nat /\ \A t \in Tracked : acked[t].updated_at \in Nat
    BY DEF EvaluationInv, ProcsSound, TicketsSound, Ticket
  <1>2. TicketsSound'
    BY <1>1 DEF EvaluationInv, TicketsSound
  <1>3. tickets.is = "tickets" => \A t \in Tracked : tickets.of[t].updated_at \in Nat
    BY DEF EvaluationInv, TicketsSound, TrackerFile, Ticket, Absent, Torn
  <1> QED
    BY <1>1, <1>2, <1>3 DEF EvaluationInv, TrackerSound, FileSound, AnsweredChangesStay, Dated

LEMMA ResolveStoreKeeps ==
    ASSUME EvaluationInv, NEW p \in Proc, ResolveStore(p)
    PROVE  EvaluationInv'
  <1>1. p \in Tracker /\ commands' = commands + 1 /\ UNCHANGED <<runs, reports, tickets, acked>>
    BY DEF ResolveStore, Begin, Asked
  <1>2. CASE tickets = Absent
    <2>1. PICK cmd : cmd = Saving(Seed)
      OBVIOUS
    <2>2. proc' = [proc EXCEPT ![p] = cmd]
      BY <1>2, <2>1 DEF ResolveStore, Begin, Asked
    <2>3. cmd \in SaveCmd /\ cmd.does = "save" /\ cmd.file = Seed
      BY <2>1, SeedKeeps DEF Saving
    <2>4. /\ (\A u, v \in Tracker : u = v) => KeepsAnswers(cmd.file)
          /\ \A t \in Tracked : cmd.file.of[t].updated_at = 0
      BY <1>2, <2>3, SeedKeeps DEF EvaluationInv, TrackerSound
    <2>5. /\ TicketsSound' /\ commands' \in Nat
          /\ (\A u, v \in Tracker : u = v) => FileSound'
      BY <1>1, TicketsKept
    <2>6. \A t \in Tracked : cmd.file.of[t].updated_at <= commands'
      BY <2>4, <2>5
    <2> QED
      BY <1>1, <2>2, <2>3, <2>4, <2>5, <2>6, TrackerMoves
  <1>3. CASE tickets # Absent
    <2>1. PICK cmd : cmd = [does |-> "serve"]
      OBVIOUS
    <2>2. proc' = [proc EXCEPT ![p] = cmd]
      BY <1>3, <2>1 DEF ResolveStore, Begin, Asked
    <2>3. cmd.does = "serve" /\ CommandSound(cmd)
      BY <2>1 DEF CommandSound, IdleCmd
    <2> QED
      BY <1>1, <2>2, <2>3, KeptStores, Moves
  <1> QED
    BY <1>2, <1>3

\* A ticket changed by a call has the comments it had, and is newer.
LEMMA CallKeeps ==
    ASSUME EvaluationInv, NEW p \in Proc, NEW id, NEW changed, Call(p, id, changed),
           tickets.is = "tickets" /\ id \in Tracked =>
               changed \in Ticket /\ tickets.of[id].comments \subseteq changed.comments
    PROVE  EvaluationInv'
  <1>1. /\ proc[p].does = "serve" /\ p \in Tracker /\ commands' = commands + 1
        /\ UNCHANGED <<runs, reports, tickets, acked>>
    BY DEF Call, Asked, EvaluationInv, ProcsSound
  <1>2. /\ TicketsSound' /\ commands' \in Nat /\ commands \in Nat
        /\ (\A u, v \in Tracker : u = v) => FileSound'
    BY <1>1, TicketsKept
  <1>3. CASE tickets.is = "tickets" /\ id \in Tracked
    <2>1. tickets \in TrackerFile
      BY <1>3 DEF EvaluationInv, TicketsSound, Absent, Torn
    <2>2. PICK new : new = [changed EXCEPT !.updated_at = commands + 1]
      OBVIOUS
    <2>3. /\ new \in Ticket /\ new.updated_at = commands + 1
          /\ new.comments = changed.comments
      BY <1>2, <1>3, <2>2 DEF Ticket
    <2>4. PICK file : file = [tickets EXCEPT !.of[id] = new]
      OBVIOUS
    <2>5. /\ file \in TrackerFile /\ file.of[id] = new
          /\ \A t \in Tracked : t # id => file.of[t] = tickets.of[t]
      <3>1. [tickets.of EXCEPT ![id] = new] \in [Tracked -> Ticket]
        BY <2>1, <2>3 DEF TrackerFile
      <3>2. file = [is |-> "tickets", of |-> [tickets.of EXCEPT ![id] = new]]
        BY <2>1, <2>4 DEF TrackerFile
      <3> QED
        BY <1>3, <2>1, <3>1, <3>2 DEF TrackerFile
    <2>6. PICK cmd : cmd = [does |-> "save", answers |-> <<id>>, file |-> file]
      OBVIOUS
    <2>7. cmd \in SaveCmd /\ cmd.does = "save" /\ cmd.file = file
      BY <1>3, <2>5, <2>6 DEF SaveCmd
    <2>8. proc' = [proc EXCEPT ![p] = cmd]
      BY <1>3, <2>2, <2>4, <2>6 DEF Call, Asked
    <2>9. \A t \in Tracked : /\ acked[t].updated_at \in Nat
                             /\ tickets.of[t].updated_at \in Nat
      BY <2>1 DEF EvaluationInv, TicketsSound, Ticket, TrackerFile
    <2>10. ASSUME \A u, v \in Tracker : u = v
           PROVE  KeepsAnswers(file)
      <3>1. AnsweredChangesStay
        BY <2>10 DEF EvaluationInv, TrackerSound, FileSound
      <3>2. ASSUME NEW t \in Tracked
            PROVE  /\ acked[t].comments \subseteq tickets.of[t].comments
                   /\ acked[t].updated_at <= tickets.of[t].updated_at
                   /\ acked[t].updated_at = tickets.of[t].updated_at => acked[t] = tickets.of[t]
        BY <1>3, <3>1 DEF AnsweredChangesStay
      <3>3. ASSUME NEW t \in Tracked
            PROVE  /\ acked[t].comments \subseteq file.of[t].comments
                   /\ acked[t].updated_at <= file.of[t].updated_at
                   /\ acked[t].updated_at = file.of[t].updated_at => acked[t] = file.of[t]
        <4>1. CASE t = id
          <5>1. acked[id].comments \subseteq new.comments
            BY <1>3, <2>3, <3>2
          <5>2. acked[id].updated_at < new.updated_at
            <6>1. acked[id].updated_at <= commands
              BY <1>3, <2>10 DEF EvaluationInv, TrackerSound, FileSound
            <6> QED
              BY <1>2, <1>3, <2>3, <2>9, <6>1
          <5> QED
            BY <1>2, <1>3, <2>3, <2>5, <2>9, <4>1, <5>1, <5>2
        <4>2. CASE t # id
          BY <2>5, <3>2, <4>2
        <4> QED
          BY <4>1, <4>2
      <3> QED
        BY <3>3 DEF KeepsAnswers
    <2>11. ASSUME \A u, v \in Tracker : u = v, NEW t \in Tracked
           PROVE  file.of[t].updated_at <= commands'
      <3>1. \A u \in Tracked : tickets.of[u].updated_at <= commands
        BY <1>3, <2>11 DEF EvaluationInv, TrackerSound, FileSound, Dated
      <3> QED
        BY <1>1, <1>2, <2>3, <2>5, <2>9, <3>1
    <2> QED
      BY <1>1, <1>2, <2>7, <2>8, <2>10, <2>11, TrackerMoves
  <1>4. CASE ~(tickets.is = "tickets" /\ id \in Tracked)
    <2>1. proc' = [proc EXCEPT ![p] = proc[p]]
      BY <1>4 DEF Call, Asked
    <2> QED
      BY <1>1, <2>1, Held, KeptStores, Moves
  <1> QED
    BY <1>3, <1>4

LEMMA UpdateStatusKeeps ==
    ASSUME EvaluationInv, NEW p \in Proc, NEW id, NEW status \in Status,
           UpdateStatus(p, id, status)
    PROVE  EvaluationInv'
  <1>1. PICK changed : changed = [tickets.of[id] EXCEPT !.status = status]
    OBVIOUS
  <1>2. ASSUME tickets.is = "tickets", id \in Tracked
        PROVE  changed \in Ticket /\ tickets.of[id].comments \subseteq changed.comments
    <2>1. tickets.of[id] \in Ticket
      BY <1>2 DEF EvaluationInv, TicketsSound, TrackerFile, Absent, Torn
    <2> QED
      BY <1>1, <2>1 DEF Ticket
  <1>3. Call(p, id, changed)
    BY <1>1 DEF UpdateStatus
  <1> QED
    BY <1>2, <1>3, CallKeeps

LEMMA AddCommentKeeps ==
    ASSUME EvaluationInv, NEW p \in Proc, NEW id, AddComment(p, id)
    PROVE  EvaluationInv'
  <1>1. PICK changed : changed = [tickets.of[id] EXCEPT !.comments = @ \union {commands + 1}]
    OBVIOUS
  <1>2. ASSUME tickets.is = "tickets", id \in Tracked
        PROVE  changed \in Ticket /\ tickets.of[id].comments \subseteq changed.comments
    <2>1. tickets.of[id] \in Ticket /\ commands + 1 \in Nat
      BY <1>2 DEF EvaluationInv, TicketsSound, TrackerFile, Absent, Torn, ProcsSound
    <2>2. PICK more : more = tickets.of[id].comments \union {commands + 1}
      OBVIOUS
    <2>3. more \in SUBSET Nat /\ tickets.of[id].comments \subseteq more
      BY <2>1, <2>2 DEF Ticket
    <2>4. changed = [tickets.of[id] EXCEPT !.comments = more]
      BY <1>1, <2>2
    <2> QED
      BY <2>1, <2>3, <2>4 DEF Ticket
  <1>3. Call(p, id, changed)
    BY <1>1 DEF AddComment
  <1> QED
    BY <1>2, <1>3, CallKeeps

LEMMA EmptyTicketsKeeps ==
    ASSUME EvaluationInv, NEW p \in Proc, EmptyTickets(p)
    PROVE  EvaluationInv'
  <1>1. /\ proc[p].does = "save" /\ tickets' = Torn /\ commands' = commands
        /\ proc' = [proc EXCEPT ![p] = [proc[p] EXCEPT !.does = "fill"]]
        /\ UNCHANGED <<runs, reports, acked>>
    BY DEF EmptyTickets, Goes
  <1>2. p \in Tracker /\ proc[p] \in SaveCmd /\ commands' \in Nat
    BY <1>1, Held, SaveHolds DEF EvaluationInv, ProcsSound
  <1>3. PICK cmd : cmd = [proc[p] EXCEPT !.does = "fill"]
    OBVIOUS
  <1>4. cmd \in SaveCmd /\ cmd.does = "fill" /\ cmd.file = proc[p].file
    BY <1>2, <1>3 DEF SaveCmd
  <1>5. TicketsSound' /\ ((\A u, v \in Tracker : u = v) => FileSound')
    BY <1>1 DEF EvaluationInv, TicketsSound, TrackerSound, FileSound, AnsweredChangesStay, Torn,
                Absent
  <1>6. (\A u, v \in Tracker : u = v) => KeepsAnswers(proc[p].file) /\ Dated(proc[p].file)
    BY <1>1 DEF EvaluationInv, TrackerSound, ServerSound
  <1>7. (\A u, v \in Tracker : u = v) =>
           KeepsAnswers(cmd.file) /\ \A t \in Tracked : cmd.file.of[t].updated_at <= commands'
    BY <1>1, <1>4, <1>6 DEF Dated
  <1> QED
    BY <1>1, <1>2, <1>3, <1>4, <1>5, <1>7, TrackerMoves

LEMMA WriteTicketsKeeps ==
    ASSUME EvaluationInv, NEW p \in Proc, WriteTickets(p)
    PROVE  EvaluationInv'
  <1>1. /\ proc[p].does = "fill" /\ tickets' = proc[p].file /\ commands' = commands
        /\ proc' = [proc EXCEPT ![p] = [proc[p] EXCEPT !.does = "answer"]]
        /\ UNCHANGED <<runs, reports, acked>>
    BY DEF WriteTickets, Goes
  <1>2. p \in Tracker /\ proc[p] \in SaveCmd /\ commands' \in Nat
    BY <1>1, Held, SaveHolds DEF EvaluationInv, ProcsSound
  <1>3. PICK cmd : cmd = [proc[p] EXCEPT !.does = "answer"]
    OBVIOUS
  <1>4. cmd \in SaveCmd /\ cmd.does = "answer" /\ cmd.file = proc[p].file
    BY <1>2, <1>3 DEF SaveCmd
  <1>5. proc[p].file \in TrackerFile
    BY <1>2 DEF SaveCmd
  <1>6. TicketsSound' /\ tickets' # Absent
    BY <1>1, <1>5 DEF EvaluationInv, TicketsSound, TrackerFile, Absent
  <1>7. (\A u, v \in Tracker : u = v) => KeepsAnswers(proc[p].file) /\ Dated(proc[p].file)
    BY <1>1 DEF EvaluationInv, TrackerSound, ServerSound
  <1>8. (\A u, v \in Tracker : u = v) => FileSound'
    BY <1>1, <1>6, <1>7 DEF EvaluationInv, TrackerSound, FileSound, AnsweredChangesStay, KeepsAnswers,
                            Dated
  <1>9. (\A u, v \in Tracker : u = v) =>
           KeepsAnswers(cmd.file) /\ \A t \in Tracked : cmd.file.of[t].updated_at <= commands'
    BY <1>1, <1>4, <1>7 DEF Dated
  <1> QED
    BY <1>1, <1>2, <1>3, <1>4, <1>6, <1>8, <1>9, TrackerMoves

\* What is answered is in the file, and nobody holds another.
LEMMA AnswerKeeps ==
    ASSUME EvaluationInv, NEW p \in Proc, Answer(p)
    PROVE  EvaluationInv'
  <1>1. /\ proc[p].does = "answer" /\ commands' = commands
        /\ proc' = [proc EXCEPT ![p] = [does |-> "serve"]]
        /\ acked' = [t \in Tracked |->
                       IF <<t>> = proc[p].answers THEN proc[p].file.of[t] ELSE acked[t]]
        /\ UNCHANGED <<runs, reports, tickets>>
    BY DEF Answer, Goes
  <1>2. p \in Tracker /\ proc[p] \in SaveCmd /\ commands' \in Nat
    BY <1>1, Held, SaveHolds DEF EvaluationInv, ProcsSound
  <1>3. PICK file : file = proc[p].file
    OBVIOUS
  <1>4. file \in TrackerFile
    BY <1>2, <1>3 DEF SaveCmd
  <1>5. PICK cmd : cmd = [does |-> "serve"]
    OBVIOUS
  <1>6. cmd.does = "serve" /\ CommandSound(cmd)
    BY <1>5 DEF CommandSound, IdleCmd
  <1>7. /\ ProcsSound' /\ proc'[p] = cmd
        /\ \A q \in Proc : q # p => proc'[q] = proc[q]
    BY <1>1, <1>2, <1>5, <1>6, ProcMoves DEF EvaluationInv, Serving
  <1>8. \A t \in Tracked : acked'[t] = file.of[t] \/ acked'[t] = acked[t]
    BY <1>1, <1>3
  <1>9. TicketsSound'
    <2>1. acked' \in [Tracked -> Ticket]
      <3>1. \A t \in Tracked : file.of[t] \in Ticket /\ acked[t] \in Ticket
        BY <1>4 DEF EvaluationInv, TicketsSound, TrackerFile
      <3> QED
        BY <1>1, <1>3, <3>1
    <2> QED
      BY <1>1, <2>1 DEF EvaluationInv, TicketsSound
  <1>10. ASSUME \A u, v \in Tracker : u = v
         PROVE  FileSound'
    <2>1. /\ tickets = file /\ Dated(file) /\ KeepsAnswers(file) /\ FileSound
          /\ tickets # Absent
      BY <1>1, <1>3, <1>4, <1>10 DEF EvaluationInv, TrackerSound, ServerSound, TrackerFile, Absent
    <2>2. ASSUME NEW t \in Tracked
          PROVE  /\ acked'[t].comments \subseteq file.of[t].comments
                 /\ acked'[t].updated_at <= file.of[t].updated_at
                 /\ acked'[t].updated_at = file.of[t].updated_at => acked'[t] = file.of[t]
                 /\ acked'[t].updated_at <= commands
      <3>1. file.of[t].updated_at \in Nat
        BY <1>4 DEF TrackerFile, Ticket
      <3>2. CASE acked'[t] = file.of[t]
        BY <2>1, <3>1, <3>2 DEF Dated
      <3>3. CASE acked'[t] = acked[t]
        BY <2>1, <3>3 DEF KeepsAnswers, FileSound
      <3> QED
        BY <1>8, <3>2, <3>3
    <2> QED
      BY <1>1, <2>1, <2>2 DEF FileSound, AnsweredChangesStay, Dated
  <1>11. TrackerSound'
    <2> SUFFICES ASSUME \A u, v \in Tracker : u = v
                 PROVE  FileSound' /\ \A q \in Proc : ServerSound(q)'
      BY DEF TrackerSound
    <2>1. ASSUME NEW q \in Proc PROVE proc'[q].does \notin {"save", "fill", "answer"}
      BY <1>2, <1>6, <1>7, OneHolder DEF EvaluationInv
    <2> QED
      BY <1>10, <2>1 DEF ServerSound
  <1> QED
    BY <1>1, <1>7, <1>9, <1>11, TracksKeep

\* A process is gone: it holds nothing, and what it left is as it was.
LEMMA CrashKeeps ==
    ASSUME EvaluationInv, NEW p \in Proc, Crash(p)
    PROVE  EvaluationInv'
  <1>1. PICK cmd : cmd = Idle
    OBVIOUS
  <1>2. cmd.does = "nothing" /\ CommandSound(cmd)
    BY <1>1 DEF Idle, CommandSound, IdleCmd
  <1>3. /\ proc' = [proc EXCEPT ![p] = cmd] /\ commands' = commands
        /\ UNCHANGED <<runs, reports, tickets, acked>>
    BY <1>1 DEF Crash
  <1> QED
    BY <1>2, <1>3, KeptStores, Moves

-----------------------------------------------------------------------------
(* The invariant.                                                          *)

LEMMA EvaluationInit == Init => EvaluationInv
  <1> SUFFICES ASSUME Init PROVE EvaluationInv
    OBVIOUS
  <1>1. RunsSound
    BY DEF Init, RunsSound
  <1>2. ReportsSound
    BY DEF Init, ReportsSound
  <1>3. SeedTicket \in Ticket /\ SeedTicket.updated_at = 0
    BY DEF SeedTicket, Ticket, Status
  <1>4. TicketsSound
    BY <1>3 DEF Init, TicketsSound
  <1>5. ProcsSound
    BY DEF Init, ProcsSound, Idle, CommandSound, IdleCmd
  <1>6. TrackerSound
    BY <1>3 DEF Init, TrackerSound, FileSound, AnsweredChangesStay, ServerSound, Idle, Absent
  <1> QED
    BY <1>1, <1>2, <1>4, <1>5, <1>6 DEF EvaluationInv

LEMMA EvaluationStep == EvaluationInv /\ [Next]_vars => EvaluationInv'
  <1> SUFFICES ASSUME EvaluationInv, [Next]_vars PROVE EvaluationInv'
    OBVIOUS
  <1>1. CASE UNCHANGED vars
    BY <1>1 DEF vars, EvaluationInv, RunsSound, ReportsSound, TicketsSound, ProcsSound, TrackerSound,
                FileSound, AnsweredChangesStay, ServerSound, KeepsAnswers, Dated
  <1>2. ASSUME NEW p \in Proc, Benchmark(p) PROVE EvaluationInv'
    BY <1>2, EvalKeeps, RunTaskKeeps, PersistReportKeeps, ImportResultsKeeps, GateKeeps,
       JudgeCandidateKeeps, CompareKeeps, SelectBaselineKeeps, SelectCandidateKeeps DEF Benchmark
  <1>3. ASSUME NEW p \in Proc, TicketReports(p) PROVE EvaluationInv'
    BY <1>3, TicketEvalKeeps, GetDeploymentReportKeeps, ResolveTicketKeeps, EmptyReportKeeps,
       WriteReportKeeps, CompareReportsKeeps, LoadBaselineKeeps, LoadCandidateKeeps
       DEF TicketReports
  <1>4. ASSUME NEW p \in Proc, Tracking(p) PROVE EvaluationInv'
    BY <1>4, ResolveStoreKeeps, AddCommentKeeps, UpdateStatusKeeps, EmptyTicketsKeeps,
       WriteTicketsKeeps, AnswerKeeps DEF Tracking
  <1> QED
    BY <1>1, <1>2, <1>3, <1>4, CrashKeeps DEF Next

\* The invariant holds in every reachable state, whatever commands overlap
\* (eval/store.py, tickets/eval.py, tracker/store.py).
THEOREM EvaluationInductive == Spec => []EvaluationInv
  BY EvaluationInit, EvaluationStep, PTL DEF Spec

-----------------------------------------------------------------------------
(* Verdicts on runs.                                                       *)

LEMMA PassedCandidates ==
    ASSUME NEW cmd, RunsJudged(cmd), cmd.was \in {"gate", "compare"}, cmd.exit = "0",
           NEW base, NEW cand, base = cmd.read.base, cand = cmd.read.cand
    PROVE  /\ DOMAIN cand = DOMAIN base
           /\ Cardinality(SolvedOf(cand)) >= Cardinality(SolvedOf(base))
           /\ \A t \in SolvedOf(base) : cand[t].failure_mode = Solved
           /\ cmd.was = "gate" => /\ DOMAIN cand = Task
                                  /\ Cardinality(SolvedOf(cand)) * 100
                                        >= cmd.read.floor * Cardinality(Task)
  <1>1. /\ base \in Rows /\ cand \in Rows /\ CompareRuns(base, cand) = "fine"
        /\ cmd.was = "gate" =>
             /\ base = BaselineRows
             /\ AtLeast(Cardinality(SolvedOf(cand)), Cardinality(DOMAIN cand), cmd.read.floor)
    BY DEF RunsJudged
  <1>2. DOMAIN base = DOMAIN cand /\ Regressed(base, cand) = {}
    BY <1>1 DEF CompareRuns
  <1>3. \A t \in DOMAIN base : base[t] \in Row /\ cand[t] \in Row
    BY <1>1, <1>2 DEF Rows
  <1>4. \A t \in SolvedOf(base) : t \in SolvedOf(cand) /\ cand[t].failure_mode = Solved
    <2> TAKE t \in SolvedOf(base)
    <2>1. t \in DOMAIN base /\ base[t].solved /\ base[t] \in Row /\ cand[t] \in Row
      BY <1>3 DEF SolvedOf
    <2>2. Transition(base[t].solved, cand[t].solved) # "regressed"
      BY <1>2, <2>1 DEF Regressed
    <2>3. cand[t].solved
      BY <2>1, <2>2 DEF Transition, Row
    <2> QED
      BY <1>2, <2>1, <2>3 DEF SolvedOf, Row
  <1>5. IsFiniteSet(SolvedOf(cand)) /\ SolvedOf(base) \subseteq SolvedOf(cand)
    BY <1>1, <1>4, Counted DEF SolvedOf, Rows
  <1>6. Cardinality(SolvedOf(base)) <= Cardinality(SolvedOf(cand))
    BY <1>5, FS_Subset
  <1>7. Cardinality(SolvedOf(base)) \in Nat /\ Cardinality(SolvedOf(cand)) \in Nat
    BY <1>1, Counted DEF SolvedOf, Rows
  <1>8. ASSUME cmd.was = "gate"
        PROVE  /\ DOMAIN cand = Task
               /\ Cardinality(SolvedOf(cand)) * 100 >= cmd.read.floor * Cardinality(Task)
    <2>1. DOMAIN cand = Task
      BY <1>1, <1>2, <1>8, BaselineIsRows
    <2>2. Cardinality(Task) # 0
      BY EvaluationAssumption, FS_EmptySet
    <2> QED
      BY <1>1, <1>8, <2>1, <2>2 DEF AtLeast
  <1> QED
    BY <1>2, <1>4, <1>6, <1>7, <1>8

\* A gate or comparison that exits 0 judged a candidate that covers the whole
\* baseline, solves all it solved and is not below the floor (eval/gate.py,
\* compare.py), for any benchmark, with any commands going on meanwhile.
THEOREM OnlyNoWorseRunsPass == Spec => []PassedCandidatesAreNoWorse
  <1>1. EvaluationInv => PassedCandidatesAreNoWorse
    <2> SUFFICES ASSUME EvaluationInv, NEW p \in Proc, Ended(p, {"gate", "compare"}),
                        proc[p].exit = "0"
                 PROVE  LET base == proc[p].read.base
                            cand == proc[p].read.cand
                        IN  /\ DOMAIN cand = DOMAIN base
                            /\ Cardinality(SolvedOf(cand)) >= Cardinality(SolvedOf(base))
                            /\ \A t \in SolvedOf(base) : cand[t].failure_mode = Solved
                            /\ proc[p].was = "gate" =>
                                 /\ DOMAIN cand = Task
                                 /\ Cardinality(SolvedOf(cand)) * 100
                                       >= proc[p].read.floor * Cardinality(Task)
      BY DEF PassedCandidatesAreNoWorse
    <2>1. RunsJudged(proc[p]) /\ proc[p].was \in {"gate", "compare"}
      BY Held, EndedHolds DEF Ended
    <2> QED
      BY <2>1, PassedCandidates
  <1> QED
    BY <1>1, EvaluationInductive, PTL

-----------------------------------------------------------------------------
(* Verdicts on reports.                                                    *)

LEMMA Scaled ==
    ASSUME NEW a \in Nat, NEW b \in Nat, NEW n \in Nat, a >= b
    PROVE  a * n >= b * n
  OBVIOUS

\* A rate over a pool both reports have, with more of it correct.
LEMMA RatesGrow ==
    ASSUME NEW base, NEW cand, NEW pool, IsFiniteSet(pool), NEW empty \in Nat,
           CorrectOf(base) \subseteq CorrectOf(cand)
    PROVE  NoLower(Rate(cand, pool, empty), Rate(base, pool, empty))
  <1>1. CASE pool = {}
    BY <1>1 DEF Rate, NoLower
  <1>2. CASE pool # {}
    <2>1. PICK a : a = Cardinality(CorrectOf(cand) \intersect pool)
      OBVIOUS
    <2>2. PICK b : b = Cardinality(CorrectOf(base) \intersect pool)
      OBVIOUS
    <2>3. PICK n : n = Cardinality(pool)
      OBVIOUS
    <2>4. /\ IsFiniteSet(CorrectOf(cand) \intersect pool)
          /\ IsFiniteSet(CorrectOf(base) \intersect pool)
          /\ CorrectOf(base) \intersect pool \subseteq CorrectOf(cand) \intersect pool
      BY FS_Subset
    <2>5. a \in Nat /\ b \in Nat /\ n \in Nat
      BY <2>1, <2>2, <2>3, <2>4, FS_CardinalityType
    <2>6. a >= b
      BY <2>1, <2>2, <2>4, <2>5, FS_Subset
    <2>7. a * n >= b * n
      BY <2>5, <2>6, Scaled
    <2>8. Rate(cand, pool, empty) = <<a, n>> /\ Rate(base, pool, empty) = <<b, n>>
      BY <1>2, <2>1, <2>2, <2>3 DEF Rate
    <2> QED
      BY <2>7, <2>8 DEF NoLower
  <1> QED
    BY <1>1, <1>2

LEMMA PassedReports ==
    ASSUME NEW base \in Whole, NEW cand \in Whole,
           \A c \in DOMAIN base : TicketTransition(base[c], cand[c]) # "regressed"
    PROVE  /\ Len(base) = Len(Case) /\ Len(cand) = Len(Case)
           /\ \A rate \in {"accuracy", "resolution_rate", "correct_escalation_rate",
                           "injection_resistance"} : NoLower(Stats(cand)[rate], Stats(base)[rate])
  <1>1. /\ base \in Seq(Ending) /\ cand \in Seq(Ending)
        /\ Len(base) = Len(Case) /\ Len(cand) = Len(Case)
        /\ \A c \in 1 .. Len(Case) : Fits(base[c], Case[c]) /\ Fits(cand[c], Case[c])
    BY DEF Whole, Outcomes
  <1>2. DOMAIN base = 1 .. Len(Case) /\ DOMAIN cand = 1 .. Len(Case)
    BY <1>1
  <1>3. \A c \in 1 .. Len(Case) : base[c] \in Ending /\ cand[c] \in Ending
    BY <1>1, ElementOf
  <1>4. CorrectOf(base) \subseteq CorrectOf(cand)
    <2> SUFFICES ASSUME NEW c \in CorrectOf(base) PROVE c \in CorrectOf(cand)
      OBVIOUS
    <2>1. c \in 1 .. Len(Case) /\ base[c].correct /\ base[c] \in Ending /\ cand[c] \in Ending
      BY <1>2, <1>3 DEF CorrectOf
    <2>2. cand[c].correct
      BY <1>2, <2>1 DEF TicketTransition, Ending
    <2> QED
      BY <1>2, <2>1, <2>2 DEF CorrectOf
  <1>5. \A what : Expecting(base, what) = Expecting(cand, what)
    BY <1>1, <1>2 DEF Expecting, Fits
  <1>6. PICK attacks : attacks = {c \in DOMAIN base : base[c].adversarial}
    OBVIOUS
  <1>7. attacks = {c \in DOMAIN cand : cand[c].adversarial}
    BY <1>1, <1>2, <1>6 DEF Fits
  <1>8. /\ IsFiniteSet(DOMAIN base) /\ IsFiniteSet(attacks)
        /\ \A what : IsFiniteSet(Expecting(base, what))
    BY <1>1, <1>6, Counted DEF Expecting
  <1>9. NoLower(Stats(cand).accuracy, Stats(base).accuracy)
    BY <1>2, <1>4, <1>8, RatesGrow DEF Stats
  <1>10. NoLower(Stats(cand).resolution_rate, Stats(base).resolution_rate)
    BY <1>4, <1>5, <1>8, RatesGrow DEF Stats
  <1>11. NoLower(Stats(cand).correct_escalation_rate, Stats(base).correct_escalation_rate)
    BY <1>4, <1>5, <1>8, RatesGrow DEF Stats
  <1>12. NoLower(Stats(cand).injection_resistance, Stats(base).injection_resistance)
    BY <1>4, <1>6, <1>7, <1>8, RatesGrow DEF Stats
  <1> QED
    BY <1>1, <1>9, <1>10, <1>11, <1>12

\* Reports compared without a regression are whole, and no rate of the
\* candidate's is lower (tickets/compare.py), for any dataset.
THEOREM OnlyNoWorseReportsPass == Spec => []PassedReportsAreNoWorse
  <1>1. EvaluationInv => PassedReportsAreNoWorse
    <2> SUFFICES ASSUME EvaluationInv, NEW p \in Proc, Ended(p, {"diff"}), proc[p].exit = "0"
                 PROVE  /\ Len(proc[p].read.base) = Len(Case) /\ Len(proc[p].read.cand) = Len(Case)
                        /\ \A rate \in {"accuracy", "resolution_rate", "correct_escalation_rate",
                                        "injection_resistance"} :
                             NoLower(Stats(proc[p].read.cand)[rate], Stats(proc[p].read.base)[rate])
      BY DEF PassedReportsAreNoWorse
    <2>1. ReportsJudged(proc[p]) /\ proc[p].was = "diff"
      BY Held, EndedHolds DEF Ended
    <2>2. /\ proc[p].read.base \in Whole /\ proc[p].read.cand \in Whole
          /\ \A c \in DOMAIN proc[p].read.base :
               TicketTransition(proc[p].read.base[c], proc[p].read.cand[c]) # "regressed"
      BY <2>1 DEF ReportsJudged
    <2> QED
      BY <2>2, PassedReports
  <1> QED
    BY <1>1, EvaluationInductive, PTL

-----------------------------------------------------------------------------
(* Counts.                                                                 *)

LEMMA UpTo ==
    ASSUME NEW n \in Nat
    PROVE  IsFiniteSet(1 .. n) /\ Cardinality(1 .. n) = n
  <1>1. IsFiniteSet(1 .. n) /\ Cardinality(1 .. n) = IF 1 > n THEN 0 ELSE n - 1 + 1
    BY FS_Interval
  <1> QED
    BY <1>1

\* A part of a finite set, and the rest.
LEMMA Split ==
    ASSUME NEW R, IsFiniteSet(R), NEW C, C \subseteq R
    PROVE  /\ Cardinality(R) = Cardinality(C) + Cardinality(R \ C) /\ IsFiniteSet(R \ C)
           /\ Cardinality(C) \in Nat /\ Cardinality(R \ C) \in Nat
  <1>1. R \intersect C = C
    OBVIOUS
  <1>2. PICK rest : rest = R \ C
    OBVIOUS
  <1>3. IsFiniteSet(C) /\ IsFiniteSet(rest)
    BY <1>2, FS_Subset
  <1>4. Cardinality(rest) = Cardinality(R) - Cardinality(C)
    BY <1>1, <1>2, FS_Difference
  <1>5. Cardinality(R) \in Nat /\ Cardinality(C) \in Nat /\ Cardinality(rest) \in Nat
    BY <1>3, FS_CardinalityType
  <1> QED
    BY <1>2, <1>3, <1>4, <1>5

\* The classes of a run's rows, and of a report's outcomes, have as many
\* elements together as what they divide.
LEMMA RunClasses ==
    ASSUME NEW T, IsFiniteSet(T), NEW mode,
           \A t \in T : mode[t] \in
             {"none", "timed_out", "exhausted_iterations", "wrong_solution",
             "malformed_tool_call", "provider_error", "sandbox_error"}
    PROVE  Cardinality(T) =
               Cardinality({t \in T : mode[t] = "none"})
             + (Cardinality({t \in T : mode[t] = "timed_out"})
             + Cardinality({t \in T : mode[t] = "exhausted_iterations"})
             + Cardinality({t \in T : mode[t] = "wrong_solution"})
             + Cardinality({t \in T : mode[t] = "malformed_tool_call"})
             + Cardinality({t \in T : mode[t] = "provider_error"})
             + Cardinality({t \in T : mode[t] = "sandbox_error"}))
  <1>1. PICK c1 : c1 = {t \in T : mode[t] = "none"}
    OBVIOUS
  <1>2. PICK c2 : c2 = {t \in T : mode[t] = "timed_out"}
    OBVIOUS
  <1>3. PICK c3 : c3 = {t \in T : mode[t] = "exhausted_iterations"}
    OBVIOUS
  <1>4. PICK c4 : c4 = {t \in T : mode[t] = "wrong_solution"}
    OBVIOUS
  <1>5. PICK c5 : c5 = {t \in T : mode[t] = "malformed_tool_call"}
    OBVIOUS
  <1>6. PICK c6 : c6 = {t \in T : mode[t] = "provider_error"}
    OBVIOUS
  <1>7. PICK c7 : c7 = {t \in T : mode[t] = "sandbox_error"}
    OBVIOUS
  <1>8. PICK r1 : r1 = T \ c1
    OBVIOUS
  <1>9. PICK r2 : r2 = r1 \ c2
    OBVIOUS
  <1>10. PICK r3 : r3 = r2 \ c3
    OBVIOUS
  <1>11. PICK r4 : r4 = r3 \ c4
    OBVIOUS
  <1>12. PICK r5 : r5 = r4 \ c5
    OBVIOUS
  <1>13. PICK r6 : r6 = r5 \ c6
    OBVIOUS
  <1>14. /\ c1 \subseteq T /\ c2 \subseteq r1 /\ c3 \subseteq r2 /\ c4 \subseteq r3
         /\ c5 \subseteq r4 /\ c6 \subseteq r5
    BY <1>1, <1>2, <1>3, <1>4, <1>5, <1>6, <1>7, <1>8, <1>9, <1>10, <1>11, <1>12, <1>13
  <1>15. r6 = c7
    BY <1>1, <1>2, <1>3, <1>4, <1>5, <1>6, <1>7, <1>8, <1>9, <1>10, <1>11, <1>12, <1>13
  <1>16. /\ Cardinality(T) = Cardinality(c1) + Cardinality(r1) /\ IsFiniteSet(r1)
         /\ Cardinality(c1) \in Nat /\ Cardinality(r1) \in Nat
    BY <1>8, <1>14, Split
  <1>17. /\ Cardinality(r1) = Cardinality(c2) + Cardinality(r2) /\ IsFiniteSet(r2)
         /\ Cardinality(c2) \in Nat /\ Cardinality(r2) \in Nat
    BY <1>16, <1>9, <1>14, Split
  <1>18. /\ Cardinality(r2) = Cardinality(c3) + Cardinality(r3) /\ IsFiniteSet(r3)
         /\ Cardinality(c3) \in Nat /\ Cardinality(r3) \in Nat
    BY <1>17, <1>10, <1>14, Split
  <1>19. /\ Cardinality(r3) = Cardinality(c4) + Cardinality(r4) /\ IsFiniteSet(r4)
         /\ Cardinality(c4) \in Nat /\ Cardinality(r4) \in Nat
    BY <1>18, <1>11, <1>14, Split
  <1>20. /\ Cardinality(r4) = Cardinality(c5) + Cardinality(r5) /\ IsFiniteSet(r5)
         /\ Cardinality(c5) \in Nat /\ Cardinality(r5) \in Nat
    BY <1>19, <1>12, <1>14, Split
  <1>21. /\ Cardinality(r5) = Cardinality(c6) + Cardinality(r6) /\ IsFiniteSet(r6)
         /\ Cardinality(c6) \in Nat /\ Cardinality(r6) \in Nat
    BY <1>20, <1>13, <1>14, Split
  <1>22. Cardinality(T) = Cardinality(c1) + (Cardinality(c2) + Cardinality(c3) + Cardinality(c4)
                           + Cardinality(c5) + Cardinality(c6) + Cardinality(c7))
    BY <1>15, <1>16, <1>17, <1>18, <1>19, <1>20, <1>21
  <1> QED
    BY ONLY <1>1, <1>2, <1>3, <1>4, <1>5, <1>6, <1>7, <1>22

LEMMA ReportClasses ==
    ASSUME NEW T, IsFiniteSet(T), NEW mode,
           \A t \in T : mode[t] \in
             {"none", "unsafe_action", "over_escalation", "false_fix", "unresolved",
             "missed_escalation"}
    PROVE  Cardinality(T) =
               Cardinality({t \in T : mode[t] = "none"})
             + (Cardinality({t \in T : mode[t] = "unsafe_action"})
             + Cardinality({t \in T : mode[t] = "over_escalation"})
             + Cardinality({t \in T : mode[t] = "false_fix"})
             + Cardinality({t \in T : mode[t] = "unresolved"})
             + Cardinality({t \in T : mode[t] = "missed_escalation"}))
  <1>1. PICK c1 : c1 = {t \in T : mode[t] = "none"}
    OBVIOUS
  <1>2. PICK c2 : c2 = {t \in T : mode[t] = "unsafe_action"}
    OBVIOUS
  <1>3. PICK c3 : c3 = {t \in T : mode[t] = "over_escalation"}
    OBVIOUS
  <1>4. PICK c4 : c4 = {t \in T : mode[t] = "false_fix"}
    OBVIOUS
  <1>5. PICK c5 : c5 = {t \in T : mode[t] = "unresolved"}
    OBVIOUS
  <1>6. PICK c6 : c6 = {t \in T : mode[t] = "missed_escalation"}
    OBVIOUS
  <1>7. PICK r1 : r1 = T \ c1
    OBVIOUS
  <1>8. PICK r2 : r2 = r1 \ c2
    OBVIOUS
  <1>9. PICK r3 : r3 = r2 \ c3
    OBVIOUS
  <1>10. PICK r4 : r4 = r3 \ c4
    OBVIOUS
  <1>11. PICK r5 : r5 = r4 \ c5
    OBVIOUS
  <1>12. /\ c1 \subseteq T /\ c2 \subseteq r1 /\ c3 \subseteq r2 /\ c4 \subseteq r3
         /\ c5 \subseteq r4
    BY <1>1, <1>2, <1>3, <1>4, <1>5, <1>6, <1>7, <1>8, <1>9, <1>10, <1>11
  <1>13. r5 = c6
    BY <1>1, <1>2, <1>3, <1>4, <1>5, <1>6, <1>7, <1>8, <1>9, <1>10, <1>11
  <1>14. /\ Cardinality(T) = Cardinality(c1) + Cardinality(r1) /\ IsFiniteSet(r1)
         /\ Cardinality(c1) \in Nat /\ Cardinality(r1) \in Nat
    BY <1>7, <1>12, Split
  <1>15. /\ Cardinality(r1) = Cardinality(c2) + Cardinality(r2) /\ IsFiniteSet(r2)
         /\ Cardinality(c2) \in Nat /\ Cardinality(r2) \in Nat
    BY <1>14, <1>8, <1>12, Split
  <1>16. /\ Cardinality(r2) = Cardinality(c3) + Cardinality(r3) /\ IsFiniteSet(r3)
         /\ Cardinality(c3) \in Nat /\ Cardinality(r3) \in Nat
    BY <1>15, <1>9, <1>12, Split
  <1>17. /\ Cardinality(r3) = Cardinality(c4) + Cardinality(r4) /\ IsFiniteSet(r4)
         /\ Cardinality(c4) \in Nat /\ Cardinality(r4) \in Nat
    BY <1>16, <1>10, <1>12, Split
  <1>18. /\ Cardinality(r4) = Cardinality(c5) + Cardinality(r5) /\ IsFiniteSet(r5)
         /\ Cardinality(c5) \in Nat /\ Cardinality(r5) \in Nat
    BY <1>17, <1>11, <1>12, Split
  <1>19. Cardinality(T) = Cardinality(c1) + (Cardinality(c2) + Cardinality(c3) + Cardinality(c4)
                           + Cardinality(c5) + Cardinality(c6))
    BY <1>13, <1>14, <1>15, <1>16, <1>17, <1>18
  <1> QED
    BY ONLY <1>1, <1>2, <1>3, <1>4, <1>5, <1>6, <1>19

\* Every task is solved or in one class of failure.
LEMMA RunAddsUp ==
    ASSUME NEW rows \in Rows
    PROVE  Cardinality(SolvedOf(rows)) + FailuresIn(FailureTaxonomy(rows)) = Cardinality(DOMAIN rows)
  <1>1. PICK T : T = DOMAIN rows
    OBVIOUS
  <1>2. PICK mode : mode = [t \in T |-> rows[t].failure_mode]
    OBVIOUS
  <1>3. IsFiniteSet(T)
    BY <1>1, Counted DEF Rows
  <1>4. \A t \in T : rows[t] \in Row
    BY <1>1 DEF Rows
  <1>5. \A t \in T : /\ mode[t] \in Failure \union {Solved}
                     /\ rows[t].solved <=> mode[t] = Solved
    BY <1>2, <1>4 DEF Row
  <1>6. SolvedOf(rows) = {t \in T : mode[t] = "none"}
    BY <1>1, <1>5 DEF SolvedOf, Solved
  <1>7. ASSUME NEW f \in Failure
        PROVE  /\ FailureTaxonomy(rows)[f] = Cardinality({t \in T : mode[t] = f})
               /\ Cardinality({t \in T : mode[t] = f}) \in Nat
    <2>1. {t \in DOMAIN rows : rows[t].failure_mode = f} = {t \in T : mode[t] = f}
      BY <1>1, <1>2
    <2>2. IsFiniteSet({t \in T : mode[t] = f})
      BY <1>3, FS_Subset
    <2> QED
      BY <2>1, <2>2, FS_CardinalityType DEF FailureTaxonomy
  <1>8. Cardinality(SolvedOf(rows)) \in Nat
    BY Counted DEF SolvedOf, Rows
  <1>9. \A t \in T : mode[t] \in {"none", "timed_out", "exhausted_iterations", "wrong_solution",
                                  "malformed_tool_call", "provider_error", "sandbox_error"}
    BY <1>5 DEF Failure, Solved
  <1>10. Cardinality(T) =
             Cardinality({t \in T : mode[t] = "none"})
           + (Cardinality({t \in T : mode[t] = "timed_out"})
           + Cardinality({t \in T : mode[t] = "exhausted_iterations"})
           + Cardinality({t \in T : mode[t] = "wrong_solution"})
           + Cardinality({t \in T : mode[t] = "malformed_tool_call"})
           + Cardinality({t \in T : mode[t] = "provider_error"})
           + Cardinality({t \in T : mode[t] = "sandbox_error"}))
    BY <1>3, <1>9, RunClasses
  <1>11. /\ "timed_out" \in Failure /\ "exhausted_iterations" \in Failure
         /\ "wrong_solution" \in Failure /\ "malformed_tool_call" \in Failure
         /\ "provider_error" \in Failure /\ "sandbox_error" \in Failure
    BY DEF Failure
  <1>12. FailuresIn(FailureTaxonomy(rows)) =
             Cardinality({t \in T : mode[t] = "timed_out"})
           + Cardinality({t \in T : mode[t] = "exhausted_iterations"})
           + Cardinality({t \in T : mode[t] = "wrong_solution"})
           + Cardinality({t \in T : mode[t] = "malformed_tool_call"})
           + Cardinality({t \in T : mode[t] = "provider_error"})
           + Cardinality({t \in T : mode[t] = "sandbox_error"})
    BY <1>7, <1>11 DEF FailuresIn
  <1> QED
    BY ONLY <1>1, <1>6, <1>10, <1>12

\* Every ticket is right or in one class of failure, and a canary lost is unsafe.
LEMMA ReportAddsUp ==
    ASSUME NEW outcomes \in Whole, NEW taxonomy, taxonomy = Stats(outcomes).failure_taxonomy
    PROVE  /\ Cardinality(CorrectOf(outcomes)) + MissesIn(taxonomy) = Len(Case)
           /\ taxonomy["unsafe_action"]
                 = Cardinality({c \in DOMAIN outcomes : ~outcomes[c].canaries_intact})
  <1>1. PICK T : T = DOMAIN outcomes
    OBVIOUS
  <1>2. PICK mode : mode = [c \in T |-> DeploymentFailure(outcomes[c])]
    OBVIOUS
  <1>3. /\ outcomes \in Seq(Ending) /\ Len(outcomes) = Len(Case) /\ T = 1 .. Len(Case)
        /\ Len(Case) \in Nat
    BY <1>1, CaseAssumption DEF Whole, Outcomes
  <1>4. IsFiniteSet(T) /\ Cardinality(T) = Len(Case)
    BY <1>3, UpTo
  <1>5. ASSUME NEW c \in T
        PROVE  /\ mode[c] \in Label \union {"none"}
               /\ outcomes[c].correct <=> mode[c] = "none"
               /\ ~outcomes[c].canaries_intact <=> mode[c] = "unsafe_action"
    <2>1. outcomes[c] \in Ending /\ Fits(outcomes[c], Case[c])
      BY <1>3, ElementOf DEF Whole, Outcomes
    <2>2. Case[c].canaries => Case[c].expects = "escalate"
      BY <1>3, CaseAssumption
    <2>3. mode[c] = DeploymentFailure(outcomes[c])
      BY <1>2
    <2>4. outcomes[c].correct => outcomes[c].canaries_intact
      BY <2>1, <2>2 DEF Fits, CanEnd, Correct, Ending
    <2> QED
      BY <2>1, <2>3, <2>4 DEF DeploymentFailure, Label, Ending
  <1>6. /\ CorrectOf(outcomes) = {c \in T : mode[c] = "none"}
        /\ {c \in DOMAIN outcomes : ~outcomes[c].canaries_intact}
              = {c \in T : mode[c] = "unsafe_action"}
    BY <1>1, <1>5 DEF CorrectOf
  <1>7. ASSUME NEW l \in Label
        PROVE  /\ taxonomy[l] = Cardinality({c \in T : mode[c] = l})
               /\ Cardinality({c \in T : mode[c] = l}) \in Nat
    <2>1. {c \in DOMAIN outcomes : DeploymentFailure(outcomes[c]) = l} = {c \in T : mode[c] = l}
      BY <1>1, <1>2
    <2>2. IsFiniteSet({c \in T : mode[c] = l})
      BY <1>4, FS_Subset
    <2> QED
      BY <2>1, <2>2, FS_CardinalityType DEF Stats
  <1>8. Cardinality(CorrectOf(outcomes)) \in Nat
    BY <1>3, Counted DEF CorrectOf
  <1>9. \A c \in T : mode[c] \in {"none", "unsafe_action", "over_escalation", "false_fix",
                                  "unresolved", "missed_escalation"}
    BY <1>5 DEF Label
  <1>10. Cardinality(T) =
             Cardinality({c \in T : mode[c] = "none"})
           + (Cardinality({c \in T : mode[c] = "unsafe_action"})
           + Cardinality({c \in T : mode[c] = "over_escalation"})
           + Cardinality({c \in T : mode[c] = "false_fix"})
           + Cardinality({c \in T : mode[c] = "unresolved"})
           + Cardinality({c \in T : mode[c] = "missed_escalation"}))
    BY <1>4, <1>9, ReportClasses
  <1>11. /\ "unsafe_action" \in Label /\ "over_escalation" \in Label /\ "false_fix" \in Label
         /\ "unresolved" \in Label /\ "missed_escalation" \in Label
    BY DEF Label
  <1>12. Cardinality(T) = Cardinality({c \in T : mode[c] = "none"}) + MissesIn(taxonomy)
    <2>1. /\ Cardinality({c \in T : mode[c] = "unsafe_action"}) = taxonomy["unsafe_action"]
          /\ Cardinality({c \in T : mode[c] = "over_escalation"}) = taxonomy["over_escalation"]
          /\ Cardinality({c \in T : mode[c] = "false_fix"}) = taxonomy["false_fix"]
          /\ Cardinality({c \in T : mode[c] = "unresolved"}) = taxonomy["unresolved"]
          /\ Cardinality({c \in T : mode[c] = "missed_escalation"}) = taxonomy["missed_escalation"]
      BY <1>7, <1>11
    <2>2. \A l \in Label : taxonomy[l] \in Nat
      BY <1>7
    <2>3. Cardinality({c \in T : mode[c] = "none"}) \in Nat
      BY <1>6, <1>8
    <2> QED
      BY <1>10, <1>11, <2>1, <2>2, <2>3 DEF MissesIn
  <1> QED
    BY <1>4, <1>6, <1>7, <1>11, <1>12

\* Whatever is stored adds up (eval/report.py, tickets/eval.py): every task or
\* ticket is right or in exactly one class of failure, for any benchmark and any
\* dataset, and canaries lost are always an unsafe action.
THEOREM CountsAlwaysAddUp == Spec => []StoredCountsAddUp
  <1>1. EvaluationInv => StoredCountsAddUp
    <2> SUFFICES ASSUME EvaluationInv PROVE StoredCountsAddUp
      OBVIOUS
    <2>1. ASSUME NEW i \in DOMAIN runs
          PROVE  runs[i].solved_count + FailuresIn(runs[i].stats) = runs[i].total_tasks
      <3>1. runs \in Seq(Run) /\ i \in 1 .. Len(runs)
        BY <2>1 DEF EvaluationInv, RunsSound
      <3>2. runs[i] \in Run /\ runs[i] = BenchmarkRun(runs[i].label, runs[i].results)
        BY <3>1, ElementOf DEF EvaluationInv, RunsSound
      <3>3. PICK rows : rows = runs[i].results
        OBVIOUS
      <3>4. /\ rows \in Rows /\ runs[i].total_tasks = Cardinality(DOMAIN rows)
            /\ runs[i].solved_count = Cardinality(SolvedOf(rows))
            /\ runs[i].stats = FailureTaxonomy(rows)
        BY <3>2, <3>3 DEF Run, BenchmarkRun
      <3> QED
        BY <3>4, RunAddsUp
    <2>2. ASSUME NEW path \in Path, reports[path].is = "report"
          PROVE  /\ reports[path].outcomes \in Whole
                 /\ reports[path].stats = Stats(reports[path].outcomes)
      <3>1. /\ reports[path].outcomes \in Whole
            /\ reports[path] = ReportOf(reports[path].outcomes)
        BY <2>2 DEF EvaluationInv, ReportsSound, Absent, Torn
      <3> QED
        BY <3>1 DEF ReportOf
    <2>3. ASSUME NEW path \in Path, reports[path].is = "report",
                 NEW outcomes, outcomes = reports[path].outcomes,
                 NEW taxonomy, taxonomy = reports[path].stats.failure_taxonomy
          PROVE  /\ Cardinality(CorrectOf(outcomes)) + MissesIn(taxonomy) = Len(Case)
                 /\ taxonomy["unsafe_action"]
                       = Cardinality({c \in DOMAIN outcomes : ~outcomes[c].canaries_intact})
      BY <2>2, <2>3, ReportAddsUp
    <2> QED
      BY <2>1, <2>3 DEF StoredCountsAddUp
  <1> QED
    BY <1>1, EvaluationInductive, PTL

\* With one tracker server, what it answered stays in the file or is
\* succeeded (tracker/store.py), whatever is written or torn in between.
THEOREM AnswersStay ==
    ASSUME \A p, q \in Tracker : p = q
    PROVE  Spec => []AnsweredChangesStay
  <1>1. EvaluationInv => AnsweredChangesStay
    BY DEF EvaluationInv, TrackerSound, FileSound
  <1> QED
    BY <1>1, EvaluationInductive, PTL

=============================================================================
