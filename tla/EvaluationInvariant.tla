------------------------ MODULE EvaluationInvariant ------------------------
(***************************************************************************)
(* The inductive invariant behind Evaluation's safety properties.          *)
(*                                                                         *)
(* Whatever a process holds and whatever is kept has the form in which it  *)
(* was made: rows that agree with their failure class, outcomes that fit   *)
(* their tickets, and tracker files that are no older than what was        *)
(* answered.  A verdict is then about the rows and outcomes it was read    *)
(* from, whoever wrote them and whatever has been committed since.         *)
(***************************************************************************)
EXTENDS Evaluation

-----------------------------------------------------------------------------
(* Benchmark runs.                                                         *)

Row == {row \in [solved : BOOLEAN, failure_mode : Failure \union {Solved}] :
            row.solved <=> row.failure_mode = Solved}

\* A row for each of the first tasks.
Rows == Seq(Row)

Run == [label : RunLabel, total_tasks : Nat, solved_count : Nat, stats : [Failure -> Nat],
        results : Rows]

\* A run as stored is the run of its rows.
RunsSound ==
    /\ runs \in Seq(Run)
    /\ \A i \in 1 .. Len(runs) : runs[i] = BenchmarkRun(runs[i].label, runs[i].results)

-----------------------------------------------------------------------------
(* Reports.                                                                *)

Ending == [adversarial : BOOLEAN, expected_outcome : {"resolve", "escalate"},
           outcome : Resolution, canaries_intact : BOOLEAN, correct : BOOLEAN]

\* o is how the ticket may have ended.
Fits(o, case) ==
    /\ o.expected_outcome = case.expects
    /\ o.adversarial = case.adversarial
    /\ CanEnd(case, o.outcome, o.canaries_intact)
    /\ o.correct = Correct(case, o.outcome, o.canaries_intact)

\* The outcomes of the first tickets, and of all of them.
Outcomes == {o \in Seq(Ending) : Len(o) <= Len(Case) /\ \A c \in 1 .. Len(o) : Fits(o[c], Case[c])}
Whole    == {o \in Outcomes : Len(o) = Len(Case)}

ReportOf(outcomes) == [is |-> "report", outcomes |-> outcomes, stats |-> Stats(outcomes)]

ReportsSound ==
    /\ reports = [path \in Path |-> reports[path]]
    /\ \A path \in Path :
         \/ reports[path] \in {Absent, Torn}
         \/ reports[path].outcomes \in Whole /\ reports[path] = ReportOf(reports[path].outcomes)

-----------------------------------------------------------------------------
(* The tracker.                                                            *)

Ticket      == [status : Status, comments : SUBSET Nat, updated_at : Nat]
TrackerFile == [is : {"tickets"}, of : [Tracked -> Ticket]]

\* What every call answered for is in the file, or something newer.
KeepsAnswers(file) ==
    \A t \in Tracked : /\ acked[t].comments \subseteq file.of[t].comments
                       /\ acked[t].updated_at <= file.of[t].updated_at
                       /\ acked[t].updated_at = file.of[t].updated_at => acked[t] = file.of[t]

Dated(file) == \A t \in Tracked : file.of[t].updated_at <= commands

TicketsSound ==
    /\ tickets \in {Absent, Torn} \union TrackerFile
    /\ acked \in [Tracked -> Ticket]

\* A server holds a file that has all that was answered; once it is written it
\* is the file.
ServerSound(p) ==
    proc[p].does \in {"save", "fill", "answer"} =>
        /\ KeepsAnswers(proc[p].file)
        /\ Dated(proc[p].file)
        /\ proc[p].does = "answer" => tickets = proc[p].file

\* No file, or a file no older than the answers, which are no newer than now.
FileSound ==
    /\ AnsweredChangesStay
    /\ tickets.is = "tickets" => Dated(tickets)
    /\ tickets = Absent => \A t \in Tracked : acked[t] = SeedTicket
    /\ \A t \in Tracked : acked[t].updated_at <= commands

\* Only trackers serve the tracker's file; with one of them there is one writer.
TrackerSound ==
    (\A p, q \in Tracker : p = q) =>
        /\ FileSound
        /\ \A p \in Proc : ServerSound(p)

-----------------------------------------------------------------------------
(* Processes.                                                              *)

EvalCmd    == [does : {"eval"}, label : RunLabel, limit : Nat, rows : Rows]
GateCmd    == [does : {"gate"}, floor : Floor, base : {BaselineRows}]
SelectCmd  == [does : {"select"}, base : RunLabel, cand : RunLabel]
CompareCmd == [does : {"compare"}, base : Rows, cand : RunLabel]
ResolveCmd == [does : {"resolve"}, path : Path, outcomes : Outcomes]
WriteCmd   == [does : {"write"}, path : Path, outcomes : Whole]
LoadCmd    == [does : {"load"}, base : Path, cand : Path]
DiffCmd    == [does : {"diff"}, base : Whole, cand : Path]
IdleCmd    == [does : {"nothing", "serve"}]
SaveCmd    == [does : {"save", "fill", "answer"}, file : TrackerFile,
               answers : {<<>>} \union {<<t>> : t \in Tracked}]

\* A verdict on runs, and one on reports, is of what was read.
RunsJudged(cmd) ==
    (cmd.was \in {"gate", "compare"} /\ cmd.exit = "0") =>
        LET base == cmd.read.base
            cand == cmd.read.cand
        IN  /\ base \in Rows /\ cand \in Rows
            /\ CompareRuns(base, cand) = "fine"
            /\ cmd.was = "gate" =>
                 /\ base = BaselineRows
                 /\ AtLeast(Cardinality(SolvedOf(cand)), Cardinality(DOMAIN cand), cmd.read.floor)

ReportsJudged(cmd) ==
    (cmd.was = "diff" /\ cmd.exit = "0") =>
        LET base == cmd.read.base
            cand == cmd.read.cand
        IN  /\ base \in Whole /\ cand \in Whole
            /\ \A c \in DOMAIN base : TicketTransition(base[c], cand[c]) # "regressed"

CommandSound(cmd) ==
    \/ cmd \in EvalCmd \/ cmd \in GateCmd \/ cmd \in SelectCmd \/ cmd \in CompareCmd
    \/ cmd \in ResolveCmd \/ cmd \in WriteCmd \/ cmd \in LoadCmd \/ cmd \in DiffCmd
    \/ cmd \in IdleCmd \/ cmd \in SaveCmd
    \/ cmd.does = "ended" /\ RunsJudged(cmd) /\ ReportsJudged(cmd)

ProcsSound ==
    /\ proc = [p \in Proc |-> proc[p]]
    /\ \A p \in Proc : /\ CommandSound(proc[p])
                       /\ proc[p].does \in {"serve", "save", "fill", "answer"} => p \in Tracker
    /\ commands \in Nat

-----------------------------------------------------------------------------
\* The inductive invariant (eval/store.py, tickets/eval.py, tracker/store.py):
\* what is held, stored, answered or judged is sound.
EvaluationInv ==
    /\ RunsSound
    /\ ReportsSound
    /\ TicketsSound
    /\ ProcsSound
    /\ TrackerSound

=============================================================================
