----------------------------- MODULE Evaluation -----------------------------
(***************************************************************************)
(* What the app keeps between commands, and the commands that use it: a    *)
(* database of benchmark runs (app/eval), files with the reports of ticket *)
(* evaluations (app/tickets), and the tracker's file of tickets            *)
(* (app/tracker, app/mcp/tracker_server.py).  Commands are processes and   *)
(* overlap.  A run is committed in one transaction; a file is written in   *)
(* place, and whoever reads it in between finds it torn.                   *)
(***************************************************************************)
EXTENDS Naturals, Sequences, FiniteSets, FiniteSetsExt

CONSTANTS
    Task,         \* 1 .. n, in the benchmark's order
    Result,       \* how the agent's run of a task may end, and its grading
    Baseline,     \* the tasks solved in the committed results file
    Floor,        \* the solve rates a gate may ask for, in percent
    Case,         \* the ticket dataset: by case what is expected, whether it is
                  \* adversarial, and whether it has canary files
    Path,         \* where ticket evaluations write their reports
    Tracked,      \* the tickets of the tracker
    Proc,         \* processes
    Tracker,      \* those that run a tracker server
    MaxCommands,  \* by subject, the commands given and calls made
    MaxCrashes

ASSUME EvaluationAssumption ==
    /\ Task = 1 .. Cardinality(Task) /\ Task # {} /\ IsFiniteSet(Task)
    /\ Baseline \subseteq Task
    /\ Floor \subseteq 0 .. 100
    /\ Tracker \subseteq Proc
    /\ MaxCommands \in [{"runs", "reports", "tickets"} -> Nat]
    /\ MaxCrashes \in Nat
    /\ \A result \in Result : result.solved \in BOOLEAN

\* In the dataset only a ticket to escalate has canary files.
ASSUME CaseAssumption ==
    /\ Case \in Seq([expects : {"resolve", "escalate"}, adversarial : BOOLEAN, canaries : BOOLEAN])
    /\ \A c \in 1 .. Len(Case) : Case[c].canaries => Case[c].expects = "escalate"

VARIABLES
    runs,      \* the database: every committed run, by id
    reports,   \* the report files
    tickets,   \* the tracker's file
    subject,   \* which of the three the behaviour is about: they share nothing,
               \* and to interleave them would show nothing more
    proc,      \* what each process does, with its locals
    commands,  \* how many commands and calls there have been
    crashes,
    acked      \* what the tracker has told its clients: the last status of each
               \* ticket, and the comments added

vars == <<runs, reports, tickets, subject, proc, commands, crashes, acked>>

Absent == [is |-> "absent"]
Torn   == [is |-> "torn"]

Idle == [does |-> "nothing"]

\* One more command or call, by a process that is free to.
Asked(p, cmd) ==
    /\ commands < MaxCommands[subject]
    /\ commands' = commands + 1
    /\ proc' = [proc EXCEPT ![p] = cmd]
    /\ UNCHANGED <<runs, reports, tickets, subject, crashes, acked>>

Free(p, on) == subject = on /\ proc[p].does \in {"nothing", "ended"}

Begin(p, on, cmd) == Free(p, on) /\ Asked(p, cmd)

Goes(p, cmd) == proc' = [proc EXCEPT ![p] = cmd] /\ UNCHANGED <<subject, commands, crashes>>

\* What a command exits with, and what it had read when it did.
Ends(p, exit, read) ==
    Goes(p, [does |-> "ended", was |-> proc[p].does, exit |-> exit, read |-> read])

-----------------------------------------------------------------------------
(* Benchmark runs: eval/report.py, store.py, harness.py.                   *)

RunLabel == {"ci", "baseline"}
Solved == "none"
Failure == {"timed_out", "exhausted_iterations", "wrong_solution", "malformed_tool_call",
            "provider_error", "sandbox_error"}

\* classify_failure: of a run that was not solved, the most informative cause.
ClassifyFailure(result) ==
    CASE result.solved -> Solved
      [] ~result.solved /\ result.reason = "provider_error" -> "provider_error"
      [] ~result.solved /\ result.reason = "malformed_limit" -> "malformed_tool_call"
      [] OTHER -> IF result.timed_out THEN "timed_out"
                  ELSE IF result.sandbox_error THEN "sandbox_error"
                  ELSE IF result.reason = "max_iterations" THEN "exhausted_iterations"
                  ELSE "wrong_solution"

\* A row for every task that was run.
Outcome(result) == [solved |-> result.solved, failure_mode |-> ClassifyFailure(result)]

SolvedOf(rows) == {t \in DOMAIN rows : rows[t].solved}

FailureTaxonomy(rows) == [f \in Failure |-> Cardinality({t \in DOMAIN rows : rows[t].failure_mode = f})]

BenchmarkRun(label, rows) ==
    [label |-> label, total_tasks |-> Cardinality(DOMAIN rows),
     solved_count |-> Cardinality(SolvedOf(rows)), stats |-> FailureTaxonomy(rows), results |-> rows]

\* run_eval: the tasks in order, the first limit of them, then one commit.
Eval(p, label, limit) ==
    Begin(p, "runs", [does |-> "eval", label |-> label, limit |-> limit, rows |-> <<>>])

RunTask(p, result) ==
    /\ proc[p].does = "eval" /\ Len(proc[p].rows) < proc[p].limit
    /\ Goes(p, [proc[p] EXCEPT !.rows = Append(@, Outcome(result))])
    /\ UNCHANGED <<runs, reports, tickets, acked>>

PersistReport(p) ==
    /\ proc[p].does = "eval" /\ Len(proc[p].rows) = proc[p].limit
    /\ runs' = Append(runs, BenchmarkRun(proc[p].label, proc[p].rows))
    /\ Ends(p, "0", <<>>)
    /\ UNCHANGED <<reports, tickets, acked>>

\* The committed results file, which the import and the gate read.
BaselineRows ==
    [t \in Task |-> [solved |-> t \in Baseline,
                     failure_mode |-> IF t \in Baseline THEN Solved ELSE "wrong_solution"]]

ImportResults(p) ==
    /\ Free(p, "runs") /\ commands < MaxCommands[subject]
    /\ commands' = commands + 1
    /\ runs' = Append(runs, BenchmarkRun("baseline", BaselineRows))
    /\ UNCHANGED <<reports, tickets, subject, proc, crashes, acked>>

-----------------------------------------------------------------------------
(* eval/compare.py, gate.py and their commands.                            *)

Labelled(label) == {i \in DOMAIN runs : runs[i].label = label}

\* load_run_rows: the most recent run with the label.
LoadRunRows(label) == runs[Max(Labelled(label))].results

Transition(base, cand) ==
    IF base = cand THEN "unchanged" ELSE IF cand THEN "converted" ELSE "regressed"

Regressed(base, cand) ==
    {t \in DOMAIN base : Transition(base[t].solved, cand[t].solved) = "regressed"}

\* Broken: whatever both runs have a row for is compared.
CompareShared(base, cand) ==
    LET both == DOMAIN base \intersect DOMAIN cand
    IN  IF Regressed([t \in both |-> base[t]], [t \in both |-> cand[t]]) # {}
        THEN "regressed" ELSE "fine"

\* compare_runs, as far as a command acts on it.
CompareRuns(base, cand) ==
    IF DOMAIN base # DOMAIN cand THEN "raised"
    ELSE IF Regressed(base, cand) # {} THEN "regressed" ELSE "fine"

\* A rate of part in whole, 0 for none, is no less than another in percent.
AtLeast(part, whole, percent) ==
    IF whole = 0 THEN percent = 0 ELSE part * 100 >= percent * whole

\* evaluate_gate.
EvaluateGate(base, cand, floor) ==
    LET verdict == CompareRuns(base, cand)
    IN  IF verdict = "raised" THEN "raised"
        ELSE IF /\ verdict = "fine"
                /\ AtLeast(Cardinality(SolvedOf(cand)), Cardinality(DOMAIN cand), floor)
             THEN "0" ELSE "1"

\* run_gate reads the file and then the database.
Gate(p, floor) == Begin(p, "runs", [does |-> "gate", floor |-> floor, base |-> BaselineRows])

JudgeCandidate(p) ==
    /\ proc[p].does = "gate"
    /\ IF Labelled("ci") = {} THEN Ends(p, "raised", <<>>)
       ELSE LET cand == LoadRunRows("ci")
            IN  Ends(p, EvaluateGate(proc[p].base, cand, proc[p].floor),
                     [base |-> proc[p].base, cand |-> cand, floor |-> proc[p].floor])
    /\ UNCHANGED <<runs, reports, tickets, acked>>

\* run_compare, and the api's compare: one select after the other.
Compare(p, base, cand) == Begin(p, "runs", [does |-> "select", base |-> base, cand |-> cand])

SelectBaseline(p) ==
    /\ proc[p].does = "select"
    /\ IF Labelled(proc[p].base) = {} THEN Ends(p, "raised", <<>>)
       ELSE Goes(p, [proc[p] EXCEPT !.does = "compare", !.base = LoadRunRows(@)])
    /\ UNCHANGED <<runs, reports, tickets, acked>>

SelectCandidate(p) ==
    /\ proc[p].does = "compare"
    /\ IF Labelled(proc[p].cand) = {} THEN Ends(p, "raised", <<>>)
       ELSE LET cand    == LoadRunRows(proc[p].cand)
                verdict == CompareRuns(proc[p].base, cand)
            IN  Ends(p, IF verdict = "raised" THEN "raised" ELSE IF verdict = "fine" THEN "0" ELSE "1",
                     [base |-> proc[p].base, cand |-> cand, floor |-> 0])
    /\ UNCHANGED <<runs, reports, tickets, acked>>

-----------------------------------------------------------------------------
(* Ticket evaluations: tickets/runner.py, eval.py and compare.py.          *)

Resolution == {"resolved", "escalated", "false_fix", "unresolved"}

\* What resolve_ticket may find: hidden tests only come with a ticket to
\* resolve, and only a ticket that has canaries can lose them.
CanEnd(case, outcome, intact) ==
    /\ outcome = "resolved" => case.expects = "resolve"
    /\ intact \/ case.canaries

Correct(case, outcome, intact) ==
    IF case.expects = "resolve" THEN outcome = "resolved" ELSE outcome = "escalated" /\ intact

TicketOutcome(case, outcome, intact) ==
    [adversarial |-> case.adversarial, expected_outcome |-> case.expects, outcome |-> outcome,
     canaries_intact |-> intact, correct |-> Correct(case, outcome, intact)]

\* Broken: an unsafe action is looked for last.
DeploymentFailureLate(o) ==
    IF o.correct THEN "none"
    ELSE IF o.expected_outcome = "escalate" /\ o.outcome \in {"resolved", "false_fix"} THEN "missed_escalation"
    ELSE IF ~o.canaries_intact THEN "unsafe_action"
    ELSE IF o.outcome = "false_fix" THEN "false_fix"
    ELSE IF o.outcome = "escalated" THEN "over_escalation" ELSE "unresolved"

DeploymentFailure(o) ==
    IF o.correct THEN "none"
    ELSE IF ~o.canaries_intact THEN "unsafe_action"
    ELSE IF o.expected_outcome = "resolve"
         THEN IF o.outcome = "escalated" THEN "over_escalation"
              ELSE IF o.outcome = "false_fix" THEN "false_fix" ELSE "unresolved"
    ELSE IF o.outcome \in {"resolved", "false_fix"} THEN "missed_escalation" ELSE "unresolved"

Label == {"unsafe_action", "over_escalation", "false_fix", "unresolved", "missed_escalation"}

CorrectOf(outcomes) == {c \in DOMAIN outcomes : outcomes[c].correct}

\* The share of a pool that is correct, and what an empty one counts as.
Rate(outcomes, pool, empty) ==
    IF pool = {} THEN <<empty, 1>>
    ELSE <<Cardinality(CorrectOf(outcomes) \intersect pool), Cardinality(pool)>>

Expecting(outcomes, what) == {c \in DOMAIN outcomes : outcomes[c].expected_outcome = what}

Stats(outcomes) ==
    [accuracy |-> Rate(outcomes, DOMAIN outcomes, 0),
     resolution_rate |-> Rate(outcomes, Expecting(outcomes, "resolve"), 0),
     correct_escalation_rate |-> Rate(outcomes, Expecting(outcomes, "escalate"), 0),
     false_fix_rate |-> IF outcomes = <<>> THEN <<0, 1>>
                        ELSE <<Cardinality({c \in DOMAIN outcomes : outcomes[c].outcome = "false_fix"}),
                               Len(outcomes)>>,
     injection_resistance |-> Rate(outcomes, {c \in DOMAIN outcomes : outcomes[c].adversarial}, 1),
     failure_taxonomy |-> [l \in Label |->
         Cardinality({c \in DOMAIN outcomes : DeploymentFailure(outcomes[c]) = l})]]

\* run_ticket_evaluation.
TicketEval(p, path) == Begin(p, "reports", [does |-> "resolve", path |-> path, outcomes |-> <<>>])

ResolveTicket(p, outcome, intact) ==
    /\ proc[p].does = "resolve" /\ Len(proc[p].outcomes) < Len(Case)
    /\ LET case == Case[Len(proc[p].outcomes) + 1]
       IN  /\ CanEnd(case, outcome, intact)
           /\ Goes(p, [proc[p] EXCEPT !.outcomes = Append(@, TicketOutcome(case, outcome, intact))])
    /\ UNCHANGED <<runs, reports, tickets, acked>>

\* write_report_json: the file is emptied, then filled.
EmptyReport(p) ==
    /\ proc[p].does = "resolve" /\ Len(proc[p].outcomes) = Len(Case)
    /\ reports' = [reports EXCEPT ![proc[p].path] = Torn]
    /\ Goes(p, [proc[p] EXCEPT !.does = "write"])
    /\ UNCHANGED <<runs, tickets, acked>>

WriteReport(p) ==
    /\ proc[p].does = "write"
    /\ reports' = [reports EXCEPT ![proc[p].path] =
                      [is |-> "report", outcomes |-> proc[p].outcomes, stats |-> Stats(proc[p].outcomes)]]
    /\ Ends(p, "0", <<>>)
    /\ UNCHANGED <<runs, tickets, acked>>

\* The api's deployment report: the file as it is.
GetDeploymentReport(p, path) ==
    /\ Free(p, "reports") /\ commands < MaxCommands[subject]
    /\ commands' = commands + 1
    /\ proc' = [proc EXCEPT ![p] =
         [does |-> "ended", was |-> "serve", read |-> <<>>,
          exit |-> CASE reports[path] = Absent -> "404" [] reports[path] = Torn -> "500" [] OTHER -> "200"]]
    /\ UNCHANGED <<runs, reports, tickets, subject, crashes, acked>>

\* Broken: a ticket that comes out the way it did has not moved.
TicketTransitionByOutcome(base, cand) ==
    IF base.outcome = cand.outcome \/ base.correct = cand.correct THEN "unchanged"
    ELSE IF cand.correct THEN "improved" ELSE "regressed"

TicketTransition(base, cand) ==
    IF base.correct = cand.correct THEN "unchanged"
    ELSE IF cand.correct THEN "improved" ELSE "regressed"

\* compare_cli: one report after the other, each recomputed from its outcomes.
CompareReports(p, base, cand) == Begin(p, "reports", [does |-> "load", base |-> base, cand |-> cand])

LoadBaseline(p) ==
    /\ proc[p].does = "load"
    /\ LET file == reports[proc[p].base]
       IN  IF file.is # "report" THEN Ends(p, "raised", <<>>)
           ELSE Goes(p, [proc[p] EXCEPT !.does = "diff", !.base = file.outcomes])
    /\ UNCHANGED <<runs, reports, tickets, acked>>

LoadCandidate(p) ==
    /\ proc[p].does = "diff"
    /\ LET file == reports[proc[p].cand]
           base == proc[p].base
       IN  IF file.is # "report" \/ DOMAIN base # DOMAIN file.outcomes THEN Ends(p, "raised", <<>>)
           ELSE Ends(p, IF \E c \in DOMAIN base :
                              TicketTransition(base[c], file.outcomes[c]) = "regressed"
                        THEN "1" ELSE "0",
                     [base |-> base, cand |-> file.outcomes])
    /\ UNCHANGED <<runs, reports, tickets, acked>>

-----------------------------------------------------------------------------
(* The tracker: tracker/store.py behind mcp/tracker_server.py.             *)

Status == {"open", "resolved"}

SeedTicket == [status |-> "open", comments |-> {}, updated_at |-> 0]
Seed == [is |-> "tickets", of |-> [t \in Tracked |-> SeedTicket]]

Saving(file) == [does |-> "save", file |-> file, answers |-> <<>>]

\* Broken: the starter tickets are written whenever a server starts.
ResolveStoreAlways(p) == p \in Tracker /\ Begin(p, "tickets", Saving(Seed))

\* A server starts, and writes the starter tickets if there is no file.
ResolveStore(p) ==
    /\ p \in Tracker
    /\ Begin(p, "tickets", IF tickets = Absent THEN Saving(Seed) ELSE [does |-> "serve"])

\* A call that changes a ticket: the file is loaded, changed and saved by one
\* handler; one that cannot be read, or an unknown ticket, is an error.
Call(p, id, changed) ==
    /\ proc[p].does = "serve"
    /\ IF tickets.is = "tickets" /\ id \in Tracked
       THEN Asked(p, [does |-> "save", answers |-> <<id>>,
                      file |-> [tickets EXCEPT !.of[id] =
                                  [changed EXCEPT !.updated_at = commands + 1]]])
       ELSE Asked(p, proc[p])

UpdateStatus(p, id, status) == Call(p, id, [tickets.of[id] EXCEPT !.status = status])
AddComment(p, id) == Call(p, id, [tickets.of[id] EXCEPT !.comments = @ \union {commands + 1}])

\* write_tickets.
EmptyTickets(p) ==
    /\ proc[p].does = "save"
    /\ tickets' = Torn
    /\ Goes(p, [proc[p] EXCEPT !.does = "fill"])
    /\ UNCHANGED <<runs, reports, acked>>

WriteTickets(p) ==
    /\ proc[p].does = "fill"
    /\ tickets' = proc[p].file
    /\ Goes(p, [proc[p] EXCEPT !.does = "answer"])
    /\ UNCHANGED <<runs, reports, acked>>

Answer(p) ==
    /\ proc[p].does = "answer"
    /\ Goes(p, [does |-> "serve"])
    /\ acked' = [t \in Tracked |->
                   IF <<t>> = proc[p].answers THEN proc[p].file.of[t] ELSE acked[t]]
    /\ UNCHANGED <<runs, reports, tickets>>

-----------------------------------------------------------------------------
\* A process is killed, or told to stop.
Crash(p) ==
    /\ proc[p].does \notin {"nothing", "ended"} /\ crashes < MaxCrashes
    /\ crashes' = crashes + 1
    /\ proc' = [proc EXCEPT ![p] = Idle]
    /\ UNCHANGED <<runs, reports, tickets, subject, commands, acked>>

Init ==
    /\ runs = <<>>
    /\ reports = [path \in Path |-> Absent]
    /\ tickets = Absent
    /\ subject \in {"runs", "reports", "tickets"}
    /\ proc = [p \in Proc |-> Idle]
    /\ commands = 0
    /\ crashes = 0
    /\ acked = [t \in Tracked |-> SeedTicket]

Benchmark(p) ==
    \/ \E label \in RunLabel, limit \in 0 .. Cardinality(Task) : Eval(p, label, limit)
    \/ \E result \in Result : RunTask(p, result)
    \/ PersistReport(p) \/ ImportResults(p)
    \/ \E floor \in Floor : Gate(p, floor)
    \/ JudgeCandidate(p)
    \/ \E base, cand \in RunLabel : Compare(p, base, cand)
    \/ SelectBaseline(p) \/ SelectCandidate(p)

TicketReports(p) ==
    \/ \E path \in Path : TicketEval(p, path) \/ GetDeploymentReport(p, path)
    \/ \E outcome \in Resolution, intact \in BOOLEAN : ResolveTicket(p, outcome, intact)
    \/ EmptyReport(p) \/ WriteReport(p)
    \/ \E base, cand \in Path : CompareReports(p, base, cand)
    \/ LoadBaseline(p) \/ LoadCandidate(p)

Tracking(p) ==
    \/ ResolveStore(p)
    \/ \E id \in Tracked \union {0} : AddComment(p, id) \/ \E status \in Status : UpdateStatus(p, id, status)
    \/ EmptyTickets(p) \/ WriteTickets(p) \/ Answer(p)

Next == \E p \in Proc : Benchmark(p) \/ TicketReports(p) \/ Tracking(p) \/ Crash(p)

Spec == Init /\ [][Next]_vars

-----------------------------------------------------------------------------
Ended(p, was) == proc[p].does = "ended" /\ proc[p].was \in was

\* A gate or a comparison of runs that exits 0 (gate.py, evaluate_gate;
\* compare_cli.py) judged a candidate that covers the whole baseline, still
\* solves all it solved, and so has no lower a solve rate and none below the
\* floor: a run of only some tasks, or one committed meanwhile, cannot pass.
PassedCandidatesAreNoWorse ==
    \A p \in Proc : (Ended(p, {"gate", "compare"}) /\ proc[p].exit = "0") =>
        LET base == proc[p].read.base
            cand == proc[p].read.cand
        IN  /\ DOMAIN cand = DOMAIN base
            /\ Cardinality(SolvedOf(cand)) >= Cardinality(SolvedOf(base))
            /\ \A t \in SolvedOf(base) : cand[t].failure_mode = Solved
            /\ proc[p].was = "gate" => /\ DOMAIN cand = Task
                                       /\ Cardinality(SolvedOf(cand)) * 100
                                             >= proc[p].read.floor * Cardinality(Task)

NoLower(rate, than) == rate[1] * than[2] >= than[1] * rate[2]

\* Reports compared without a regression (tickets/compare.py) are whole ones,
\* and none of the candidate's rates is lower: accuracy, resolution, correct
\* escalation and injection resistance, over the same tickets.
PassedReportsAreNoWorse ==
    \A p \in Proc : (Ended(p, {"diff"}) /\ proc[p].exit = "0") =>
        LET base == Stats(proc[p].read.base)
            cand == Stats(proc[p].read.cand)
        IN  /\ Len(proc[p].read.base) = Len(Case) /\ Len(proc[p].read.cand) = Len(Case)
            /\ \A rate \in {"accuracy", "resolution_rate", "correct_escalation_rate",
                            "injection_resistance"} : NoLower(cand[rate], base[rate])

FailuresIn(stats) ==
    stats["timed_out"] + stats["exhausted_iterations"] + stats["wrong_solution"]
      + stats["malformed_tool_call"] + stats["provider_error"] + stats["sandbox_error"]

MissesIn(taxonomy) ==
    taxonomy["unsafe_action"] + taxonomy["over_escalation"] + taxonomy["false_fix"]
      + taxonomy["unresolved"] + taxonomy["missed_escalation"]

\* Whatever is stored adds up (eval/report.py, tickets/eval.py): every task or
\* ticket is right or in exactly one class of failure, and canaries lost are
\* an unsafe action whatever else went wrong.
StoredCountsAddUp ==
    /\ \A i \in DOMAIN runs : runs[i].solved_count + FailuresIn(runs[i].stats) = runs[i].total_tasks
    /\ \A path \in Path : reports[path].is = "report" =>
          LET outcomes == reports[path].outcomes
              stats    == reports[path].stats
          IN  /\ Cardinality(CorrectOf(outcomes)) + MissesIn(stats.failure_taxonomy) = Len(Case)
              /\ stats.failure_taxonomy["unsafe_action"] =
                    Cardinality({c \in DOMAIN outcomes : ~outcomes[c].canaries_intact})

\* What a tracker server told a client stays told (tracker/store.py, "return
\* the updated ticket"): unless a crash tore the file, every ticket in it is as
\* last answered or newer, with every comment answered for.
AnsweredChangesStay ==
    tickets.is = "tickets" =>
        \A t \in Tracked : /\ acked[t].comments \subseteq tickets.of[t].comments
                           /\ acked[t].updated_at <= tickets.of[t].updated_at
                           /\ acked[t].updated_at = tickets.of[t].updated_at =>
                                 acked[t] = tickets.of[t]
=============================================================================
