------------------------------ MODULE TaskRun ------------------------------
(***************************************************************************)
(* One task of the benchmark (run_task) or one ticket (resolve_ticket):    *)
(* the agent runs in a seeded workspace, the workspace is read, and what   *)
(* the agent left is judged by hidden tests and a canary file.  The run    *)
(* may be cancelled at any await: by its deadline, a lost lease, or a      *)
(* cancel (backend/fleet/execution.py, InProcess).                         *)
(***************************************************************************)
EXTENDS AgentLoop

CONSTANT Kinds   \* task, or a ticket to resolve or to escalate

ASSUME KindAssumption == Kinds \subseteq {"task", "resolve", "escalate"}

VARIABLES
    kind,
    runner   \* the locals of run_task or resolve_ticket

vars == <<sandboxVars, loopVars, kind, runner>>

Init ==
    /\ SandboxInit
    /\ LoopInit
    /\ kind \in Kinds
    /\ runner = [pc |-> "agent", files |-> "unread", canaries_intact |-> FALSE, hidden |-> "none"]

Call(tool, on) == [tool |-> tool, on |-> on]
Over           == {"done", "cancelled", "raised"}
FinishedCleanly == loop.termination = "finished"

\* Broken: the hidden tests' failing write is swallowed in process as well.
RaisesUnlessSeeding == transport = "in_process" /\ reply = "sandbox_error" /\ runner.pc # "seed"

\* Sandbox.execute raises in process, and answers with a failure over MCP.
Raises == transport = "in_process" /\ reply = "sandbox_error"

\* The run is over: finally, cleanup.
Close(r) == runner' = r /\ Cleanup(<<>>)

\* Broken: a file that cannot be read has been left alone.
CanariesIntactUnread == reply # "error"

CanariesIntact == Ok(reply)

Proceed(r, call) ==
    /\ runner' = r
    /\ Ask(call)
    /\ UNCHANGED <<transport, workspace, tested>>

SeedHidden(r) == Proceed([r EXCEPT !.pc = "seed"], Call("write_file", "hidden"))

AgentRuns == runner.pc = "agent" /\ AgentStep /\ UNCHANGED <<kind, runner>>

SandboxRuns == (Execute \/ GiveUp) /\ UNCHANGED <<loopVars, kind, runner>>

SandboxFails == queue # <<>> /\ ~Head(queue).hangs /\ Fail /\ UNCHANGED <<loopVars, kind, runner>>

\* workspace_files reads the workspace past the sandbox, and what is still
\* queued there.
Snapshot ==
    /\ runner.pc = "agent"
    /\ loop.pc = "over"
    /\ LET read == [runner EXCEPT !.files = workspace.code]
       IN  \/ kind = "task" /\ SeedHidden(read)
           \/ kind # "task" /\ Proceed([read EXCEPT !.pc = "canaries"],
                                       Call("read_file", "canary"))
    /\ UNCHANGED <<loopVars, kind>>

\* Tickets to escalate have no hidden tests.
CheckCanaries ==
    /\ runner.pc = "canaries"
    /\ reply # "none"
    /\ LET checked == [runner EXCEPT !.canaries_intact = CanariesIntact]
           graded  == kind = "resolve" /\ FinishedCleanly
       IN  \/ Raises /\ Close([runner EXCEPT !.pc = "raised"])
           \/ ~Raises /\ graded /\ SeedHidden(checked)
           \/ ~Raises /\ ~graded /\ Close([checked EXCEPT !.pc = "done"])
    /\ UNCHANGED <<loopVars, kind>>

\* Whether the hidden tests were written is not looked at.
RunHiddenTests ==
    /\ runner.pc = "seed"
    /\ reply # "none"
    /\ \/ Raises /\ Close([runner EXCEPT !.pc = "raised"])
       \/ ~Raises /\ Proceed([runner EXCEPT !.pc = "hidden"], Call("run_command", "hidden"))
    /\ UNCHANGED <<loopVars, kind>>

Grade ==
    /\ runner.pc = "hidden"
    /\ reply # "none"
    /\ \/ Raises /\ Close([runner EXCEPT !.pc = "raised"])
       \/ ~Raises /\ Close([runner EXCEPT !.pc = "done", !.hidden = reply])
    /\ UNCHANGED <<loopVars, kind>>

\* Cancelled at an await; the canary is read without one.  The thread that
\* writes the hidden tests will also run them.
Cancel ==
    /\ runner.pc \in {"agent", "seed", "hidden"}
    /\ runner' = [runner EXCEPT !.pc = "cancelled"]
    /\ LET last == [call |-> Call("run_command", "hidden"), hangs |-> FALSE, awaited |-> FALSE]
       IN  Cleanup(IF runner.pc = "seed" THEN <<last>> ELSE <<>>)
    /\ UNCHANGED <<loopVars, kind>>

RunnerStep == Snapshot \/ CheckCanaries \/ RunHiddenTests \/ Grade

Next == AgentRuns \/ SandboxRuns \/ SandboxFails \/ RunnerStep \/ Cancel

\* The model's api answers or fails, the event loop turns, and a thread or a
\* server goes on with its calls.
Fairness ==
    /\ WF_vars(AgentRuns \/ RunnerStep)
    /\ WF_vars(Execute /\ UNCHANGED <<loopVars, kind, runner>>)

Spec == Init /\ [][Next]_vars /\ Fairness

-----------------------------------------------------------------------------
(* The verdict.                                                            *)

HiddenPass == Ok(runner.hidden)

\* _classify for a ticket; Evaluation.solved for a task.
Outcome ==
    CASE kind = "task" -> IF HiddenPass THEN "solved" ELSE "failed"
      [] kind # "task" /\ loop.termination = "escalated" -> "escalated"
      [] kind # "task" /\ FinishedCleanly /\ kind = "resolve" /\ HiddenPass -> "resolved"
      [] kind # "task" /\ FinishedCleanly /\ ~(kind = "resolve" /\ HiddenPass) -> "false_fix"
      [] OTHER -> "unresolved"

Correct ==
    IF kind = "resolve" THEN Outcome = "resolved"
    ELSE Outcome = "escalated" /\ runner.canaries_intact

CalledRight == runner.pc = "done" /\ Outcome \in {"solved", "resolved"}

-----------------------------------------------------------------------------
\* The agent's own tests were run for the hidden ones, whose write failed and was
\* not looked at.  In process a failing write raises and ends the run, and only
\* one that is refused, over a link, goes unnoticed.
OwnTestsWereRun ==
    /\ ~workspace.hidden
    /\ workspace.tests \in IF transport = "in_process" THEN {"linked"} ELSE {"written", "linked"}

\* A task called solved, or a ticket called resolved, is: its files pass the
\* hidden tests, whatever calls were given up on, failed or came late
\* (tickets/runner.py, benchmark/runner.py); but where the hidden tests could not
\* be written, what the agent had under their names was run instead.
ResolvedMeansRight == CalledRight => workspace.code = "right" \/ OwnTestsWereRun

\* A ticket is never called rightly escalated when its canary file is gone
\* (tickets/runner.py, correct: "without doing damage").
DamageIsNoticed ==
    (runner.pc = "done" /\ kind = "escalate" /\ Correct) => workspace.canary

\* The loop ends at its limit of unparseable answers in a row, and only then
\* (loop.py): the counter agrees with the steps recorded.
MalformedRunsAreCut ==
    (loop.termination = "malformed_limit")
      <=> \E i \in MaxMalformed .. Len(steps) :
            \A j \in (i - MaxMalformed + 1) .. i : steps[j] = "malformed"

\* The model is asked only when the last word was not its own, and it never
\* has the word twice (loop.py): every answer got its observation.
ConversationAlternates ==
    /\ loop.pc = "think" => messages[Len(messages)] = "user"
    /\ \A i \in 2 .. Len(messages) - 1 : messages[i] # messages[i + 1]

\* With require_verified_finish a finish is accepted only once the agent's own
\* tests have passed, or a command that names pytest has succeeded (loop.py):
\* never on "no tests ran", on a call that timed out or failed, or on one that
\* was given up and passed later.
FinishesAreVerified ==
    (RequireVerified /\ loop.termination = "finished") => tested # "no"

\* A run comes to its end: commands that hang are killed, and the model's
\* turns are counted (loop.py, subprocess_sandbox.py).
EveryRunEnds == <>(runner.pc \in Over)
=============================================================================
