------------------------------ MODULE Sandbox ------------------------------
(***************************************************************************)
(* The workspace an agent acts on, and the two ways to its tools           *)
(* (backend/app/sandbox, backend/app/mcp): in a thread of the agent's own  *)
(* process, or over MCP in a server that runs one call at a time.  A call  *)
(* is queued, runs, and leaves its result in reply.                        *)
(*                                                                         *)
(* Of the files, the module keeps what the grading tells apart: whether    *)
(* the code would pass the hidden tests, the agent's own tests, whether    *)
(* the hidden tests have been written, and the canary file.  The hidden    *)
(* tests' names are ordinary ones: the agent may have tests of its own     *)
(* under them, or a link out of the workspace.                             *)
(***************************************************************************)
EXTENDS Naturals, Sequences

CONSTANT Transports   \* the tool transports an agent may be given

ASSUME TransportAssumption == Transports \subseteq {"in_process", "mcp"}

VARIABLES
    transport,
    workspace,
    queue,      \* calls asked of the sandbox; only the last may be waited for
    reply,      \* the result of the call waited for
    tested      \* history: no tests yet, pytest only named, or the agent's tests passed

sandboxVars == <<transport, workspace, queue, reply, tested>>

Code      == {"right", "wrong"}
Tests     == {"none", "written", "linked"}
Workspace == [exists : BOOLEAN, code : Code, tests : Tests, hidden : BOOLEAN,
              canary : BOOLEAN]

\* A call names its tool and what it is about: a command may be any shell
\* command, run pytest, only mention it, or run the hidden tests.
ToolCall == [tool : {"read_file"}, on : {"code", "canary"}]
       \union [tool : {"write_file"}, on : {"code", "tests", "hidden"}]
       \union [tool : {"run_command"}, on : {"shell", "pytest", "mention", "hidden"}]
       \union [tool : {"run_tests"}, on : {"suite"}]
AgentCall == {call \in ToolCall : call.on \notin {"hidden", "canary"}}
Commands  == {call \in ToolCall : call.tool \in {"run_command", "run_tests"}}

Results == {"ok", "error", "exit_0", "exit_1", "exit_5", "timed_out", "sandbox_error"}

\* ToolResult.ok
Ok(result) == result \in {"ok", "exit_0"}

\* Seeded with the task's files; over MCP a write of theirs may have failed too.
SandboxInit ==
    /\ transport \in Transports
    /\ \E seeded \in IF transport = "mcp" THEN BOOLEAN ELSE {TRUE} :
         workspace = [exists |-> TRUE, code |-> "wrong", tests |-> "none",
                      hidden |-> FALSE, canary |-> seeded]
    /\ queue = <<>>
    /\ reply = "none"
    /\ tested = "no"

\* Sandbox.execute is called: a command may never come back by itself.
Ask(call) ==
    /\ reply' = "none"
    /\ \E hangs \in BOOLEAN :
         /\ hangs => call \in Commands
         /\ queue' = Append(queue, [call |-> call, hangs |-> hangs, awaited |-> TRUE])

Current == Head(queue).call

\* The call at the head of the queue comes back.
Return(result) ==
    /\ queue' = Tail(queue)
    /\ reply' = IF Head(queue).awaited THEN result ELSE reply
    /\ UNCHANGED transport

ReadFile ==
    /\ Current.tool = "read_file"
    /\ LET found == workspace.exists /\ (Current.on = "canary" => workspace.canary)
       IN  Return(IF found THEN "ok" ELSE "error")
    /\ UNCHANGED <<workspace, tested>>

\* mkdir(parents=True): the workspace itself is made again if it is gone.
WriteFile ==
    /\ Current.tool = "write_file"
    /\ LET there == [workspace EXCEPT !.exists = TRUE]
       IN  \/ Current.on = "code" /\ \E c \in Code : workspace' = [there EXCEPT !.code = c]
           \/ /\ Current.on = "tests"
              /\ workspace' = [there EXCEPT !.tests = IF @ = "linked" THEN @ ELSE "written"]
           \/ /\ Current.on = "hidden"
              /\ workspace.tests # "linked"
              /\ workspace' = [there EXCEPT !.hidden = TRUE]
    /\ Return("ok")
    /\ UNCHANGED tested

\* A path that leads out of the workspace, by itself or through a link, is
\* refused: an answer, not an exception.
RefuseWrite ==
    /\ Current.tool = "write_file"
    /\ Current.on = "hidden" => workspace.tests = "linked"
    /\ Return("error")
    /\ UNCHANGED <<workspace, tested>>

\* A shell command may do anything to the files.
Shell == \E c \in Code, t \in Tests, k \in BOOLEAN :
            workspace' = [workspace EXCEPT !.code = c, !.tests = t, !.canary = @ /\ k]

Runnable == workspace.exists /\ ~Head(queue).hangs

RunShell ==
    /\ Current.on = "shell"
    /\ Runnable
    /\ Shell
    /\ \E result \in {"exit_0", "exit_1"} : Return(result)
    /\ UNCHANGED tested

\* echo pytest, pytest --version: it names pytest, and no test runs.
RunMention ==
    /\ Current.on = "mention"
    /\ Runnable
    /\ Return("exit_0")
    /\ tested' = IF tested = "no" THEN "named" ELSE tested
    /\ UNCHANGED workspace

\* The agent's own tests may be weak, or wrong.
OwnTestsResults == {"exit_0", "exit_1"}

\* With no tests, pytest exits with 5.
RunPytest ==
    /\ Current.on \in {"pytest", "suite"}
    /\ Runnable
    /\ \E result \in IF workspace.tests = "none" THEN {"exit_5"} ELSE OwnTestsResults :
         /\ Return(result)
         /\ tested' = IF result = "exit_0" THEN "passed" ELSE tested
    /\ UNCHANGED workspace

\* pytest is given the hidden tests' names.  Where they have not been written it
\* runs what the agent has there, whatever the code does; with nothing there it
\* fails.
HiddenResults ==
    CASE workspace.hidden -> {IF workspace.code = "right" THEN "exit_0" ELSE "exit_1"}
      [] ~workspace.hidden /\ workspace.tests # "none" -> OwnTestsResults
      [] OTHER -> {"exit_1"}

RunHidden ==
    /\ Current.tool = "run_command"
    /\ Current.on = "hidden"
    /\ Runnable
    /\ \E result \in HiddenResults : Return(result)
    /\ UNCHANGED <<workspace, tested>>

\* Broken: only run_command has a wall clock.
TimeOutShell ==
    /\ Current.tool = "run_command"
    /\ workspace.exists
    /\ \/ Current.on = "shell" /\ Shell
       \/ Current.on # "shell" /\ UNCHANGED workspace
    /\ Return("timed_out")
    /\ UNCHANGED tested

\* The wall clock: the command's process group is killed, whatever it has done.
TimeOut ==
    /\ Current \in Commands
    /\ workspace.exists
    /\ \/ Current.on = "shell" /\ Shell
       \/ Current.on # "shell" /\ UNCHANGED workspace
    /\ Return("timed_out")
    /\ UNCHANGED tested

\* The call raises, or its transport fails: certainly if a command has no
\* workspace to run in.
Fail ==
    /\ Return("sandbox_error")
    /\ UNCHANGED <<workspace, tested>>

\* Over MCP the caller waits for so long; the call stays with the server.
GiveUp ==
    /\ transport = "mcp"
    /\ queue # <<>>
    /\ queue[Len(queue)].awaited
    /\ queue' = [queue EXCEPT ![Len(queue)].awaited = FALSE]
    /\ reply' = "sandbox_error"
    /\ UNCHANGED <<transport, workspace, tested>>

Execute ==
    /\ queue # <<>>
    /\ \/ ReadFile \/ WriteFile \/ RefuseWrite \/ RunShell \/ RunMention \/ RunPytest
       \/ RunHidden \/ TimeOut \/ (Current \in Commands /\ ~workspace.exists /\ Fail)

Unawaited == [i \in 1 .. Len(queue) |-> [queue[i] EXCEPT !.awaited = FALSE]]

\* cleanup: the workspace is removed, and over MCP the server with its calls;
\* a thread goes on.  later is what the thread has still to do.
Cleanup(later) ==
    /\ workspace' = [workspace EXCEPT !.exists = FALSE]
    /\ queue' = IF transport = "mcp" THEN <<>> ELSE Unawaited \o later
    /\ reply' = "none"
    /\ UNCHANGED <<transport, tested>>
=============================================================================
