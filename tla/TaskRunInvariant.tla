-------------------------- MODULE TaskRunInvariant --------------------------
(***************************************************************************)
(* The inductive invariant behind TaskRun's safety properties.             *)
(*                                                                         *)
(* At most the last call in the sandbox's queue is waited for, and it is   *)
(* the one the run last asked: so a result that comes back, and is not the *)
(* failure of a call given up on, is that call's own, and leaves nothing   *)
(* behind it in the queue that could change the files again.               *)
(***************************************************************************)
EXTENDS TaskRun

Queued       == [call : ToolCall, hangs : BOOLEAN, awaited : BOOLEAN]
Roles        == {"system", "user", "assistant"}
StepResults  == {"provider_error", "malformed", "escalate", "refused", "finish", "observed"}
Terminations == {"none", "provider_error", "malformed_limit", "escalated", "finished",
                 "max_iterations"}
RunnerSteps  == {"agent", "canaries", "seed", "hidden"}

\* The type invariant of the run and of what it runs on.
TaskShapes ==
    /\ transport \in {"in_process", "mcp"}
    /\ workspace \in Workspace
    /\ queue \in Seq(Queued)
    /\ reply \in Results \union {"none"}
    /\ tested \in {"no", "named", "passed"}
    /\ loop \in [pc : {"think", "call", "over"}, malformed : Nat, verified : BOOLEAN,
                 call : ToolCall \union {NoCall}, termination : Terminations]
    /\ steps \in Seq(StepResults)
    /\ messages \in Seq(Roles)
    /\ kind \in {"task", "resolve", "escalate"}
    /\ runner \in [pc : RunnerSteps \union Over, files : Code \union {"unread"},
                   canaries_intact : BOOLEAN, hidden : Results \union {"none"}]

-----------------------------------------------------------------------------
(* The queue and the reply.                                                *)

\* Someone waits for a call: the agent for its tool's, or the runner.
Awaiting ==
    \/ runner.pc = "agent" /\ loop.pc = "call"
    \/ runner.pc \in {"canaries", "seed", "hidden"}

Outstanding == Awaiting /\ reply = "none"

\* The call that is waited for.
Asked ==
    CASE runner.pc = "canaries" -> Call("read_file", "canary")
      [] runner.pc = "seed"     -> Call("write_file", "hidden")
      [] runner.pc = "hidden"   -> Call("run_command", "hidden")
      [] OTHER -> loop.call

LastIsAsked ==
    Outstanding =>
        /\ queue # <<>>
        /\ queue[Len(queue)].awaited
        /\ queue[Len(queue)].call = Asked

OthersAreUnawaited ==
    \A i \in 1 .. Len(queue) : queue[i].awaited => Outstanding /\ i = Len(queue)

RepliesAreAwaited == reply # "none" => Awaiting

\* Only the failure of a call can come back before the call does.
RepliesAreLast == reply \notin {"none", "sandbox_error"} => queue = <<>>

QueueSound == LastIsAsked /\ OthersAreUnawaited /\ RepliesAreAwaited /\ RepliesAreLast

-----------------------------------------------------------------------------
(* What replies tell, and what the run made of them.                       *)

\* What a good result of the hidden tests tells.
HiddenTestsTell == workspace.code = "right" \/ OwnTestsWereRun

\* In process a call is waited for until it comes back, and so the write of the
\* hidden tests either has raised, or has written them, or was refused.
Written == workspace.hidden \/ workspace.tests = "linked"

AllAreAwaited == \A i \in 1 .. Len(queue) : queue[i].awaited

SeedingSound ==
    transport = "in_process" =>
        /\ runner.pc \in RunnerSteps => AllAreAwaited
        /\ runner.pc = "seed" /\ reply \notin {"none", "sandbox_error"} => Written
        /\ runner.pc = "hidden" => Written

\* A good reply is true of the workspace it is read in.
RepliesTell ==
    /\ runner.pc = "hidden" /\ Ok(reply) => HiddenTestsTell
    /\ runner.pc = "canaries" /\ Ok(reply) => workspace.canary
    /\ runner.pc = "agent" /\ loop.pc = "call" /\ CountsAsVerification(loop.call, reply) =>
         tested # "no"

VerdictsTell ==
    /\ runner.pc \in {"agent", "canaries"} => ~runner.canaries_intact
    /\ runner.pc \in {"seed", "hidden"} => kind # "escalate"
    /\ runner.pc \in RunnerSteps => runner.hidden = "none"
    /\ runner.pc = "done" /\ Ok(runner.hidden) => HiddenTestsTell /\ queue = <<>>
    /\ runner.pc = "done" /\ kind = "escalate" /\ runner.canaries_intact =>
         workspace.canary /\ queue = <<>>

-----------------------------------------------------------------------------
(* The loop.                                                               *)

Verified ==
    /\ loop.verified => tested # "no"
    /\ RequireVerified /\ loop.termination = "finished" => loop.verified

Ended ==
    /\ loop.pc = "over" <=> loop.termination # "none"
    /\ loop.pc = "call" => loop.call \in ToolCall

MalformedRun(i) == \A j \in (i - MaxMalformed + 1) .. i : steps[j] = "malformed"

\* malformed counts the unparseable answers at the end of the steps: while the
\* model is asked it counts them all, and while a tool runs it is 0.
CountIsExact ==
    /\ loop.pc = "call" => loop.malformed = 0
    /\ loop.pc = "think" =>
         /\ loop.malformed <= Len(steps)
         /\ \A j \in (Len(steps) - loop.malformed + 1) .. Len(steps) : steps[j] = "malformed"
         /\ loop.malformed < Len(steps) => steps[Len(steps) - loop.malformed] # "malformed"

LimitIsMet ==
    /\ loop.pc # "over" => loop.malformed < MaxMalformed
    /\ loop.termination = "malformed_limit" =>
         Len(steps) >= MaxMalformed /\ MalformedRun(Len(steps))
    /\ loop.termination # "malformed_limit" =>
         \A i \in MaxMalformed .. Len(steps) : ~MalformedRun(i)

\* Who spoke last.
TurnsAlternate ==
    /\ Len(messages) >= 2
    /\ loop.pc = "think" => messages[Len(messages)] = "user"
    /\ loop.pc = "call" => messages[Len(messages)] = "assistant"
    /\ \A i \in 2 .. Len(messages) - 1 : messages[i] # messages[i + 1]

LoopSound == Verified /\ Ended /\ CountIsExact /\ LimitIsMet /\ TurnsAlternate

-----------------------------------------------------------------------------
\* The inductive invariant: the queue holds at most one awaited call, its
\* last (sandbox/subprocess_sandbox.py, mcp/sandbox_client.py), what comes back is
\* true of the workspace, and the loop's counters agree with its record.
TaskRunInv ==
    /\ TaskShapes
    /\ QueueSound
    /\ SeedingSound
    /\ RepliesTell
    /\ VerdictsTell
    /\ LoopSound

=============================================================================
