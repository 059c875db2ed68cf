----------------------------- MODULE AgentLoop -----------------------------
(***************************************************************************)
(* Agent.run (backend/app/agent/loop.py): the model is asked, its answer   *)
(* is parsed, and it is refused, acted on, or the end.                     *)
(***************************************************************************)
EXTENDS Sandbox

CONSTANTS
    MaxIterations,
    MaxMalformed,      \* max_consecutive_malformed
    RequireVerified    \* require_verified_finish

ASSUME IterationsAssumption == MaxIterations \in Nat /\ MaxMalformed \in Nat \ {0}
ASSUME VerifiedAssumption   == RequireVerified \in BOOLEAN

VARIABLES
    loop,       \* the locals of run
    steps,      \* the steps recorded: what each was, a tool's result left out
    messages    \* the roles of the conversation

loopVars == <<loop, steps, messages>>

NoCall == [tool |-> "none", on |-> "none"]

\* _initial_messages.
LoopInit ==
    /\ loop = [pc |-> "think", malformed |-> 0, verified |-> FALSE,
               call |-> NoCall, termination |-> "none"]
    /\ steps = <<>>
    /\ messages = <<"system", "user">>

Record(result) == steps' = Append(steps, result)
Say(roles)     == messages' = messages \o roles
End(l, reason) == [l EXCEPT !.pc = "over", !.termination = reason]

\* Broken: only a finish or an escalation starts the count again.
ParsedKept(l, call) ==
    [l EXCEPT !.call = call, !.malformed = IF call = NoCall THEN 0 ELSE @]

\* An answer that parses starts the count of those that do not again.
Parsed(l, call) == [l EXCEPT !.call = call, !.malformed = 0]

\* The model is asked, as long as there are iterations: one step is recorded
\* for each.
Thinking == loop.pc = "think" /\ Len(steps) < MaxIterations

ProviderFails ==
    /\ Thinking
    /\ Record("provider_error")
    /\ loop' = End(loop, "provider_error")
    /\ UNCHANGED <<messages, sandboxVars>>

Malformed ==
    /\ Thinking
    /\ Record("malformed")
    /\ Say(<<"assistant", "user">>)
    /\ LET counted == [loop EXCEPT !.malformed = @ + 1]
       IN  loop' = IF counted.malformed >= MaxMalformed THEN End(counted, "malformed_limit")
                   ELSE counted
    /\ UNCHANGED sandboxVars

Escalate ==
    /\ Thinking
    /\ Record("escalate")
    /\ Say(<<"assistant">>)
    /\ loop' = End(Parsed(loop, NoCall), "escalated")
    /\ UNCHANGED sandboxVars

\* Broken: the refusal is recorded, and the model is not told.
RefuseFinishUnsaid ==
    /\ Thinking
    /\ RequireVerified /\ ~loop.verified
    /\ Record("refused")
    /\ Say(<<"assistant">>)
    /\ loop' = Parsed(loop, NoCall)
    /\ UNCHANGED sandboxVars

RefuseFinish ==
    /\ Thinking
    /\ RequireVerified /\ ~loop.verified
    /\ Record("refused")
    /\ Say(<<"assistant", "user">>)
    /\ loop' = Parsed(loop, NoCall)
    /\ UNCHANGED sandboxVars

Finish ==
    /\ Thinking
    /\ RequireVerified => loop.verified
    /\ Record("finish")
    /\ Say(<<"assistant">>)
    /\ loop' = End(Parsed(loop, NoCall), "finished")
    /\ UNCHANGED sandboxVars

CallTool(call) ==
    /\ Thinking
    /\ Say(<<"assistant">>)
    /\ loop' = [Parsed(loop, call) EXCEPT !.pc = "call"]
    /\ Ask(call)
    /\ UNCHANGED <<steps, transport, workspace, tested>>

\* Broken: "no tests ran" counts as well.
CountsAsVerificationEmpty(call, result) ==
    /\ result \in {"exit_0", "exit_5"}
    /\ \/ call.tool = "run_tests"
       \/ call.on \in {"pytest", "mention"}

CountsAsVerification(call, result) ==
    /\ result = "exit_0"
    /\ \/ call.tool = "run_tests"
       \/ call.on \in {"pytest", "mention"}

\* The result comes back, or the error the sandbox raised.
Observe ==
    /\ loop.pc = "call"
    /\ reply # "none"
    /\ Record("observed")
    /\ Say(<<"user">>)
    /\ loop' = [loop EXCEPT !.pc = "think", !.call = NoCall,
                            !.verified = @ \/ CountsAsVerification(loop.call, reply)]
    /\ reply' = "none"
    /\ UNCHANGED <<transport, workspace, queue, tested>>

Exhausted ==
    /\ loop.pc = "think"
    /\ Len(steps) = MaxIterations
    /\ loop' = End(loop, "max_iterations")
    /\ UNCHANGED <<steps, messages, sandboxVars>>

AgentStep ==
    \/ ProviderFails \/ Malformed \/ Escalate \/ RefuseFinish \/ Finish
    \/ \E call \in AgentCall : CallTool(call)
    \/ Observe \/ Exhausted
=============================================================================
