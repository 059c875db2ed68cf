------------------------------- MODULE Replay -------------------------------
(***************************************************************************)
(* One task recorded from a real provider and then replayed                *)
(* (backend/bench/replay.py), each run classified as execute_task does     *)
(* (backend/bench/executor.py).  Between the two the code may have changed *)
(* the prompt, the sampling or the number of iterations, and a tool call   *)
(* may end differently.  Only the first line of an observation is kept.    *)
(***************************************************************************)
EXTENDS Naturals, Sequences, FiniteSets

CONSTANTS
    Prompt, Sampling, Iterations,   \* what a configuration may ask for
    MaxMalformed,                   \* max_consecutive_malformed
    MaxAttempts                     \* RecordingProvider's max_attempts

ASSUME LimitAssumption ==
    /\ Iterations \subseteq Nat \ {0}
    /\ {MaxMalformed, MaxAttempts} \subseteq Nat \ {0}

VARIABLES
    task,       \* the task's kind and what is expected of it
    configs,    \* what the agent is configured with, when recorded and when replayed
    doing,      \* "record", "replay" or "over"
    run,        \* Agent.run's locals, of the run in progress
    attempt,    \* RecordingProvider.complete's loop
    recording,
    replayer,   \* ReplayProvider's _cursor and divergence
    executed    \* the runs that are over, classified

vars == <<task, configs, doing, run, attempt, recording, replayer, executed>>

Config == [prompt : Prompt, sampling : Sampling, iterations : Iterations]

Task == {[kind |-> "benchmark", expected |-> "solve"], [kind |-> "benchmark", expected |-> "fail"],
         [kind |-> "ticket", expected |-> "solve"], [kind |-> "ticket", expected |-> "escalate"]}

-----------------------------------------------------------------------------
(* A turn of the agent's loop.                                             *)

Answer == {"malformed", "escalate", "finish", "tests", "edit"}

ResultsOf(answer) ==
    CASE answer = "tests" -> {"exit_0", "exit_1", "timed_out", "sandbox_error"}
      [] answer = "edit"  -> {"ok", "error", "sandbox_error"}
      [] OTHER            -> {"none"}

\* format_observation's first line does not tell a sandbox's error from a tool's.
HeadOf(result) == IF result = "sandbox_error" THEN "error" ELSE result

FreshRun == [steps |-> <<>>, head |-> "", verified |-> FALSE, malformed |-> 0,
             termination |-> "none"]

Step(r, answer, result) ==
    [r EXCEPT !.steps = Append(@, [answer |-> answer, result |-> result]),
              !.head = HeadOf(result)]

Ended(r, reason) == [r EXCEPT !.termination = reason]

Parsed(r) == [r EXCEPT !.malformed = 0]

Unparsed(r) ==
    LET counted == [Step(r, "malformed", "unparsed") EXCEPT !.malformed = @ + 1]
    IN  IF counted.malformed >= MaxMalformed THEN Ended(counted, "malformed_limit") ELSE counted

Finished(r) ==
    IF r.verified THEN Ended(Step(Parsed(r), "finish", "finished"), "finished")
    ELSE Step(Parsed(r), "finish", "refused")

Observed(r, answer, result) ==
    [Step(Parsed(r), answer, result) EXCEPT
        !.verified = @ \/ (answer = "tests" /\ result = "exit_0")]

Turn(r, answer, result) ==
    CASE answer = "malformed" -> Unparsed(r)
      [] answer = "escalate"  -> Ended(Step(Parsed(r), answer, "escalated"), "escalated")
      [] answer = "finish"    -> Finished(r)
      [] OTHER                -> Observed(r, answer, result)

\* The provider raised: a recorded outcome, which no answer has.
Failed(r) == Ended(Step(r, "none", "provider_error"), "provider_error")

Configured == configs[doing]

Asking ==
    /\ doing # "over"
    /\ run.termination = "none" /\ Len(run.steps) < Configured.iterations

Exhausted ==
    /\ doing # "over"
    /\ run.termination = "none" /\ Len(run.steps) = Configured.iterations
    /\ run' = Ended(run, "max_iterations")
    /\ UNCHANGED <<task, configs, doing, attempt, recording, replayer, executed>>

-----------------------------------------------------------------------------
(* Recording.                                                              *)

NoError == [head |-> "none"]

Exception == {"rate_limit", "daily_cap", "connection", "refused"}

\* retry_delay: None when retrying cannot help.
Retryable(exc) == exc \in {"rate_limit", "connection"}

RecordAnswer(answer, result) ==
    /\ doing = "record" /\ Asking
    /\ recording' = [recording EXCEPT !.calls = Append(@,
           [prefix   |-> IF @ = <<>> THEN configs.record.prompt ELSE "unchecked",
            head     |-> run.head,
            sampling |-> configs.record.sampling,
            content  |-> answer])]
    /\ run' = Turn(run, answer, result)
    /\ attempt' = 1
    /\ UNCHANGED <<task, configs, doing, replayer, executed>>

RecordFails(exc) ==
    /\ doing = "record" /\ Asking
    /\ \/ /\ Retryable(exc) /\ attempt < MaxAttempts
          /\ attempt' = attempt + 1
          /\ UNCHANGED <<run, recording>>
       \/ /\ ~Retryable(exc) \/ attempt = MaxAttempts
          /\ recording' = [recording EXCEPT !.error = [head |-> run.head]]
          /\ run' = Failed(run)
          /\ attempt' = 1
    /\ UNCHANGED <<task, configs, doing, replayer, executed>>

-----------------------------------------------------------------------------
(* Replaying.                                                              *)

\* The recorded failure is next.
AtTheError == replayer.cursor = Len(recording.calls) /\ recording.error # NoError

\* _expect refuses the request.
Strays ==
    IF AtTheError THEN run.head # recording.error.head
    ELSE replayer.cursor < Len(recording.calls) =>
            LET call == recording.calls[replayer.cursor + 1]
            IN  \/ call.sampling # configs.replay.sampling
                \/ call.prefix \notin {"unchecked", configs.replay.prompt}
                \/ call.head # run.head

Diverge ==
    /\ doing = "replay" /\ Asking /\ Strays
    /\ replayer' = [replayer EXCEPT !.divergence = "strayed"]
    /\ run' = Failed(run)
    /\ UNCHANGED <<task, configs, doing, attempt, recording, executed>>

\* Broken: the failure is raised, and not counted as served.
ReplayErrorUncounted ==
    /\ doing = "replay" /\ Asking /\ ~Strays /\ AtTheError
    /\ run' = Failed(run)
    /\ UNCHANGED <<task, configs, doing, attempt, recording, replayer, executed>>

ReplayError ==
    /\ doing = "replay" /\ Asking /\ ~Strays /\ AtTheError
    /\ replayer' = [replayer EXCEPT !.cursor = @ + 1]
    /\ run' = Failed(run)
    /\ UNCHANGED <<task, configs, doing, attempt, recording, executed>>

ReplayAnswer(result) ==
    /\ doing = "replay" /\ Asking /\ ~Strays /\ ~AtTheError
    /\ LET call == recording.calls[replayer.cursor + 1]
       IN  /\ result \in ResultsOf(call.content)
           /\ run' = Turn(run, call.content, result)
    /\ replayer' = [replayer EXCEPT !.cursor = @ + 1]
    /\ UNCHANGED <<task, configs, doing, attempt, recording, executed>>

\* Broken: a failure the recording ends with may be left unserved.
TotalOfAnswers == Len(recording.calls)

Total == Len(recording.calls) + (IF recording.error # NoError THEN 1 ELSE 0)

\* check_consumed.
Consumed ==
    IF replayer.divergence = "none" /\ replayer.cursor < Total
    THEN [replayer EXCEPT !.divergence = "stopped early"]
    ELSE replayer

\* Broken: the failure counts as an answer.
AnsweredAtError == replayer.cursor

\* How many calls ReplayProvider.answered holds.
Answered ==
    IF replayer.cursor < Len(recording.calls) THEN replayer.cursor ELSE Len(recording.calls)

-----------------------------------------------------------------------------
(* execute_task.  The workspace is not recorded, so how the hidden tests   *)
(* end, and whether the canary survived, is open in both runs.             *)

Hidden == {"pass", "fail", "timed_out"}

Saw(r, result) == \E i \in 1 .. Len(r.steps) : r.steps[i].result = result

ClassifyFailure(r, hidden) ==
    CASE r.termination = "provider_error"  -> "provider_error"
      [] r.termination = "malformed_limit" -> "malformed_tool_call"
      [] r.termination \notin {"provider_error", "malformed_limit"} ->
            CASE hidden = "timed_out" \/ Saw(r, "timed_out") -> "timed_out"
              [] hidden # "timed_out" /\ ~Saw(r, "timed_out") /\ Saw(r, "sandbox_error") ->
                    "sandbox_error"
              [] OTHER -> IF r.termination = "max_iterations" THEN "exhausted_iterations"
                          ELSE "wrong_solution"

BenchmarkOutcome(r, hidden) ==
    CASE hidden = "pass" -> <<"solved", "none">>
      [] hidden # "pass" /\ r.termination = "escalated" -> <<"escalated", "none">>
      [] OTHER -> <<"failed", ClassifyFailure(r, hidden)>>

UnresolvedMode(r) ==
    CASE r.termination = "provider_error"  -> "provider_error"
      [] r.termination = "malformed_limit" -> "malformed_tool_call"
      [] OTHER -> IF Saw(r, "sandbox_error") THEN "sandbox_error" ELSE "exhausted_iterations"

\* _classify and ticket_outcome; a ticket to escalate has no hidden tests.
TicketOutcome(r, hidden) ==
    CASE r.termination = "escalated" -> <<"escalated", "none">>
      [] r.termination = "finished" ->
            IF task.expected = "solve" /\ hidden = "pass" THEN <<"solved", "none">>
            ELSE <<"failed", "false_fix">>
      [] OTHER -> <<"failed", UnresolvedMode(r)>>

TicketCorrect(outcome, intact) ==
    IF task.expected = "solve" THEN outcome = "solved" ELSE outcome = "escalated" /\ intact

FailureKind(mode) ==
    CASE mode = "none" -> "none"
      [] mode = "replay_divergence" -> "harness"
      [] mode \in {"provider_error", "sandbox_error"} -> "infra"
      [] OTHER -> "task"

Matched(outcome, kind, correct) ==
    CASE task.expected = "solve"    -> outcome = "solved" /\ correct
      [] task.expected = "escalate" -> outcome = "escalated" /\ correct
      [] task.expected = "fail"     -> outcome = "failed" /\ kind = "task"

LlmCalls(r) == Cardinality({i \in 1 .. Len(r.steps) : r.steps[i].answer # "none"})

\* Broken: what the run came to stands, whatever the recording said.
ExecutionUnjudged(r, hidden, intact, divergence, answered) ==
    LET ran     == IF task.kind = "benchmark" THEN BenchmarkOutcome(r, hidden)
                   ELSE TicketOutcome(r, hidden)
        correct == task.kind = "benchmark" \/ TicketCorrect(ran[1], intact)
        kind    == FailureKind(ran[2])
    IN  [run |-> r, divergence |-> divergence, answered |-> answered,
         outcome |-> ran[1], mode |-> ran[2],
         matched |-> Matched(ran[1], kind, correct)]

Execution(r, hidden, intact, divergence, answered) ==
    LET ran     == IF task.kind = "benchmark" THEN BenchmarkOutcome(r, hidden)
                   ELSE TicketOutcome(r, hidden)
        correct == task.kind = "benchmark" \/ TicketCorrect(ran[1], intact)
        judged  == IF divergence = "none" THEN ran ELSE <<"failed", "replay_divergence">>
        kind    == FailureKind(judged[2])
    IN  [run |-> r, divergence |-> divergence, answered |-> answered,
         outcome |-> judged[1], mode |-> judged[2],
         matched |-> Matched(judged[1], kind, correct)]

EndRecording(hidden, intact) ==
    /\ doing = "record" /\ run.termination # "none"
    /\ executed' = <<Execution(run, hidden, intact, "none", Len(recording.calls))>>
    /\ doing' = "replay"
    /\ run' = FreshRun
    /\ UNCHANGED <<task, configs, attempt, recording, replayer>>

EndReplay(hidden, intact) ==
    /\ doing = "replay" /\ run.termination # "none"
    /\ replayer' = Consumed
    /\ executed' = Append(executed, Execution(run, hidden, intact, Consumed.divergence, Answered))
    /\ doing' = "over"
    /\ UNCHANGED <<task, configs, run, attempt, recording>>

-----------------------------------------------------------------------------
Init ==
    /\ task \in Task
    /\ configs \in [record : Config, replay : Config]
    /\ doing = "record"
    /\ run = FreshRun
    /\ attempt = 1
    /\ recording = [calls |-> <<>>, error |-> NoError]
    /\ replayer = [cursor |-> 0, divergence |-> "none"]
    /\ executed = <<>>

Next ==
    \/ \E answer \in Answer : \E result \in ResultsOf(answer) : RecordAnswer(answer, result)
    \/ \E exc \in Exception : RecordFails(exc)
    \/ Exhausted
    \/ Diverge \/ ReplayError
    \/ \E result \in UNION {ResultsOf(a) : a \in Answer} : ReplayAnswer(result)
    \/ \E hidden \in Hidden, intact \in BOOLEAN :
         EndRecording(hidden, intact) \/ EndReplay(hidden, intact)

Spec == Init /\ [][Next]_vars

-----------------------------------------------------------------------------
Recorded == executed[1]
Replayed == executed[2]

Answers(r) == [i \in 1 .. Len(r.steps) |-> r.steps[i].answer]

\* A replay that reports no divergence ends as its recording did, for the same
\* reason and after the same answers, whatever was changed in between
\* (replay.py, _expect and check_consumed).
UndivergedReplaysEndAlike ==
    (doing = "over" /\ Replayed.divergence = "none") =>
        /\ Answers(Replayed.run) = Answers(Recorded.run)
        /\ Replayed.run.termination = Recorded.run.termination

\* Any recording can be replayed, one that ends in a provider's failure too:
\* with the same configuration and the same tool results nothing diverges.
FaithfulReplaysNeverDiverge ==
    (doing = "over" /\ configs.record = configs.replay) =>
        \/ Replayed.divergence = "none"
        \/ \E i \in 1 .. Len(Replayed.run.steps) :
             /\ Replayed.run.steps[i].answer # "none"
             /\ i \leq Len(Recorded.run.steps) => Replayed.run.steps[i] # Recorded.run.steps[i]

\* A job matches its expectation only by what the agent did: never when its
\* replay strayed or stopped short, and never as an expected failure when it
\* was the provider that failed (executor.py, execute_task, _matched).
MatchesAreTheAgents ==
    \A i \in 1 .. Len(executed) : executed[i].matched =>
        /\ executed[i].divergence = "none"
        /\ task.expected = "fail" => executed[i].run.termination # "provider_error"

\* The answers a run's steps count (executor.py, _llm_calls) are the calls its
\* provider says it answered, up to and including a failure or a divergence.
CallsAreAnswers ==
    \A i \in 1 .. Len(executed) : LlmCalls(executed[i].run) = executed[i].answered
=============================================================================
