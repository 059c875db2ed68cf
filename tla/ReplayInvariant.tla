-------------------------- MODULE ReplayInvariant --------------------------
(***************************************************************************)
(* The inductive invariant behind Replay's safety properties.              *)
(*                                                                         *)
(* How a run ends can be read off its steps: the answers, and which tests  *)
(* had passed before a finish (RunSound).  A recording is what the         *)
(* recorded run was asked and answered, call by call (RecordSound), and a  *)
(* replay repeats the answers and, but for its last step, what was         *)
(* observed (ReplaySound): so it cannot end otherwise without diverging.   *)
(***************************************************************************)
EXTENDS Replay

-----------------------------------------------------------------------------
(* Runs.                                                                   *)

Result == {"exit_0", "exit_1", "timed_out", "sandbox_error", "ok", "error", "unparsed", "refused",
           "finished", "escalated", "provider_error"}

AStep == [answer : Answer \union {"none"}, result : Result]

Termination == {"none", "malformed_limit", "escalated", "finished", "provider_error",
                "max_iterations"}

Run == [steps : Seq(AStep), head : Result \union {""}, verified : BOOLEAN, malformed : Nat,
        termination : Termination]

\* What the request for step n shows of the one before, and whether the tests
\* had passed by then.
HeadBefore(steps, n) == IF n = 1 THEN "" ELSE HeadOf(steps[n - 1].result)

Passed(step) == step.answer = "tests" /\ step.result = "exit_0"

VerifiedBefore(steps, n) == \E j \in 1 .. n - 1 : Passed(steps[j])

\* The ways a step ends a run.
RaisedAt(steps, n)    == n > 0 /\ steps[n].answer = "none"
EscalatedAt(steps, n) == n > 0 /\ steps[n].answer = "escalate"
FinishedAt(steps, n)  == n > 0 /\ steps[n].answer = "finish" /\ VerifiedBefore(steps, n)
CutAt(steps, n)       == /\ n >= MaxMalformed
                         /\ \A j \in (n - MaxMalformed) + 1 .. n : steps[j].answer = "malformed"

EndsAt(steps, n) ==
    RaisedAt(steps, n) \/ EscalatedAt(steps, n) \/ FinishedAt(steps, n) \/ CutAt(steps, n)

\* The last m of n steps are malformed answers, and the one before is not.
Trailing(steps, n, m) ==
    /\ m <= n
    /\ \A j \in (n - m) + 1 .. n : steps[j].answer = "malformed"
    /\ m < n => steps[n - m].answer # "malformed"

EndSound(r) ==
    LET n == Len(r.steps)
    IN  /\ r.termination = "provider_error"  <=> RaisedAt(r.steps, n)
        /\ r.termination = "escalated"       <=> EscalatedAt(r.steps, n)
        /\ r.termination = "finished"        <=> FinishedAt(r.steps, n)
        /\ r.termination = "malformed_limit" <=> CutAt(r.steps, n)
        /\ \A i \in 1 .. n - 1 : ~EndsAt(r.steps, i)

RunSound(r, iterations) ==
    /\ r \in Run
    /\ r.head = HeadBefore(r.steps, Len(r.steps) + 1)
    /\ r.verified <=> VerifiedBefore(r.steps, Len(r.steps) + 1)
    /\ r.termination # "provider_error" => Trailing(r.steps, Len(r.steps), r.malformed)
    /\ EndSound(r)
    /\ Len(r.steps) <= iterations
    /\ r.termination = "max_iterations" => Len(r.steps) = iterations

-----------------------------------------------------------------------------
(* The recording.                                                          *)

Call == [prefix : Prompt \union {"unchecked"}, head : Result \union {""}, sampling : Sampling,
         content : Answer]

\* Call i is step i of r.
CallSound(call, r, i) ==
    /\ call.content = r.steps[i].answer
    /\ call.head = HeadBefore(r.steps, i)
    /\ call.sampling = configs.record.sampling
    /\ call.prefix = IF i = 1 THEN configs.record.prompt ELSE "unchecked"

RecordSound(r) ==
    /\ RunSound(r, configs.record.iterations)
    /\ recording = [calls |-> recording.calls, error |-> recording.error]
    /\ recording.calls \in Seq(Call)
    /\ \A i \in 1 .. Len(recording.calls) : CallSound(recording.calls[i], r, i)
    /\ Len(r.steps) = Total
    /\ r.termination = "provider_error" <=> recording.error # NoError
    /\ recording.error # NoError =>
         recording.error = [head |-> HeadBefore(r.steps, Len(recording.calls) + 1)]

-----------------------------------------------------------------------------
(* The replay.                                                             *)

\* Some answer, or what came of it, was not as recorded.
Differs(r, source) ==
    \E i \in 1 .. Len(r.steps) :
        /\ r.steps[i].answer # "none"
        /\ i \leq Len(source.steps) => r.steps[i] # source.steps[i]

ReplaySound(r, source) ==
    LET served == replayer.cursor
    IN  /\ RunSound(r, configs.replay.iterations)
        /\ source.termination # "none"
        /\ replayer = [cursor |-> served, divergence |-> replayer.divergence]
        /\ served \in 0 .. Total
        /\ replayer.divergence \in {"none", "strayed"}
        /\ \A i \in 1 .. served : r.steps[i].answer = source.steps[i].answer
        /\ \A i \in 1 .. served - 1 : HeadOf(r.steps[i].result) = HeadOf(source.steps[i].result)
        /\ replayer.divergence = "none" => Len(r.steps) = served
        /\ replayer.divergence = "strayed" =>
             /\ Len(r.steps) = served + 1 /\ r.termination = "provider_error"
             /\ served <= Len(recording.calls)
             /\ configs.record = configs.replay => Differs(r, source)

-----------------------------------------------------------------------------
\* What is executed is classified once and stays so.
VerdictsSound ==
    /\ UndivergedReplaysEndAlike
    /\ FaithfulReplaysNeverDiverge
    /\ MatchesAreTheAgents
    /\ CallsAreAnswers

\* The inductive invariant (bench/replay.py, executor.py): the recording is the
\* recorded run's, the replay repeats it, and what was classified stands.
ReplayInv ==
    /\ task \in Task /\ configs \in [record : Config, replay : Config]
    /\ doing \in {"record", "replay", "over"}
    /\ doing = "record" => /\ RecordSound(run)
                           /\ replayer = [cursor |-> 0, divergence |-> "none"]
                           /\ executed = <<>>
    /\ doing = "replay" => /\ RecordSound(executed[1].run)
                           /\ ReplaySound(run, executed[1].run)
                           /\ executed = <<executed[1]>>
    /\ VerdictsSound

=============================================================================
