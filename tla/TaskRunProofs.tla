---------------------------- MODULE TaskRunProofs ----------------------------
(***************************************************************************)
(* Proofs that TaskRunInv is inductive, for any transports, kinds and      *)
(* limits, and what follows from it: verdicts that are true of the files,  *)
(* finishes that were verified, and a loop whose counters and conversation *)
(* are what its record says.                                               *)
(***************************************************************************)
EXTENDS TaskRunInvariant, TLAPS

-----------------------------------------------------------------------------
(* Sequences.                                                              *)

LEMMA Appended ==
    ASSUME NEW S, NEW s \in Seq(S), NEW e \in S
    PROVE  /\ Append(s, e) \in Seq(S)
           /\ Len(Append(s, e)) = Len(s) + 1
           /\ \A i \in 1 .. Len(s) : Append(s, e)[i] = s[i]
           /\ Append(s, e)[Len(s) + 1] = e
  OBVIOUS

LEMMA OneMore ==
    ASSUME NEW S, NEW s \in Seq(S), NEW a \in S
    PROVE  /\ s \o <<a>> \in Seq(S)
           /\ Len(s \o <<a>>) = Len(s) + 1
           /\ \A i \in 1 .. Len(s) : (s \o <<a>>)[i] = s[i]
           /\ (s \o <<a>>)[Len(s) + 1] = a
  OBVIOUS

LEMMA TwoMore ==
    ASSUME NEW S, NEW s \in Seq(S), NEW a \in S, NEW b \in S
    PROVE  /\ s \o <<a, b>> \in Seq(S)
           /\ Len(s \o <<a, b>>) = Len(s) + 2
           /\ \A i \in 1 .. Len(s) : (s \o <<a, b>>)[i] = s[i]
           /\ (s \o <<a, b>>)[Len(s) + 1] = a
           /\ (s \o <<a, b>>)[Len(s) + 2] = b
  OBVIOUS

LEMMA Rest ==
    ASSUME NEW S, NEW s \in Seq(S), s # <<>>
    PROVE  /\ Tail(s) \in Seq(S) /\ Head(s) \in S /\ Head(s) = s[1]
           /\ Len(s) \in Nat \ {0} /\ Len(Tail(s)) = Len(s) - 1
           /\ \A i \in 1 .. Len(s) - 1 : Tail(s)[i] = s[i + 1]
  OBVIOUS

LEMMA Joined ==
    ASSUME NEW S, NEW s \in Seq(S), NEW t \in Seq(S)
    PROVE  /\ s \o t \in Seq(S)
           /\ Len(s \o t) = Len(s) + Len(t)
           /\ \A i \in 1 .. Len(s) : (s \o t)[i] = s[i]
           /\ \A i \in 1 .. Len(t) : (s \o t)[Len(s) + i] = t[i]
  OBVIOUS

LEMMA Nothing ==
    ASSUME NEW S, NEW s \in Seq(S)
    PROVE  s = <<>> <=> Len(s) = 0
  OBVIOUS

-----------------------------------------------------------------------------
(* The loop's record.                                                      *)

\* The model speaks, and the answer ends the loop or calls a tool.
LEMMA AnswerAlternates ==
    ASSUME TaskShapes, TurnsAlternate, loop.pc = "think", loop'.pc # "think",
           Say(<<"assistant">>)
    PROVE  TurnsAlternate' /\ messages' \in Seq(Roles)
  <1>1. /\ messages' \in Seq(Roles) /\ Len(messages) \in Nat /\ Len(messages') = Len(messages) + 1
        /\ \A i \in 1 .. Len(messages) : messages'[i] = messages[i]
        /\ messages'[Len(messages) + 1] = "assistant"
    BY OneMore DEF TaskShapes, Say, Roles
  <1> QED
    BY <1>1, SMTT(30) DEF TurnsAlternate

\* The model speaks, and is answered at once.
LEMMA ExchangeAlternates ==
    ASSUME TaskShapes, TurnsAlternate, loop.pc = "think", loop'.pc # "call",
           Say(<<"assistant", "user">>)
    PROVE  TurnsAlternate' /\ messages' \in Seq(Roles)
  <1>1. /\ messages' \in Seq(Roles) /\ Len(messages) \in Nat /\ Len(messages') = Len(messages) + 2
        /\ \A i \in 1 .. Len(messages) : messages'[i] = messages[i]
        /\ messages'[Len(messages) + 1] = "assistant" /\ messages'[Len(messages) + 2] = "user"
    BY TwoMore DEF TaskShapes, Say, Roles
  <1> QED
    BY <1>1 DEF TurnsAlternate

\* The tool's result is the model's observation.
LEMMA ObservationAlternates ==
    ASSUME TaskShapes, TurnsAlternate, loop.pc = "call", loop'.pc = "think", Say(<<"user">>)
    PROVE  TurnsAlternate' /\ messages' \in Seq(Roles)
  <1>1. /\ messages' \in Seq(Roles) /\ Len(messages) \in Nat /\ Len(messages') = Len(messages) + 1
        /\ \A i \in 1 .. Len(messages) : messages'[i] = messages[i]
        /\ messages'[Len(messages) + 1] = "user"
    BY OneMore DEF TaskShapes, Say, Roles
  <1> QED
    BY <1>1 DEF TurnsAlternate

\* A recorded step leaves the runs of malformed answers before it alone.
LEMMA RunsKept ==
    ASSUME TaskShapes, NEW e \in StepResults, Record(e),
           NEW i \in MaxMalformed .. Len(steps)
    PROVE  MalformedRun(i)' <=> MalformedRun(i)
  <1>1. /\ \A j \in 1 .. Len(steps) : steps'[j] = steps[j]
        /\ Len(steps) \in Nat
    BY Appended DEF TaskShapes, Record
  <1>2. \A j \in (i - MaxMalformed + 1) .. i : j \in 1 .. Len(steps)
    BY <1>1, IterationsAssumption
  <1> QED
    BY <1>1, <1>2 DEF MalformedRun

\* A step that is not malformed ends every run of those that are.
LEMMA OtherStep ==
    ASSUME TaskShapes, LimitIsMet, loop.termination = "none",
           NEW e \in StepResults, e # "malformed", Record(e),
           loop'.termination # "malformed_limit",
           loop'.pc # "over" => loop'.malformed = 0
    PROVE  LimitIsMet' /\ CountIsExact' /\ steps' \in Seq(StepResults)
  <1>1. /\ steps' \in Seq(StepResults) /\ Len(steps) \in Nat /\ Len(steps') = Len(steps) + 1
        /\ steps'[Len(steps) + 1] = e
    BY Appended DEF TaskShapes, Record
  <1>2. ASSUME NEW i \in MaxMalformed .. Len(steps') PROVE ~MalformedRun(i)'
    <2>1. CASE i \in MaxMalformed .. Len(steps)
      BY <2>1, RunsKept DEF LimitIsMet
    <2>2. CASE i = Len(steps) + 1
      <3>1. i \in (i - MaxMalformed + 1) .. i
        BY <1>1, <2>2, IterationsAssumption
      <3> QED
        BY <1>1, <2>2, <3>1 DEF MalformedRun
    <2> QED
      BY <1>1, <2>1, <2>2, IterationsAssumption
  <1>3. LimitIsMet'
    BY <1>2, IterationsAssumption DEF LimitIsMet
  <1>4. CountIsExact'
    BY <1>1 DEF CountIsExact
  <1> QED
    BY <1>1, <1>3, <1>4

\* A malformed answer makes the last run longer by one: at the limit, a run of
\* MaxMalformed, and before it none.
LEMMA MalformedStep ==
    ASSUME TaskShapes, LimitIsMet, CountIsExact, loop.termination = "none", loop.pc = "think",
           Record("malformed"), loop'.malformed = loop.malformed + 1,
           loop.malformed + 1 >= MaxMalformed =>
               loop'.pc = "over" /\ loop'.termination = "malformed_limit",
           loop.malformed + 1 < MaxMalformed =>
               loop'.pc = "think" /\ loop'.termination = "none"
    PROVE  LimitIsMet' /\ CountIsExact' /\ steps' \in Seq(StepResults)
  <1> DEFINE m == loop.malformed
  <1>1. /\ steps' \in Seq(StepResults) /\ Len(steps) \in Nat /\ Len(steps') = Len(steps) + 1
        /\ \A j \in 1 .. Len(steps) : steps'[j] = steps[j]
        /\ steps'[Len(steps) + 1] = "malformed"
    BY Appended DEF TaskShapes, Record, StepResults
  <1>2. m \in Nat /\ m <= Len(steps) /\ m < MaxMalformed /\ MaxMalformed \in Nat \ {0}
    BY IterationsAssumption DEF TaskShapes, CountIsExact, LimitIsMet
  <1>3. \A j \in (Len(steps) - m + 1) .. Len(steps) + 1 : steps'[j] = "malformed"
    BY <1>1, <1>2 DEF CountIsExact
  <1>4. m < Len(steps) => steps'[Len(steps) - m] # "malformed"
    BY <1>1, <1>2, SMTT(30) DEF CountIsExact
  <1>5. CountIsExact'
    BY <1>1, <1>2, <1>3, <1>4 DEF CountIsExact
  <1>6. LimitIsMet'
    <2>1. CASE m + 1 >= MaxMalformed
      <3>1. m + 1 = MaxMalformed
        BY <1>2, <2>1
      <3>2. MalformedRun(Len(steps))' /\ Len(steps') >= MaxMalformed
        BY <1>1, <1>2, <1>3, <3>1 DEF MalformedRun
      <3> QED
        BY <2>1, <3>2 DEF LimitIsMet
    <2>2. CASE m + 1 < MaxMalformed
      <3>1. ASSUME NEW i \in MaxMalformed .. Len(steps') PROVE ~MalformedRun(i)'
        <4>1. CASE i \in MaxMalformed .. Len(steps)
          BY <4>1, RunsKept DEF LimitIsMet, StepResults
        <4>2. CASE i = Len(steps) + 1
          <5>1. Len(steps) - m \in (i - MaxMalformed + 1) .. i /\ m < Len(steps)
            BY <1>1, <1>2, <2>2, <3>1, <4>2
          <5> QED
            BY <1>4, <5>1 DEF MalformedRun
        <4> QED
          BY <1>1, <1>2, <4>1, <4>2
      <3> QED
        BY <1>2, <2>2, <3>1 DEF LimitIsMet
    <2> QED
      BY <1>2, <2>1, <2>2
  <1> QED
    BY <1>1, <1>5, <1>6

-----------------------------------------------------------------------------
(* The queue.                                                              *)

\* A call that is waited for and comes back was the only one, and the one the
\* run asked for.
LEMMA HeadIsAsked ==
    ASSUME TaskShapes, QueueSound, queue # <<>>, Head(queue).awaited
    PROVE  Outstanding /\ Tail(queue) = <<>> /\ Current = Asked
  <1>1. /\ Len(queue) \in Nat \ {0} /\ Head(queue) = queue[1]
        /\ Tail(queue) \in Seq(Queued) /\ Len(Tail(queue)) = Len(queue) - 1
    BY Rest DEF TaskShapes
  <1>2. Outstanding /\ Len(queue) = 1
    <2>1. 1 \in 1 .. Len(queue) /\ queue[1].awaited
      BY <1>1
    <2>2. \A i \in 1 .. Len(queue) : queue[i].awaited => Outstanding /\ i = Len(queue)
      BY DEF QueueSound, OthersAreUnawaited
    <2> QED
      BY <2>1, <2>2
  <1>3. Current = Asked
    BY <1>1, <1>2 DEF QueueSound, LastIsAsked, Current
  <1>4. Tail(queue) = <<>>
    <2>1. PICK rest : rest = Tail(queue)
      OBVIOUS
    <2>2. rest \in Seq(Queued) /\ Len(rest) = 0
      BY <1>1, <1>2, <2>1
    <2> QED
      BY <2>1, <2>2, Nothing
  <1> QED
    BY <1>2, <1>3, <1>4

\* A call comes back: if it was waited for, with a result that is true of the
\* workspace; if not, to nobody.
LEMMA ReturnKeeps ==
    ASSUME TaskRunInv, queue # <<>>, NEW result \in Results, Return(result),
           workspace' \in Workspace, tested' \in {"no", "named", "passed"},
           tested # "no" => tested' # "no",
           UNCHANGED <<loopVars, kind, runner>>,
           Current = Asked =>
               /\ runner.pc = "seed" /\ result # "sandbox_error" => Written'
               /\ runner.pc = "hidden" /\ Written => Written'
               /\ runner.pc = "hidden" /\ Ok(result) => HiddenTestsTell'
               /\ runner.pc = "canaries" /\ Ok(result) => workspace'.canary
               /\ runner.pc = "agent" /\ CountsAsVerification(Asked, result) => tested' # "no"
    PROVE  TaskRunInv'
  <1>1. UNCHANGED <<loop, steps, messages, kind, runner, transport>>
    BY DEF loopVars, Return
  <1>2. /\ queue' \in Seq(Queued) /\ Head(queue) \in Queued
        /\ Head(queue) = queue[1] /\ Len(queue) \in Nat \ {0} /\ Len(queue') = Len(queue) - 1
        /\ \A i \in 1 .. Len(queue) - 1 : queue'[i] = queue[i + 1]
    BY Rest DEF TaskRunInv, TaskShapes, Return
  <1>0. /\ \A i \in 1 .. Len(queue) : queue[i].awaited => Outstanding /\ i = Len(queue)
        /\ Outstanding => queue[Len(queue)].awaited /\ queue[Len(queue)].call = Asked
    BY DEF TaskRunInv, QueueSound, OthersAreUnawaited, LastIsAsked
  <1>3. reply' = (IF Head(queue).awaited THEN result ELSE reply) /\ result # "none"
    BY DEF Return, Results
  <1>4. TaskShapes'
    BY <1>1, <1>2, <1>3 DEF TaskRunInv, TaskShapes
  <1>5. /\ Head(queue).awaited =>
             Outstanding /\ queue' = <<>> /\ Current = Asked /\ reply' = result
        /\ ~Head(queue).awaited => reply' = reply /\ reply \in {"none", "sandbox_error"}
    BY <1>2, <1>3, HeadIsAsked
       DEF TaskRunInv, QueueSound, RepliesAreLast, Return
  <1>6. (Awaiting' <=> Awaiting) /\ Asked' = Asked
    BY <1>1 DEF Awaiting, Asked, Call
  <1>7. Outstanding' <=> Outstanding /\ ~Head(queue).awaited
    BY <1>3, <1>5, <1>6 DEF Outstanding
  <1>8. QueueSound'
    <2>1. LastIsAsked'
      <3> SUFFICES ASSUME Outstanding, ~Head(queue).awaited
                   PROVE  queue' # <<>> /\ queue'[Len(queue')].awaited
                          /\ queue'[Len(queue')].call = Asked
        BY <1>6, <1>7 DEF LastIsAsked
      <3>1. Len(queue) # 1
        BY <1>0, <1>2
      <3>2. Len(queue') \in 1 .. Len(queue) - 1 /\ Len(queue') + 1 = Len(queue)
        BY <1>2, <3>1
      <3>3. queue'[Len(queue')] = queue[Len(queue)]
        BY <1>2, <3>2
      <3>4. queue' # <<>>
        BY <1>2, <3>2, Nothing
      <3> QED
        BY <1>0, <3>3, <3>4
    <2>2. OthersAreUnawaited'
      <3> SUFFICES ASSUME NEW i \in 1 .. Len(queue'), queue'[i].awaited
                   PROVE  Outstanding' /\ i = Len(queue')
        BY DEF OthersAreUnawaited
      <3>1. i + 1 \in 1 .. Len(queue) /\ queue[i + 1].awaited
        BY <1>2
      <3>2. Outstanding /\ i + 1 = Len(queue)
        BY <1>0, <3>1
      <3>3. 1 \in 1 .. Len(queue) /\ 1 # Len(queue) /\ i = Len(queue')
        BY <1>2, <3>1, <3>2
      <3>4. ~queue[1].awaited
        BY <1>0, <3>3
      <3>5. ~Head(queue).awaited
        BY <1>2, <3>4
      <3> QED
        BY <1>7, <3>2, <3>3, <3>5
    <2>3. RepliesAreAwaited' /\ RepliesAreLast'
      BY <1>5, <1>6 DEF TaskRunInv, QueueSound, RepliesAreAwaited, RepliesAreLast, Outstanding
    <2> QED
      BY <2>1, <2>2, <2>3 DEF QueueSound
  <1>9. RepliesTell'
    <2>1. runner.pc = "agent" => Asked = loop.call
      BY DEF Asked
    <2> QED
      BY <1>1, <1>5, <2>1 DEF RepliesTell, Ok, CountsAsVerification
  <1>10. VerdictsTell'
    BY <1>1 DEF TaskRunInv, VerdictsTell
  <1>11. LoopSound'
    BY <1>1
       DEF TaskRunInv, LoopSound, Verified, Ended, CountIsExact, LimitIsMet, MalformedRun,
           TurnsAlternate
  <1>12. SeedingSound'
    <2> SUFFICES ASSUME transport = "in_process", runner.pc \in RunnerSteps
                 PROVE  /\ AllAreAwaited'
                        /\ runner.pc = "seed" /\ reply' \notin {"none", "sandbox_error"} =>
                             Written'
                        /\ runner.pc = "hidden" => Written'
      BY <1>1 DEF SeedingSound, RunnerSteps
    <2>1. AllAreAwaited /\ (runner.pc = "hidden" => Written)
      BY DEF TaskRunInv, SeedingSound
    <2>2. Head(queue).awaited
      <3>1. 1 \in 1 .. Len(queue)
        BY <1>2
      <3> QED
        BY <1>2, <2>1, <3>1 DEF AllAreAwaited
    <2>3. AllAreAwaited'
      BY <1>2, <2>1 DEF AllAreAwaited
    <2> QED
      BY <1>5, <2>1, <2>2, <2>3
  <1> QED
    BY <1>4, <1>8, <1>9, <1>10, <1>11, <1>12 DEF TaskRunInv

\* A call that leaves the files alone leaves the hidden tests as they are.
LEMMA FilesKept ==
    ASSUME UNCHANGED <<workspace, transport>>
    PROVE  (Written' <=> Written) /\ (HiddenTestsTell' <=> HiddenTestsTell)
  BY DEF Written, HiddenTestsTell, OwnTestsWereRun

\* What the run asks itself.
LEMMA AskedByRunner ==
    /\ runner.pc = "canaries" => Asked.tool = "read_file" /\ Asked.on = "canary"
    /\ runner.pc = "seed" => Asked.tool = "write_file" /\ Asked.on = "hidden"
    /\ runner.pc = "hidden" => Asked.tool = "run_command" /\ Asked.on = "hidden"
  BY DEF Asked, Call

\* Every way a call that runs comes back.
LEMMA ExecuteKeeps ==
    ASSUME TaskRunInv, Execute, UNCHANGED <<loopVars, kind, runner>>
    PROVE  TaskRunInv'
  <1> USE AskedByRunner
  <1>0. queue # <<>> /\ workspace \in Workspace /\ tested \in {"no", "named", "passed"}
    BY DEF Execute, TaskRunInv, TaskShapes
  <1>1. Current \in ToolCall
    <2>1. Head(queue) \in Queued
      BY <1>0, Rest DEF TaskRunInv, TaskShapes
    <2>2. \A q \in Queued : q.call \in ToolCall
      BY DEF Queued
    <2> QED
      BY <2>1, <2>2 DEF Current
  <1>2. \A call \in ToolCall :
           /\ call.on = "suite" <=> call.tool = "run_tests"
           /\ call.tool \in {"read_file", "write_file", "run_command", "run_tests"}
    BY DEF ToolCall
  <1>3. CASE ReadFile
    <2>1. PICK result \in {"ok", "error"} :
            Return(result) /\ (result = "ok" /\ Current.on = "canary" => workspace.canary)
      BY <1>3 DEF ReadFile
    <2>2. Current.tool = "read_file" /\ UNCHANGED <<workspace, tested>>
      BY <1>3 DEF ReadFile
    <2>3. result \in Results
      BY DEF Results
    <2> QED
      BY <1>0, <2>1, <2>2, <2>3, ReturnKeeps DEF Ok, CountsAsVerification
  <1>4. CASE WriteFile
    <2>1. Current.tool = "write_file" /\ Return("ok") /\ UNCHANGED tested
      BY <1>4 DEF WriteFile
    <2>2. workspace' \in Workspace
      BY <1>0, <1>4 DEF WriteFile, Workspace, Code, Tests
    <2>3. "ok" \in Results
      BY DEF Results
    <2>4. Current.on = "hidden" => Written'
      BY <1>0, <1>4 DEF WriteFile, Workspace, Written
    <2> QED
      BY <1>0, <2>1, <2>2, <2>3, <2>4, ReturnKeeps DEF CountsAsVerification
  <1>5. CASE RunShell
    <2>1. PICK result \in {"exit_0", "exit_1"} : Return(result)
      BY <1>5 DEF RunShell
    <2>2. Current.on = "shell" /\ UNCHANGED tested
      BY <1>5 DEF RunShell
    <2>3. workspace' \in Workspace
      BY <1>0, <1>5 DEF RunShell, Shell, Workspace, Code, Tests
    <2>4. result \in Results /\ Current.tool # "run_tests"
      BY <1>1, <1>2, <2>2 DEF Results
    <2> QED
      BY <1>0, <2>1, <2>2, <2>3, <2>4, ReturnKeeps DEF CountsAsVerification
  <1>6. CASE RunMention
    <2>1. Current.on = "mention" /\ Return("exit_0") /\ UNCHANGED workspace
      BY <1>6 DEF RunMention
    <2>2. tested' \in {"named", "passed"}
      BY <1>0, <1>6 DEF RunMention
    <2>3. "exit_0" \in Results
      BY DEF Results
    <2> QED
      BY <1>0, <2>1, <2>2, <2>3, ReturnKeeps
  <1>7. CASE RunPytest
    <2>1. PICK result \in {"exit_0", "exit_1", "exit_5"} :
            Return(result) /\ tested' = IF result = "exit_0" THEN "passed" ELSE tested
      BY <1>7 DEF RunPytest, OwnTestsResults
    <2>2. Current.on \in {"pytest", "suite"} /\ UNCHANGED workspace
      BY <1>7 DEF RunPytest
    <2>3. result \in Results
      BY DEF Results
    <2> QED
      BY <1>0, <2>1, <2>2, <2>3, ReturnKeeps DEF CountsAsVerification
  <1>8. CASE RunHidden
    <2>1. PICK result \in {"exit_0", "exit_1"} :
            /\ Return(result)
            /\ result = "exit_0" => \/ workspace.hidden /\ workspace.code = "right"
                                    \/ ~workspace.hidden /\ workspace.tests # "none"
      BY <1>8 DEF RunHidden, HiddenResults, OwnTestsResults
    <2>2. Current.tool = "run_command" /\ Current.on = "hidden" /\ UNCHANGED <<workspace, tested>>
      BY <1>8 DEF RunHidden
    <2>3. result \in Results /\ (Ok(result) <=> result = "exit_0") /\ UNCHANGED transport
      BY <2>1 DEF Results, Ok, Return
    <2>4. runner.pc = "hidden" /\ transport = "in_process" => Written
      BY DEF TaskRunInv, SeedingSound
    <2>5. runner.pc = "hidden" /\ Ok(result) => HiddenTestsTell
      BY <1>0, <2>1, <2>3, <2>4 DEF HiddenTestsTell, OwnTestsWereRun, Written, Workspace, Tests
    <2> QED
      BY <1>0, <2>1, <2>2, <2>3, <2>5, FilesKept, ReturnKeeps DEF CountsAsVerification
  <1>9. CASE TimeOut
    <2>1. Return("timed_out") /\ UNCHANGED tested
      BY <1>9 DEF TimeOut
    <2>2. workspace' \in Workspace
      BY <1>0, <1>9 DEF TimeOut, Shell, Workspace, Code, Tests
    <2>3. "timed_out" \in Results /\ ~Ok("timed_out")
      BY DEF Results, Ok
    <2>4. Current.tool # "write_file"
      BY <1>9 DEF TimeOut, Commands
    <2>5. Current.on = "hidden" /\ Written => Written'
      BY <1>9 DEF TimeOut, Written
    <2> QED
      BY <1>0, <2>1, <2>2, <2>3, <2>4, <2>5, ReturnKeeps DEF CountsAsVerification
  <1>10. CASE Fail
    <2>1. Return("sandbox_error") /\ UNCHANGED <<workspace, tested, transport>>
      BY <1>10 DEF Fail, Return
    <2> QED
      BY <1>0, <2>1, FilesKept, ReturnKeeps DEF Results, Ok, CountsAsVerification
  <1>11. CASE RefuseWrite
    <2>1. /\ Current.tool = "write_file" /\ Return("error") /\ UNCHANGED <<workspace, tested>>
          /\ Current.on = "hidden" => Written
      BY <1>11 DEF RefuseWrite, Written
    <2>2. "error" \in Results
      BY DEF Results
    <2>3. Current.on = "hidden" => Written'
      BY <2>1 DEF Written
    <2> QED
      BY <1>0, <2>1, <2>2, <2>3, ReturnKeeps DEF CountsAsVerification
  <1> QED
    BY <1>3, <1>4, <1>5, <1>6, <1>7, <1>8, <1>9, <1>10, <1>11 DEF Execute

LEMMA SandboxFailsKeeps ==
    ASSUME TaskRunInv, SandboxFails
    PROVE  TaskRunInv'
  <1>1. /\ queue # <<>> /\ Return("sandbox_error") /\ UNCHANGED <<workspace, tested, transport>>
        /\ UNCHANGED <<loopVars, kind, runner>>
    BY DEF SandboxFails, Fail, Return
  <1>2. workspace \in Workspace /\ tested \in {"no", "named", "passed"}
    BY DEF TaskRunInv, TaskShapes
  <1> QED
    BY <1>1, <1>2, FilesKept, ReturnKeeps DEF Results, Ok, CountsAsVerification

\* A call given up on leaves its failure, and nobody waits for it any more.
LEMMA GiveUpKeeps ==
    ASSUME TaskRunInv, GiveUp, UNCHANGED <<loopVars, kind, runner>>
    PROVE  TaskRunInv'
  <1>1. /\ queue # <<>> /\ queue[Len(queue)].awaited /\ reply' = "sandbox_error"
        /\ queue' = [queue EXCEPT ![Len(queue)].awaited = FALSE]
        /\ UNCHANGED <<transport, workspace, tested, loop, steps, messages, kind, runner>>
    BY DEF GiveUp, loopVars
  <1>2. queue \in Seq(Queued) /\ Len(queue) \in Nat \ {0}
    BY <1>1, Rest DEF TaskRunInv, TaskShapes
  <1>3. /\ queue' \in Seq(Queued) /\ Len(queue') = Len(queue)
        /\ ~queue'[Len(queue)].awaited
        /\ \A i \in 1 .. Len(queue) : i # Len(queue) => queue'[i] = queue[i]
    <2>1. PICK last : last = [queue[Len(queue)] EXCEPT !.awaited = FALSE]
      OBVIOUS
    <2>2. last \in Queued /\ ~last.awaited
      <3>1. queue[Len(queue)] \in Queued
        BY <1>2
      <3> QED
        BY <2>1, <3>1 DEF Queued
    <2>3. queue' = [queue EXCEPT ![Len(queue)] = last]
      BY <1>1, <2>1
    <2> QED
      BY <1>2, <2>2, <2>3
  <1>4. Outstanding
    BY <1>1, <1>2 DEF TaskRunInv, QueueSound, OthersAreUnawaited
  <1>5. TaskShapes'
    BY <1>1, <1>3 DEF TaskRunInv, TaskShapes, Results
  <1>6. Awaiting' /\ ~Outstanding'
    BY <1>1, <1>4 DEF Awaiting, Outstanding
  <1>7. QueueSound'
    BY <1>1, <1>3, <1>6
       DEF TaskRunInv, QueueSound, LastIsAsked, OthersAreUnawaited, RepliesAreAwaited,
           RepliesAreLast
  <1>8. RepliesTell'
    BY <1>1 DEF RepliesTell, Ok, CountsAsVerification
  <1>9. VerdictsTell'
    BY <1>1, <1>4 DEF TaskRunInv, VerdictsTell, Outstanding, Awaiting
  <1>10. LoopSound'
    BY <1>1
       DEF TaskRunInv, LoopSound, Verified, Ended, CountIsExact, LimitIsMet, MalformedRun,
           TurnsAlternate
  <1>11. SeedingSound'
    BY DEF GiveUp, SeedingSound
  <1> QED
    BY <1>5, <1>7, <1>8, <1>9, <1>10, <1>11 DEF TaskRunInv

-----------------------------------------------------------------------------
(* The agent.                                                              *)

LoopState == [pc : {"think", "call", "over"}, malformed : Nat, verified : BOOLEAN,
              call : ToolCall \union {NoCall}, termination : Terminations]

\* An answer that needs no tool.
LEMMA ThoughtKeeps ==
    ASSUME TaskRunInv, runner.pc = "agent", loop.pc = "think",
           UNCHANGED <<sandboxVars, kind, runner>>,
           loop' \in LoopState, loop'.pc \in {"think", "over"}, Ended',
           loop'.verified = loop.verified,
           RequireVerified /\ loop'.termination = "finished" => loop.verified,
           steps' \in Seq(StepResults), messages' \in Seq(Roles),
           CountIsExact', LimitIsMet', TurnsAlternate'
    PROVE  TaskRunInv'
  <1>1. UNCHANGED <<transport, workspace, queue, reply, tested, kind, runner>>
    BY DEF sandboxVars
  <1>2. TaskShapes'
    BY <1>1 DEF TaskRunInv, TaskShapes, LoopState
  <1>3. ~Awaiting /\ ~Awaiting' /\ reply = "none"
    BY <1>1 DEF Awaiting, TaskRunInv, QueueSound, RepliesAreAwaited
  <1>4. QueueSound'
    BY <1>1, <1>3
       DEF TaskRunInv, QueueSound, LastIsAsked, OthersAreUnawaited, RepliesAreAwaited,
           RepliesAreLast, Outstanding
  <1>5. RepliesTell' /\ VerdictsTell'
    BY <1>1, <1>3 DEF TaskRunInv, RepliesTell, VerdictsTell, RunnerSteps
  <1>6. Verified'
    BY <1>1 DEF TaskRunInv, LoopSound, Verified
  <1>7. SeedingSound'
    BY <1>1 DEF TaskRunInv, SeedingSound, AllAreAwaited
  <1> QED
    BY <1>2, <1>4, <1>5, <1>6, <1>7 DEF TaskRunInv, LoopSound

\* What the loop knows while the model is asked.
LEMMA WhileThinking ==
    ASSUME TaskRunInv, loop.pc = "think"
    PROVE  /\ TaskShapes /\ loop \in LoopState /\ loop.termination = "none"
           /\ CountIsExact /\ LimitIsMet /\ TurnsAlternate
  BY DEF TaskRunInv, TaskShapes, LoopSound, Ended, LoopState

LEMMA ProviderFailsKeeps ==
    ASSUME TaskRunInv, runner.pc = "agent", ProviderFails, UNCHANGED <<kind, runner>>
    PROVE  TaskRunInv'
  <1>1. /\ loop.pc = "think" /\ Record("provider_error") /\ UNCHANGED <<messages, sandboxVars>>
        /\ loop' = [loop EXCEPT !.pc = "over", !.termination = "provider_error"]
    BY DEF ProviderFails, Thinking, End
  <1>2. /\ loop' \in LoopState /\ loop'.pc = "over" /\ loop'.verified = loop.verified
        /\ loop'.termination = "provider_error"
    BY <1>1, WhileThinking DEF LoopState, Terminations
  <1>3. LimitIsMet' /\ CountIsExact' /\ steps' \in Seq(StepResults)
    BY <1>1, <1>2, WhileThinking, OtherStep DEF StepResults
  <1>4. Ended' /\ TurnsAlternate' /\ messages' \in Seq(Roles)
    BY <1>1, <1>2, WhileThinking DEF Ended, TurnsAlternate, TaskShapes
  <1>5. UNCHANGED <<sandboxVars, kind, runner>>
    BY <1>1
  <1> QED
    BY <1>1, <1>2, <1>3, <1>4, <1>5, ThoughtKeeps

LEMMA MalformedKeeps ==
    ASSUME TaskRunInv, runner.pc = "agent", Malformed, UNCHANGED <<kind, runner>>
    PROVE  TaskRunInv'
  <1>1. /\ loop.pc = "think" /\ Record("malformed") /\ Say(<<"assistant", "user">>)
        /\ UNCHANGED <<sandboxVars, kind, runner>>
    BY DEF Malformed, Thinking
  <1>2. PICK counted : counted = [loop EXCEPT !.malformed = @ + 1]
    OBVIOUS
  <1>3. /\ counted \in LoopState /\ counted.malformed = loop.malformed + 1
        /\ counted.pc = "think" /\ counted.termination = "none"
        /\ counted.verified = loop.verified /\ loop.malformed \in Nat
    BY <1>1, <1>2, WhileThinking DEF LoopState
  <1>4. loop' = IF counted.malformed >= MaxMalformed
                THEN [counted EXCEPT !.pc = "over", !.termination = "malformed_limit"] ELSE counted
    BY <1>2 DEF Malformed, End
  <1>5. /\ loop' \in LoopState /\ loop'.verified = loop.verified
        /\ loop'.malformed = loop.malformed + 1
        /\ loop.malformed + 1 >= MaxMalformed =>
             loop'.pc = "over" /\ loop'.termination = "malformed_limit"
        /\ loop.malformed + 1 < MaxMalformed =>
             loop'.pc = "think" /\ loop'.termination = "none"
    <2>1. CASE loop.malformed + 1 >= MaxMalformed
      <3>1. loop' = [counted EXCEPT !.pc = "over", !.termination = "malformed_limit"]
        BY <1>3, <1>4, <2>1
      <3>2. ~(loop.malformed + 1 < MaxMalformed)
        BY <1>3, <2>1, IterationsAssumption
      <3>3. /\ loop' \in LoopState /\ loop'.verified = counted.verified
            /\ loop'.malformed = counted.malformed
            /\ loop'.pc = "over" /\ loop'.termination = "malformed_limit"
        BY <1>3, <3>1 DEF LoopState, Terminations
      <3> QED
        BY <1>3, <3>2, <3>3
    <2>2. CASE ~(loop.malformed + 1 >= MaxMalformed)
      BY <1>3, <1>4, <2>2
    <2> QED
      BY <2>1, <2>2
  <1>6. LimitIsMet' /\ CountIsExact' /\ steps' \in Seq(StepResults)
    BY <1>1, <1>5, WhileThinking, MalformedStep
  <1>7. \/ loop'.pc = "over" /\ loop'.termination = "malformed_limit"
        \/ loop'.pc = "think" /\ loop'.termination = "none"
    BY <1>3, <1>5, IterationsAssumption
  <1>8. TurnsAlternate' /\ messages' \in Seq(Roles)
    BY <1>1, <1>7, WhileThinking, ExchangeAlternates
  <1>9. Ended'
    BY <1>7 DEF Ended
  <1> QED
    BY <1>1, <1>5, <1>6, <1>7, <1>8, <1>9, ThoughtKeeps

\* An answer that parses, and ends the loop.
LEMMA EndingKeeps ==
    ASSUME TaskRunInv, runner.pc = "agent", loop.pc = "think",
           NEW e \in StepResults, e # "malformed", Record(e), Say(<<"assistant">>),
           NEW reason \in {"escalated", "finished"},
           loop' = End(Parsed(loop, NoCall), reason),
           RequireVerified /\ reason = "finished" => loop.verified,
           UNCHANGED <<sandboxVars, kind, runner>>
    PROVE  TaskRunInv'
  <1>1. /\ loop' \in LoopState /\ loop'.pc = "over" /\ loop'.verified = loop.verified
        /\ loop'.termination = reason
    BY WhileThinking DEF LoopState, Terminations, End, Parsed
  <1>2. LimitIsMet' /\ CountIsExact' /\ steps' \in Seq(StepResults)
    BY <1>1, WhileThinking, OtherStep
  <1>3. TurnsAlternate' /\ messages' \in Seq(Roles)
    BY <1>1, WhileThinking, AnswerAlternates
  <1>4. Ended'
    BY <1>1 DEF Ended
  <1> QED
    BY <1>1, <1>2, <1>3, <1>4, ThoughtKeeps

LEMMA EscalateKeeps ==
    ASSUME TaskRunInv, runner.pc = "agent", Escalate, UNCHANGED <<kind, runner>>
    PROVE  TaskRunInv'
  <1>1. /\ loop.pc = "think" /\ Record("escalate") /\ Say(<<"assistant">>)
        /\ loop' = End(Parsed(loop, NoCall), "escalated")
        /\ UNCHANGED <<sandboxVars, kind, runner>>
    BY DEF Escalate, Thinking
  <1> QED
    BY <1>1, EndingKeeps DEF StepResults

LEMMA FinishKeeps ==
    ASSUME TaskRunInv, runner.pc = "agent", Finish, UNCHANGED <<kind, runner>>
    PROVE  TaskRunInv'
  <1>1. /\ loop.pc = "think" /\ Record("finish") /\ Say(<<"assistant">>)
        /\ RequireVerified => loop.verified
        /\ loop' = End(Parsed(loop, NoCall), "finished")
        /\ UNCHANGED <<sandboxVars, kind, runner>>
    BY DEF Finish, Thinking
  <1> QED
    BY <1>1, EndingKeeps DEF StepResults

LEMMA RefuseFinishKeeps ==
    ASSUME TaskRunInv, runner.pc = "agent", RefuseFinish, UNCHANGED <<kind, runner>>
    PROVE  TaskRunInv'
  <1>1. /\ loop.pc = "think" /\ Record("refused") /\ Say(<<"assistant", "user">>)
        /\ loop' = Parsed(loop, NoCall) /\ UNCHANGED <<sandboxVars, kind, runner>>
    BY DEF RefuseFinish, Thinking
  <1>2. /\ loop' \in LoopState /\ loop'.pc = "think" /\ loop'.verified = loop.verified
        /\ loop'.termination = "none" /\ loop'.malformed = 0
    BY <1>1, WhileThinking DEF LoopState, Parsed
  <1>3. LimitIsMet' /\ CountIsExact' /\ steps' \in Seq(StepResults)
    BY <1>1, <1>2, WhileThinking, OtherStep DEF StepResults
  <1>4. TurnsAlternate' /\ messages' \in Seq(Roles)
    BY <1>1, <1>2, WhileThinking, ExchangeAlternates
  <1>5. Ended'
    BY <1>2 DEF Ended
  <1> QED
    BY <1>1, <1>2, <1>3, <1>4, <1>5, ThoughtKeeps

LEMMA ExhaustedKeeps ==
    ASSUME TaskRunInv, runner.pc = "agent", Exhausted, UNCHANGED <<kind, runner>>
    PROVE  TaskRunInv'
  <1>1. /\ loop.pc = "think" /\ UNCHANGED <<steps, messages, sandboxVars, kind, runner>>
        /\ loop' = [loop EXCEPT !.pc = "over", !.termination = "max_iterations"]
    BY DEF Exhausted, End
  <1>2. /\ loop' \in LoopState /\ loop'.pc = "over" /\ loop'.verified = loop.verified
        /\ loop'.termination = "max_iterations"
    BY <1>1, WhileThinking DEF LoopState, Terminations
  <1>3. /\ LimitIsMet' /\ CountIsExact' /\ steps' \in Seq(StepResults)
        /\ Ended' /\ TurnsAlternate' /\ messages' \in Seq(Roles)
    BY <1>1, <1>2, WhileThinking
       DEF LimitIsMet, MalformedRun, CountIsExact, Ended, TurnsAlternate, TaskShapes
  <1> QED
    BY <1>1, <1>2, <1>3, ThoughtKeeps

-----------------------------------------------------------------------------
(* Calls that are asked and answered.                                      *)

\* A new call is waited for, and nobody waits for an older one.
LEMMA AskQueues ==
    ASSUME TaskShapes, QueueSound, ~Outstanding, NEW call \in ToolCall, Ask(call),
           Awaiting', Asked' = call
    PROVE  /\ QueueSound' /\ queue' \in Seq(Queued) /\ reply' = "none"
           /\ AllAreAwaited => AllAreAwaited'
  <1>1. PICK hangs \in BOOLEAN :
          queue' = Append(queue, [call |-> call, hangs |-> hangs, awaited |-> TRUE])
    BY DEF Ask
  <1>2. PICK new : new = [call |-> call, hangs |-> hangs, awaited |-> TRUE]
    OBVIOUS
  <1>3. new \in Queued /\ new.call = call /\ new.awaited
    BY <1>2 DEF Queued
  <1>4. /\ queue' \in Seq(Queued) /\ Len(queue) \in Nat /\ Len(queue') = Len(queue) + 1
        /\ \A i \in 1 .. Len(queue) : queue'[i] = queue[i]
        /\ queue'[Len(queue) + 1] = new
    BY <1>1, <1>2, <1>3, Appended DEF TaskShapes
  <1>5. reply' = "none" /\ Outstanding' /\ queue' # <<>>
    BY <1>4, Nothing DEF Ask, Outstanding
  <1>6. LastIsAsked'
    BY <1>3, <1>4, <1>5 DEF LastIsAsked
  <1>7. OthersAreUnawaited'
    <2>1. \A i \in 1 .. Len(queue) : ~queue[i].awaited
      BY DEF QueueSound, OthersAreUnawaited
    <2> QED
      BY <1>4, <1>5, <2>1 DEF OthersAreUnawaited
  <1>8. AllAreAwaited => AllAreAwaited'
    BY <1>3, <1>4 DEF AllAreAwaited
  <1> QED
    BY <1>4, <1>5, <1>6, <1>7, <1>8 DEF QueueSound, RepliesAreAwaited, RepliesAreLast

LEMMA CallToolKeeps ==
    ASSUME TaskRunInv, runner.pc = "agent", NEW call \in AgentCall, CallTool(call),
           UNCHANGED <<kind, runner>>
    PROVE  TaskRunInv'
  <1>1. /\ loop.pc = "think" /\ Say(<<"assistant">>) /\ Ask(call)
        /\ loop' = [Parsed(loop, call) EXCEPT !.pc = "call"]
        /\ UNCHANGED <<steps, transport, workspace, tested, kind, runner>>
    BY DEF CallTool, Thinking
  <1>2. call \in ToolCall
    BY DEF AgentCall
  <1>3. /\ loop' \in LoopState /\ loop'.pc = "call" /\ loop'.verified = loop.verified
        /\ loop'.termination = "none" /\ loop'.malformed = 0 /\ loop'.call = call
    BY <1>1, <1>2, WhileThinking DEF LoopState, Parsed
  <1>4. TurnsAlternate' /\ messages' \in Seq(Roles)
    BY <1>1, <1>3, WhileThinking, AnswerAlternates
  <1>5. ~Outstanding /\ Awaiting' /\ Asked' = call
    BY <1>1, <1>3 DEF Outstanding, Awaiting, Asked
  <1>6. /\ QueueSound' /\ queue' \in Seq(Queued) /\ reply' = "none"
        /\ AllAreAwaited => AllAreAwaited'
    BY <1>1, <1>2, <1>5, AskQueues DEF TaskRunInv
  <1>7. TaskShapes'
    BY <1>1, <1>3, <1>4, <1>6 DEF TaskRunInv, TaskShapes, LoopState
  <1>8. RepliesTell'
    BY <1>6 DEF RepliesTell, Ok, CountsAsVerification
  <1>9. VerdictsTell'
    BY <1>1 DEF TaskRunInv, VerdictsTell, RunnerSteps
  <1>10. LimitIsMet' /\ CountIsExact'
    BY <1>1, <1>3, WhileThinking, IterationsAssumption DEF LimitIsMet, MalformedRun, CountIsExact
  <1>11. Verified' /\ Ended'
    BY <1>1, <1>2, <1>3 DEF TaskRunInv, LoopSound, Verified, Ended
  <1>12. SeedingSound'
    BY <1>1, <1>6 DEF TaskRunInv, SeedingSound
  <1> QED
    BY <1>4, <1>6, <1>7, <1>8, <1>9, <1>10, <1>11, <1>12 DEF TaskRunInv, LoopSound

LEMMA ObserveKeeps ==
    ASSUME TaskRunInv, runner.pc = "agent", Observe, UNCHANGED <<kind, runner>>
    PROVE  TaskRunInv'
  <1>1. /\ loop.pc = "call" /\ reply # "none" /\ Record("observed") /\ Say(<<"user">>)
        /\ reply' = "none" /\ UNCHANGED <<transport, workspace, queue, tested, kind, runner>>
        /\ loop' = [loop EXCEPT !.pc = "think", !.call = NoCall,
                       !.verified = @ \/ CountsAsVerification(loop.call, reply)]
    BY DEF Observe
  <1>2. /\ TaskShapes /\ loop \in LoopState /\ loop.termination = "none"
        /\ LimitIsMet /\ TurnsAlternate /\ reply \in Results
    BY <1>1 DEF TaskRunInv, TaskShapes, LoopSound, Ended, LoopState
  <1>3. CountsAsVerification(loop.call, reply) \in BOOLEAN
    BY DEF CountsAsVerification
  <1>4. /\ loop' \in LoopState /\ loop'.pc = "think" /\ loop'.termination = "none"
        /\ loop'.malformed = loop.malformed
        /\ loop'.verified => loop.verified \/ CountsAsVerification(loop.call, reply)
    BY <1>1, <1>2, <1>3 DEF LoopState
  <1>5. loop.malformed = 0
    BY <1>1 DEF TaskRunInv, LoopSound, CountIsExact
  <1>6. "observed" \in StepResults
    BY DEF StepResults
  <1>7. LimitIsMet' /\ CountIsExact' /\ steps' \in Seq(StepResults)
    BY <1>1, <1>2, <1>4, <1>5, <1>6, OtherStep
  <1>8. TurnsAlternate' /\ messages' \in Seq(Roles)
    BY <1>1, <1>2, <1>4, ObservationAlternates
  <1>9. ~Outstanding /\ ~Awaiting'
    BY <1>1, <1>4 DEF Outstanding, Awaiting
  <1>10. QueueSound'
    BY <1>1, <1>9
       DEF TaskRunInv, QueueSound, LastIsAsked, OthersAreUnawaited, RepliesAreAwaited,
           RepliesAreLast, Outstanding
  <1>11. TaskShapes'
    BY <1>1, <1>4, <1>7, <1>8 DEF TaskRunInv, TaskShapes, LoopState
  <1>12. RepliesTell' /\ VerdictsTell'
    BY <1>1, <1>4 DEF TaskRunInv, RepliesTell, VerdictsTell, RunnerSteps
  <1>13. Verified' /\ Ended'
    BY <1>1, <1>4 DEF TaskRunInv, LoopSound, Verified, Ended, RepliesTell
  <1>14. SeedingSound'
    BY <1>1 DEF TaskRunInv, SeedingSound, AllAreAwaited
  <1> QED
    BY <1>7, <1>8, <1>10, <1>11, <1>12, <1>13, <1>14 DEF TaskRunInv, LoopSound

LEMMA AgentKeeps ==
    ASSUME TaskRunInv, AgentRuns
    PROVE  TaskRunInv'
  BY ProviderFailsKeeps, MalformedKeeps, EscalateKeeps, RefuseFinishKeeps, FinishKeeps,
     CallToolKeeps, ObserveKeeps, ExhaustedKeeps
     DEF AgentRuns, AgentStep

-----------------------------------------------------------------------------
(* The runner.                                                             *)

RunnerState == [pc : RunnerSteps \union Over, files : Code \union {"unread"},
                canaries_intact : BOOLEAN, hidden : Results \union {"none"}]

\* The runner asks the sandbox for its next call.
LEMMA ProceedKeeps ==
    ASSUME TaskRunInv, ~Outstanding, NEW call \in ToolCall, NEW r \in RunnerState,
           Proceed(r, call), r.pc \in {"canaries", "seed", "hidden"}, r.hidden = "none",
           \/ r.pc = "canaries" /\ call = Call("read_file", "canary") /\ ~r.canaries_intact
           \/ r.pc = "seed" /\ call = Call("write_file", "hidden") /\ kind # "escalate"
           \/ r.pc = "hidden" /\ call = Call("run_command", "hidden") /\ kind # "escalate",
           runner.pc \in RunnerSteps,
           r.pc = "hidden" /\ transport = "in_process" => Written,
           UNCHANGED <<loopVars, kind>>
    PROVE  TaskRunInv'
  <1>1. /\ UNCHANGED <<loop, steps, messages, kind, transport, workspace, tested>>
        /\ runner' = r /\ Ask(call)
    BY DEF Proceed, loopVars
  <1>2. Awaiting' /\ Asked' = call
    BY <1>1 DEF Awaiting, Asked
  <1>3. /\ QueueSound' /\ queue' \in Seq(Queued) /\ reply' = "none"
        /\ AllAreAwaited => AllAreAwaited'
    BY <1>1, <1>2, AskQueues DEF TaskRunInv
  <1>4. TaskShapes'
    BY <1>1, <1>3 DEF TaskRunInv, TaskShapes, RunnerState
  <1>5. RepliesTell'
    BY <1>3 DEF RepliesTell, Ok, CountsAsVerification
  <1>6. VerdictsTell'
    BY <1>1 DEF VerdictsTell
  <1>7. LoopSound'
    BY <1>1
       DEF TaskRunInv, LoopSound, Verified, Ended, CountIsExact, LimitIsMet, MalformedRun,
           TurnsAlternate
  <1>8. SeedingSound'
    BY <1>1, <1>3, FilesKept DEF TaskRunInv, SeedingSound
  <1> QED
    BY <1>3, <1>4, <1>5, <1>6, <1>7, <1>8 DEF TaskRunInv

\* Its calls are calls of tools.
LEMMA RunnerCalls ==
    /\ Call("read_file", "canary") \in ToolCall
    /\ Call("write_file", "hidden") \in ToolCall
    /\ Call("run_command", "hidden") \in ToolCall
  BY DEF Call, ToolCall

\* Nobody waits for what cleanup leaves in the queue.
LEMMA CleanupQueues ==
    ASSUME TaskShapes, NEW later \in Seq(Queued),
           \A i \in 1 .. Len(later) : ~later[i].awaited,
           Cleanup(later), ~Awaiting'
    PROVE  /\ QueueSound' /\ queue' \in Seq(Queued) /\ reply' = "none"
           /\ workspace' \in Workspace /\ (HiddenTestsTell' <=> HiddenTestsTell)
           /\ workspace'.canary = workspace.canary
           /\ queue = <<>> /\ later = <<>> => queue' = <<>>
  <1>1. queue \in Seq(Queued) /\ Len(queue) \in Nat /\ Len(later) \in Nat
    BY DEF TaskShapes
  <1>2. PICK left : left = Unawaited
    OBVIOUS
  <1>3. left \in Seq(Queued) /\ Len(left) = Len(queue) /\ \A i \in 1 .. Len(left) : ~left[i].awaited
    <2>1. \A i \in 1 .. Len(queue) : queue[i] \in Queued
      BY <1>1
    <2>2. \A q \in Queued : /\ [q EXCEPT !.awaited = FALSE] \in Queued
                            /\ ~[q EXCEPT !.awaited = FALSE].awaited
      BY DEF Queued
    <2>3. left = [i \in 1 .. Len(queue) |-> [queue[i] EXCEPT !.awaited = FALSE]]
      BY <1>2 DEF Unawaited
    <2>4. \A i \in 1 .. Len(queue) : left[i] \in Queued /\ ~left[i].awaited
      BY <2>1, <2>2, <2>3, Zenon
    <2>5. left \in [1 .. Len(queue) -> Queued]
      BY <2>3, <2>4, Zenon
    <2>6. left \in Seq(Queued) /\ Len(left) = Len(queue)
      BY <1>1, <2>5
    <2> QED
      BY <2>4, <2>6
  <1>4. PICK both : both = left \o later
    OBVIOUS
  <1>5. /\ both \in Seq(Queued) /\ Len(both) = Len(left) + Len(later)
        /\ \A i \in 1 .. Len(both) : ~both[i].awaited
    <2>1. /\ both \in Seq(Queued) /\ Len(both) = Len(left) + Len(later)
          /\ \A i \in 1 .. Len(left) : both[i] = left[i]
          /\ \A i \in 1 .. Len(later) : both[Len(left) + i] = later[i]
      <3>1. left \in Seq(Queued) /\ later \in Seq(Queued)
        BY <1>3
      <3> QED
        BY ONLY <1>4, <3>1, Joined
    <2>2. ASSUME NEW i \in 1 .. Len(both)
          PROVE  i \in 1 .. Len(left) \/ \E j \in 1 .. Len(later) : i = Len(left) + j
      <3>1. i \notin 1 .. Len(left) => i - Len(left) \in 1 .. Len(later)
                                      /\ i = Len(left) + (i - Len(left))
        BY <1>1, <1>3, <2>1
      <3> QED
        BY <3>1
    <2>3. \A i \in 1 .. Len(both) : ~both[i].awaited
      <3> SUFFICES ASSUME NEW i \in 1 .. Len(both) PROVE ~both[i].awaited
        OBVIOUS
      <3>1. CASE i \in 1 .. Len(left)
        BY <1>3, <2>1, <3>1
      <3>2. CASE \E j \in 1 .. Len(later) : i = Len(left) + j
        BY <2>1, <3>2
      <3> QED
        BY <2>2, <3>1, <3>2
    <2> QED
      BY <2>1, <2>3
  <1>6. queue' = <<>> \/ queue' = both
    BY <1>2, <1>4 DEF Cleanup
  <1>7. queue' \in Seq(Queued) /\ \A i \in 1 .. Len(queue') : ~queue'[i].awaited
    <2>1. CASE queue' = <<>>
      <3>1. queue' \in Seq(Queued) /\ Len(queue') = 0
        BY <2>1
      <3> QED
        BY <3>1
    <2>2. CASE queue' = both
      BY <1>5, <2>2
    <2> QED
      BY <1>6, <2>1, <2>2
  <1>8. queue = <<>> /\ later = <<>> => queue' = <<>>
    BY <1>1, <1>3, <1>5, <1>6, Nothing
  <1>9. /\ reply' = "none" /\ workspace' \in Workspace /\ workspace'.canary = workspace.canary
        /\ workspace'.code = workspace.code /\ workspace'.hidden = workspace.hidden
        /\ workspace'.tests = workspace.tests /\ UNCHANGED transport
    BY DEF Cleanup, TaskShapes, Workspace
  <1>11. HiddenTestsTell' <=> HiddenTestsTell
    BY <1>9 DEF HiddenTestsTell, OwnTestsWereRun
  <1>10. QueueSound'
    BY <1>7, <1>9
       DEF QueueSound, LastIsAsked, OthersAreUnawaited, RepliesAreAwaited, RepliesAreLast,
           Outstanding
  <1> QED
    BY <1>7, <1>8, <1>9, <1>10, <1>11

\* The run is over: its verdict was read off the last word of the sandbox.
LEMMA CleanupKeeps ==
    ASSUME TaskRunInv, NEW r \in RunnerState, runner' = r, r.pc \in Over,
           NEW later \in Seq(Queued), \A i \in 1 .. Len(later) : ~later[i].awaited,
           Cleanup(later), UNCHANGED <<loopVars, kind>>,
           r.pc = "done" => later = <<>>,
           r.pc = "done" /\ Ok(r.hidden) => HiddenTestsTell /\ queue = <<>>,
           r.pc = "done" /\ kind = "escalate" /\ r.canaries_intact =>
               workspace.canary /\ queue = <<>>
    PROVE  TaskRunInv'
  <1>1. UNCHANGED <<loop, steps, messages, kind, transport, tested>>
    BY DEF Cleanup, loopVars
  <1>2. ~Awaiting'
    BY DEF Awaiting, Over
  <1>3. /\ QueueSound' /\ queue' \in Seq(Queued) /\ reply' = "none"
        /\ workspace' \in Workspace /\ (HiddenTestsTell' <=> HiddenTestsTell)
        /\ workspace'.canary = workspace.canary
        /\ queue = <<>> /\ later = <<>> => queue' = <<>>
    BY <1>2, CleanupQueues DEF TaskRunInv
  <1>4. TaskShapes'
    BY <1>1, <1>3 DEF TaskRunInv, TaskShapes, RunnerState
  <1>5. RepliesTell'
    BY <1>3 DEF RepliesTell, Ok, CountsAsVerification
  <1>6. VerdictsTell'
    BY <1>1, <1>3 DEF VerdictsTell, Over, RunnerSteps
  <1>7. LoopSound'
    BY <1>1
       DEF TaskRunInv, LoopSound, Verified, Ended, CountIsExact, LimitIsMet, MalformedRun,
           TurnsAlternate
  <1>8. SeedingSound'
    BY DEF SeedingSound, RunnerSteps, Over
  <1> QED
    BY <1>3, <1>4, <1>5, <1>6, <1>7, <1>8 DEF TaskRunInv

\* A run that is waited for, and answered, waits for nothing.
LEMMA Answered ==
    ASSUME TaskRunInv, reply # "none"
    PROVE  ~Outstanding /\ (Ok(reply) => queue = <<>>) /\ reply \in Results
  BY DEF Outstanding, TaskRunInv, TaskShapes, QueueSound, RepliesAreLast, Ok

\* Every step of the runner may end in an error of the sandbox.
LEMMA RaiseKeeps ==
    ASSUME TaskRunInv, Close([runner EXCEPT !.pc = "raised"]), UNCHANGED <<loopVars, kind>>
    PROVE  TaskRunInv'
  <1>1. PICK r : r = [runner EXCEPT !.pc = "raised"]
    OBVIOUS
  <1>2. r \in RunnerState /\ r.pc = "raised"
    BY <1>1 DEF TaskRunInv, TaskShapes, RunnerState, Over
  <1>3. runner' = r /\ Cleanup(<<>>)
    BY <1>1 DEF Close
  <1>4. <<>> \in Seq(Queued) /\ \A i \in 1 .. Len(<<>>) : ~<<>>[i].awaited
    OBVIOUS
  <1>5. r.pc \in Over /\ r.pc # "done"
    BY <1>2 DEF Over
  <1> QED
    BY <1>2, <1>3, <1>4, <1>5, CleanupKeeps

LEMMA SnapshotKeeps ==
    ASSUME TaskRunInv, Snapshot
    PROVE  TaskRunInv'
  <1>1. runner.pc = "agent" /\ loop.pc = "over" /\ UNCHANGED <<loopVars, kind>>
    BY DEF Snapshot
  <1>2. ~Outstanding
    BY <1>1 DEF Outstanding, Awaiting
  <1>3. PICK read : read = [runner EXCEPT !.files = workspace.code]
    OBVIOUS
  <1>4. /\ read \in RunnerState /\ ~read.canaries_intact /\ read.hidden = "none"
    BY <1>1, <1>3
       DEF TaskRunInv, TaskShapes, RunnerState, VerdictsTell, RunnerSteps, Workspace
  <1>5. \/ kind = "task" /\ Proceed([read EXCEPT !.pc = "seed"], Call("write_file", "hidden"))
        \/ Proceed([read EXCEPT !.pc = "canaries"], Call("read_file", "canary"))
    BY <1>3 DEF Snapshot, SeedHidden
  <1>6. /\ [read EXCEPT !.pc = "seed"] \in RunnerState
        /\ [read EXCEPT !.pc = "seed"].pc = "seed"
        /\ [read EXCEPT !.pc = "seed"].hidden = "none"
        /\ [read EXCEPT !.pc = "canaries"] \in RunnerState
        /\ [read EXCEPT !.pc = "canaries"].pc = "canaries"
        /\ [read EXCEPT !.pc = "canaries"].hidden = "none"
        /\ ~[read EXCEPT !.pc = "canaries"].canaries_intact
        /\ runner.pc \in RunnerSteps
    BY <1>1, <1>4 DEF RunnerState, RunnerSteps
  <1> QED
    BY <1>1, <1>2, <1>5, <1>6, RunnerCalls, ProceedKeeps

LEMMA CheckCanariesKeeps ==
    ASSUME TaskRunInv, CheckCanaries
    PROVE  TaskRunInv'
  <1>1. runner.pc = "canaries" /\ reply # "none" /\ UNCHANGED <<loopVars, kind>>
    BY DEF CheckCanaries
  <1>2. ~Outstanding /\ (Ok(reply) => queue = <<>>)
    BY <1>1, Answered
  <1>3. PICK checked : checked = [runner EXCEPT !.canaries_intact = CanariesIntact]
    OBVIOUS
  <1>4. CanariesIntact \in BOOLEAN /\ (CanariesIntact => workspace.canary /\ queue = <<>>)
    BY <1>1, <1>2 DEF TaskRunInv, RepliesTell, CanariesIntact, Ok
  <1>5. /\ checked \in RunnerState /\ checked.hidden = "none"
        /\ checked.canaries_intact => workspace.canary /\ queue = <<>>
    BY <1>1, <1>3, <1>4 DEF TaskRunInv, TaskShapes, RunnerState, VerdictsTell, RunnerSteps
  <1>6. \/ Close([runner EXCEPT !.pc = "raised"])
        \/ kind = "resolve" /\ Proceed([checked EXCEPT !.pc = "seed"], Call("write_file", "hidden"))
        \/ Close([checked EXCEPT !.pc = "done"])
    BY <1>3 DEF CheckCanaries, SeedHidden
  <1>7. CASE Close([runner EXCEPT !.pc = "raised"])
    BY <1>1, <1>7, RaiseKeeps
  <1>8. CASE kind = "resolve" /\ Proceed([checked EXCEPT !.pc = "seed"], Call("write_file", "hidden"))
    <2>1. /\ [checked EXCEPT !.pc = "seed"] \in RunnerState
          /\ [checked EXCEPT !.pc = "seed"].pc = "seed"
          /\ [checked EXCEPT !.pc = "seed"].hidden = "none"
          /\ runner.pc \in RunnerSteps
      BY <1>1, <1>5 DEF RunnerState, RunnerSteps
    <2> QED
      BY <1>1, <1>2, <1>8, <2>1, RunnerCalls, ProceedKeeps
  <1>9. CASE Close([checked EXCEPT !.pc = "done"])
    <2>1. PICK r : r = [checked EXCEPT !.pc = "done"]
      OBVIOUS
    <2>2. /\ r \in RunnerState /\ r.pc = "done" /\ r.hidden = "none"
          /\ r.canaries_intact = checked.canaries_intact
      BY <1>5, <2>1 DEF RunnerState, Over
    <2>3. runner' = r /\ Cleanup(<<>>)
      BY <1>9, <2>1 DEF Close
    <2>4. <<>> \in Seq(Queued) /\ \A i \in 1 .. Len(<<>>) : ~<<>>[i].awaited
      OBVIOUS
    <2>5. r.pc \in Over /\ ~Ok(r.hidden)
      BY <2>2 DEF Over, Ok
    <2> QED
      BY <1>1, <1>5, <2>2, <2>3, <2>4, <2>5, CleanupKeeps
  <1> QED
    BY <1>6, <1>7, <1>8, <1>9

LEMMA RunHiddenTestsKeeps ==
    ASSUME TaskRunInv, RunHiddenTests
    PROVE  TaskRunInv'
  <1>1. runner.pc = "seed" /\ reply # "none" /\ UNCHANGED <<loopVars, kind>>
    BY DEF RunHiddenTests
  <1>2. ~Outstanding
    BY <1>1, Answered
  <1>3. \/ Close([runner EXCEPT !.pc = "raised"])
        \/ ~Raises /\ Proceed([runner EXCEPT !.pc = "hidden"], Call("run_command", "hidden"))
    BY DEF RunHiddenTests
  <1>4. PICK r : r = [runner EXCEPT !.pc = "hidden"]
    OBVIOUS
  <1>5. r \in RunnerState /\ r.pc = "hidden" /\ r.hidden = "none" /\ kind # "escalate"
    BY <1>1, <1>4 DEF TaskRunInv, TaskShapes, RunnerState, VerdictsTell, RunnerSteps
  <1>6. CASE ~Raises /\ Proceed([runner EXCEPT !.pc = "hidden"], Call("run_command", "hidden"))
    <2>1. transport = "in_process" => Written
      BY <1>1, <1>6 DEF Raises, TaskRunInv, SeedingSound
    <2>2. runner.pc \in RunnerSteps
      BY <1>1 DEF RunnerSteps
    <2> QED
      BY <1>1, <1>2, <1>4, <1>5, <1>6, <2>1, <2>2, RunnerCalls, ProceedKeeps
  <1> QED
    BY <1>1, <1>3, <1>6, RaiseKeeps

\* The hidden tests' own result, with nothing queued behind it, is the verdict.
LEMMA GradeKeeps ==
    ASSUME TaskRunInv, Grade
    PROVE  TaskRunInv'
  <1>1. runner.pc = "hidden" /\ reply # "none" /\ UNCHANGED <<loopVars, kind>>
    BY DEF Grade
  <1>2. (Ok(reply) => queue = <<>> /\ HiddenTestsTell) /\ reply \in Results
    BY <1>1, Answered DEF TaskRunInv, RepliesTell
  <1>3. \/ Close([runner EXCEPT !.pc = "raised"])
        \/ Close([runner EXCEPT !.pc = "done", !.hidden = reply])
    BY DEF Grade
  <1>4. PICK r : r = [runner EXCEPT !.pc = "done", !.hidden = reply]
    OBVIOUS
  <1>5. r \in RunnerState /\ r.pc = "done" /\ r.hidden = reply /\ kind # "escalate"
    BY <1>1, <1>2, <1>4 DEF TaskRunInv, TaskShapes, RunnerState, VerdictsTell, Over
  <1>6. CASE Close([runner EXCEPT !.pc = "done", !.hidden = reply])
    <2>1. runner' = r /\ Cleanup(<<>>)
      BY <1>4, <1>6 DEF Close
    <2>2. <<>> \in Seq(Queued) /\ \A i \in 1 .. Len(<<>>) : ~<<>>[i].awaited
      OBVIOUS
    <2>3. r.pc \in Over
      BY <1>5 DEF Over
    <2> QED
      BY <1>1, <1>2, <1>5, <2>1, <2>2, <2>3, CleanupKeeps
  <1> QED
    BY <1>1, <1>3, <1>6, RaiseKeeps

LEMMA CancelKeeps ==
    ASSUME TaskRunInv, Cancel
    PROVE  TaskRunInv'
  <1>1. PICK r : r = [runner EXCEPT !.pc = "cancelled"]
    OBVIOUS
  <1>2. r \in RunnerState /\ r.pc = "cancelled"
    BY <1>1 DEF TaskRunInv, TaskShapes, RunnerState, Over
  <1>3. r.pc \in Over /\ r.pc # "done"
    BY <1>2 DEF Over
  <1>4. PICK last : last = [call |-> Call("run_command", "hidden"), hangs |-> FALSE, awaited |-> FALSE]
    OBVIOUS
  <1>5. last \in Queued /\ ~last.awaited
    BY <1>4, RunnerCalls DEF Queued
  <1>6. PICK later : later = IF runner.pc = "seed" THEN <<last>> ELSE <<>>
    OBVIOUS
  <1>7. later \in Seq(Queued) /\ \A i \in 1 .. Len(later) : ~later[i].awaited
    BY <1>5, <1>6
  <1>8. runner' = r /\ Cleanup(later) /\ UNCHANGED <<loopVars, kind>>
    BY <1>1, <1>4, <1>6 DEF Cancel
  <1> QED
    BY <1>2, <1>3, <1>7, <1>8, CleanupKeeps

LEMMA StutterKeeps ==
    ASSUME TaskRunInv, UNCHANGED vars
    PROVE  TaskRunInv'
  BY DEF vars, sandboxVars, loopVars, TaskRunInv, TaskShapes, QueueSound, LastIsAsked,
         OthersAreUnawaited, RepliesAreAwaited, RepliesAreLast, Outstanding, Awaiting, Asked,
         SeedingSound, AllAreAwaited, Written, HiddenTestsTell, OwnTestsWereRun,
         RepliesTell, VerdictsTell, LoopSound, Verified, Ended, CountIsExact, LimitIsMet,
         MalformedRun, TurnsAlternate

LEMMA NextKeeps ==
    ASSUME TaskRunInv, [Next]_vars
    PROVE  TaskRunInv'
  <1>1. CASE SandboxRuns
    BY <1>1, ExecuteKeeps, GiveUpKeeps DEF SandboxRuns
  <1>2. CASE RunnerStep
    BY <1>2, SnapshotKeeps, CheckCanariesKeeps, RunHiddenTestsKeeps, GradeKeeps DEF RunnerStep
  <1> QED
    BY <1>1, <1>2, AgentKeeps, SandboxFailsKeeps, CancelKeeps, StutterKeeps DEF Next

LEMMA InitEstablishes ==
    ASSUME Init
    PROVE  TaskRunInv
  <1>1. /\ loop = [pc |-> "think", malformed |-> 0, verified |-> FALSE,
                   call |-> NoCall, termination |-> "none"]
        /\ steps = <<>> /\ messages = <<"system", "user">>
        /\ runner = [pc |-> "agent", files |-> "unread", canaries_intact |-> FALSE,
                     hidden |-> "none"]
        /\ queue = <<>> /\ reply = "none"
    BY DEF Init, SandboxInit, LoopInit
  <1>2. Len(steps) = 0 /\ Len(queue) = 0 /\ Len(messages) = 2
    BY <1>1
  <1>3. TaskShapes
    <2>1. /\ transport \in {"in_process", "mcp"}
          /\ tested \in {"no", "named", "passed"} /\ kind \in {"task", "resolve", "escalate"}
      BY TransportAssumption, KindAssumption DEF Init, SandboxInit
    <2>2. workspace \in Workspace
      <3>1. PICK seeded \in BOOLEAN :
              workspace = [exists |-> TRUE, code |-> "wrong", tests |-> "none",
                           hidden |-> FALSE, canary |-> seeded]
        BY DEF Init, SandboxInit
      <3> QED
        BY <3>1 DEF Workspace, Code, Tests
    <2>3. queue \in Seq(Queued) /\ steps \in Seq(StepResults) /\ messages \in Seq(Roles)
      BY <1>1 DEF Roles
    <2> QED
      BY <1>1, <2>1, <2>2, <2>3 DEF TaskShapes, Terminations, RunnerSteps
  <1>4. QueueSound
    BY <1>1, <1>2
       DEF QueueSound, LastIsAsked, OthersAreUnawaited, RepliesAreAwaited, RepliesAreLast,
           Outstanding, Awaiting
  <1>5. RepliesTell /\ VerdictsTell
    BY <1>1 DEF RepliesTell, VerdictsTell
  <1>6. LoopSound
    BY <1>1, <1>2, IterationsAssumption
       DEF LoopSound, Verified, Ended, CountIsExact, LimitIsMet, MalformedRun, TurnsAlternate
  <1>7. SeedingSound
    BY <1>1, <1>2 DEF SeedingSound, AllAreAwaited
  <1> QED
    BY <1>3, <1>4, <1>5, <1>6, <1>7 DEF TaskRunInv

-----------------------------------------------------------------------------
(* The theorems.                                                           *)

\* TaskRunInv holds of every run of a task or a ticket (benchmark/runner.py,
\* tickets/runner.py, agent/loop.py), over either transport and for any limits.
THEOREM TaskRunInductive == Spec => []TaskRunInv
  BY InitEstablishes, NextKeeps, PTL DEF Spec

\* What is called solved or resolved passes its hidden tests, whatever calls
\* were given up on, failed or came late, unless what the agent had under their
\* names was run for them: over MCP after a write that failed, in process only
\* after one refused over a link (tickets/runner.py, _hidden_tests).
THEOREM VerdictsAreTrue == Spec => []ResolvedMeansRight
  <1>1. TaskRunInv => ResolvedMeansRight
    BY DEF TaskRunInv, TaskShapes, VerdictsTell, ResolvedMeansRight, CalledRight, Outcome,
           HiddenPass, HiddenTestsTell
  <1> QED
    BY <1>1, TaskRunInductive, PTL

\* No ticket is called rightly escalated once its canary file is damaged
\* (tickets/runner.py, canaries).
THEOREM DamageIsSeen == Spec => []DamageIsNoticed
  <1>1. TaskRunInv => DamageIsNoticed
    BY DEF TaskRunInv, VerdictsTell, DamageIsNoticed, Correct
  <1> QED
    BY <1>1, TaskRunInductive, PTL

\* The loop ends for unparseable answers exactly when the last MaxMalformed of
\* them came in a row (loop.py, max_consecutive_malformed).
THEOREM MalformedLimitIsExact == Spec => []MalformedRunsAreCut
  <1>1. TaskRunInv => MalformedRunsAreCut
    <2>1. ASSUME TaskRunInv PROVE Len(steps) \in Nat /\ LimitIsMet
      BY <2>1 DEF TaskRunInv, TaskShapes, LoopSound
    <2> QED
      BY <2>1, IterationsAssumption DEF LimitIsMet, MalformedRun, MalformedRunsAreCut
  <1> QED
    BY <1>1, TaskRunInductive, PTL

\* The model is asked only after a word that is not its own, and no role has
\* the word twice (loop.py, messages).
THEOREM TurnsAreTaken == Spec => []ConversationAlternates
  <1>1. TaskRunInv => ConversationAlternates
    BY DEF TaskRunInv, LoopSound, TurnsAlternate, ConversationAlternates
  <1> QED
    BY <1>1, TaskRunInductive, PTL

\* With require_verified_finish a finish is accepted only once tests have
\* passed (loop.py, _counts_as_verification).
THEOREM FinishesStayVerified == Spec => []FinishesAreVerified
  <1>1. TaskRunInv => FinishesAreVerified
    BY DEF TaskRunInv, LoopSound, Verified, FinishesAreVerified
  <1> QED
    BY <1>1, TaskRunInductive, PTL

=============================================================================
