---------------------------- MODULE ReplayProofs ----------------------------
(***************************************************************************)
(* Proofs that ReplayInv is inductive, for any prompts, samplings and      *)
(* limits, and so that Replay's four safety properties hold.               *)
(***************************************************************************)
EXTENDS ReplayInvariant, FiniteSetTheorems, TLAPS

-----------------------------------------------------------------------------
(* Steps.                                                                  *)

\* How a run ends at a step is told by the answers and by which tests passed.
LEMMA SameEnds ==
    ASSUME NEW n \in Nat, NEW s, NEW t,
           \A j \in 1 .. n : s[j].answer = t[j].answer,
           \A j \in 1 .. n - 1 : Passed(s[j]) <=> Passed(t[j])
    PROVE  /\ RaisedAt(s, n) <=> RaisedAt(t, n)
           /\ EscalatedAt(s, n) <=> EscalatedAt(t, n)
           /\ FinishedAt(s, n) <=> FinishedAt(t, n)
           /\ CutAt(s, n) <=> CutAt(t, n)
           /\ EndsAt(s, n) <=> EndsAt(t, n)
  <1>1. n > 0 => s[n].answer = t[n].answer
    OBVIOUS
  <1>2. RaisedAt(s, n) <=> RaisedAt(t, n)
    BY <1>1 DEF RaisedAt
  <1>3. EscalatedAt(s, n) <=> EscalatedAt(t, n)
    BY <1>1 DEF EscalatedAt
  <1>4. VerifiedBefore(s, n) <=> VerifiedBefore(t, n)
    BY DEF VerifiedBefore
  <1>5. FinishedAt(s, n) <=> FinishedAt(t, n)
    BY <1>1, <1>4 DEF FinishedAt
  <1>6. CutAt(s, n) <=> CutAt(t, n)
    <2>1. ASSUME n >= MaxMalformed
          PROVE  \A j \in (n - MaxMalformed) + 1 .. n : j \in 1 .. n
      BY <2>1, LimitAssumption
    <2> QED
      BY <2>1 DEF CutAt
  <1> QED
    BY <1>2, <1>3, <1>5, <1>6 DEF EndsAt

LEMMA Appended ==
    ASSUME NEW S, NEW s \in Seq(S), NEW e \in S, NEW t, t = Append(s, e)
    PROVE  /\ t \in Seq(S) /\ Len(s) \in Nat
           /\ Len(t) = Len(s) + 1
           /\ \A i \in 1 .. Len(s) : t[i] = s[i]
           /\ t[Len(s) + 1] = e
  OBVIOUS

\* The ends of a run with one more step.
LEMMA EndsAfter ==
    ASSUME NEW n \in Nat, NEW s, NEW t, \A i \in 1 .. n : t[i] = s[i]
    PROVE  /\ RaisedAt(t, n + 1) <=> t[n + 1].answer = "none"
           /\ EscalatedAt(t, n + 1) <=> t[n + 1].answer = "escalate"
           /\ FinishedAt(t, n + 1) <=> t[n + 1].answer = "finish" /\ VerifiedBefore(s, n + 1)
           /\ CutAt(t, n + 1) => t[n + 1].answer = "malformed"
           /\ VerifiedBefore(t, n + 2) <=> VerifiedBefore(s, n + 1) \/ Passed(t[n + 1])
           /\ \A i \in 0 .. n : EndsAt(t, i) <=> EndsAt(s, i)
  <1>1. VerifiedBefore(t, n + 1) <=> VerifiedBefore(s, n + 1)
    BY DEF VerifiedBefore
  <1>2. VerifiedBefore(t, n + 2) <=> VerifiedBefore(s, n + 1) \/ Passed(t[n + 1])
    <2>1. n + 2 - 1 = n + 1 /\ n + 1 - 1 = n
      OBVIOUS
    <2>2. \A j \in 1 .. n + 1 : j \in 1 .. n \/ j = n + 1
      OBVIOUS
    <2>3. 1 .. n \subseteq 1 .. n + 1 /\ n + 1 \in 1 .. n + 1
      OBVIOUS
    <2> QED
      BY <2>1, <2>2, <2>3 DEF VerifiedBefore
  <1>3. CutAt(t, n + 1) => t[n + 1].answer = "malformed"
    BY LimitAssumption DEF CutAt
  <1>4. ASSUME NEW i \in 0 .. n PROVE EndsAt(t, i) <=> EndsAt(s, i)
    <2>1. /\ i \in Nat
          /\ \A j \in 1 .. i : t[j] = s[j]
          /\ \A j \in 1 .. i - 1 : t[j] = s[j]
      OBVIOUS
    <2> QED
      BY ONLY <2>1, SameEnds
  <1> QED
    BY <1>1, <1>2, <1>3, <1>4 DEF RaisedAt, EscalatedAt, FinishedAt

\* The count of malformed answers at the end, with one more or none.
LEMMA CutAfter ==
    ASSUME NEW n \in Nat, NEW s, NEW t, NEW m \in Nat, \A i \in 1 .. n : t[i] = s[i],
           Trailing(s, n, m), t[n + 1].answer = "malformed"
    PROVE  /\ CutAt(t, n + 1) <=> m + 1 >= MaxMalformed
           /\ Trailing(t, n + 1, m + 1)
  <1> /\ m <= n /\ \A j \in (n - m) + 1 .. n : s[j].answer = "malformed"
      /\ m < n => s[n - m].answer # "malformed"
    BY DEF Trailing
  <1>1. MaxMalformed \in Nat /\ MaxMalformed >= 1
    BY LimitAssumption
  <1>2. ASSUME m + 1 >= MaxMalformed PROVE CutAt(t, n + 1)
    <2>1. n + 1 >= MaxMalformed
      BY <1>1, <1>2
    <2>2. ASSUME NEW j \in (n + 1 - MaxMalformed) + 1 .. n + 1 PROVE t[j].answer = "malformed"
      <3>1. CASE j = n + 1
        BY <3>1
      <3>2. CASE j # n + 1
        <4>1. j \in (n - m) + 1 .. n /\ j \in 1 .. n
          BY <1>1, <1>2, <2>1, <2>2, <3>2
        <4> QED
          BY <4>1
      <3> QED
        BY <3>1, <3>2
    <2> QED
      BY <1>1, <2>1, <2>2 DEF CutAt
  <1>3. ASSUME m + 1 < MaxMalformed, CutAt(t, n + 1) PROVE FALSE
    <2>1. n + 1 >= MaxMalformed
          /\ \A j \in (n + 1 - MaxMalformed) + 1 .. n + 1 : t[j].answer = "malformed"
      BY <1>1, <1>3 DEF CutAt
    <2>2. m < n /\ n - m \in 1 .. n /\ n - m \in (n + 1 - MaxMalformed) + 1 .. n + 1
      BY <1>1, <1>3, <2>1
    <2> QED
      BY <2>1, <2>2
  <1>4. Trailing(t, n + 1, m + 1)
    <2>1. ASSUME NEW j \in (n + 1 - (m + 1)) + 1 .. n + 1 PROVE t[j].answer = "malformed"
      <3>1. CASE j = n + 1
        BY <3>1
      <3>2. CASE j # n + 1
        <4>1. j \in (n - m) + 1 .. n /\ j \in 1 .. n
          BY <2>1, <3>2
        <4> QED
          BY <4>1
      <3> QED
        BY <3>1, <3>2
    <2>2. ASSUME m + 1 < n + 1 PROVE t[n + 1 - (m + 1)].answer # "malformed"
      <3>1. n + 1 - (m + 1) = n - m /\ n - m \in 1 .. n /\ m < n
        BY <2>2
      <3> QED
        BY <3>1
    <2> QED
      BY <2>1, <2>2 DEF Trailing
  <1> QED
    BY <1>1, <1>2, <1>3, <1>4

-----------------------------------------------------------------------------
(* A turn leaves a run sound.                                              *)

LEMMA Limits ==
    MaxMalformed \in Nat /\ MaxMalformed >= 1
  BY LimitAssumption

LEMMA RunFields ==
    ASSUME NEW r \in Run
    PROVE  /\ r.steps \in Seq(AStep) /\ r.head \in Result \union {""} /\ r.verified \in BOOLEAN
           /\ r.malformed \in Nat /\ r.termination \in Termination
           /\ r = [steps |-> r.steps, head |-> r.head, verified |-> r.verified,
                   malformed |-> r.malformed, termination |-> r.termination]
  BY DEF Run

\* q is r with one more step.
Steps(q, r, step) ==
    /\ q \in Run /\ step \in AStep
    /\ q.steps = Append(r.steps, step)
    /\ q.head = HeadOf(step.result)
    /\ q.verified <=> r.verified \/ Passed(step)
    /\ step.answer # "none" => q.malformed = IF step.answer = "malformed" THEN r.malformed + 1 ELSE 0
    /\ q.termination = "provider_error" <=> step.answer = "none"
    /\ q.termination = "escalated" <=> step.answer = "escalate"
    /\ q.termination = "finished" <=> step.answer = "finish" /\ r.verified
    /\ q.termination = "malformed_limit" <=>
         step.answer = "malformed" /\ r.malformed + 1 >= MaxMalformed
    /\ q.termination # "max_iterations"

\* The fields of a run that is made of them.
LEMMA RunMade ==
    ASSUME NEW s \in Seq(AStep), NEW head \in Result, NEW verified \in BOOLEAN,
           NEW malformed \in Nat, NEW end \in Termination,
           NEW q, q = [steps |-> s, head |-> head, verified |-> verified, malformed |-> malformed,
                       termination |-> end]
    PROVE  /\ q \in Run /\ q.steps = s /\ q.head = head /\ q.verified = verified
           /\ q.malformed = malformed /\ q.termination = end
  BY DEF Run

LEMMA StepKeeps ==
    ASSUME NEW limit \in Nat, NEW r, RunSound(r, limit), r.termination = "none",
           Len(r.steps) < limit, NEW q, NEW step, Steps(q, r, step)
    PROVE  RunSound(q, limit)
  <1>1. PICK s : s = r.steps
    OBVIOUS
  <1>2. PICK t : t = q.steps
    OBVIOUS
  <1>3. PICK n : n = Len(s)
    OBVIOUS
  <1>4. s \in Seq(AStep) /\ step \in AStep /\ t = Append(s, step) /\ r.malformed \in Nat
    BY <1>1, <1>2 DEF RunSound, Run, Steps
  <1>5. /\ t \in Seq(AStep) /\ n \in Nat /\ Len(t) = n + 1 /\ t[n + 1] = step
        /\ \A i \in 1 .. n : t[i] = s[i]
    BY ONLY <1>3, <1>4, Appended
  <1>6. /\ RaisedAt(t, n + 1) <=> step.answer = "none"
        /\ EscalatedAt(t, n + 1) <=> step.answer = "escalate"
        /\ FinishedAt(t, n + 1) <=> step.answer = "finish" /\ VerifiedBefore(s, n + 1)
        /\ CutAt(t, n + 1) => step.answer = "malformed"
        /\ VerifiedBefore(t, n + 2) <=> VerifiedBefore(s, n + 1) \/ Passed(step)
        /\ \A i \in 0 .. n : EndsAt(t, i) <=> EndsAt(s, i)
    BY <1>5, EndsAfter
  <1>7. r.verified <=> VerifiedBefore(s, n + 1)
    BY <1>1, <1>3 DEF RunSound
  <1>8. Trailing(s, n, r.malformed)
    BY <1>1, <1>3 DEF RunSound
  <1>9. \A i \in 1 .. n : ~EndsAt(s, i)
    <2>1. \A i \in 1 .. n - 1 : ~EndsAt(s, i)
      BY <1>1, <1>3 DEF RunSound, EndSound
    <2>2. ~EndsAt(s, n)
      BY <1>1, <1>3 DEF RunSound, EndSound, EndsAt
    <2>3. \A i \in 1 .. n : i \in 1 .. n - 1 \/ i = n
      BY <1>5
    <2> QED
      BY <2>1, <2>2, <2>3
  <1>10. q.head = HeadBefore(q.steps, Len(q.steps) + 1)
    <2>1. Len(t) + 1 # 1 /\ (Len(t) + 1) - 1 = n + 1
      BY <1>5
    <2>2. HeadBefore(t, Len(t) + 1) = HeadOf(step.result)
      BY <1>5, <2>1 DEF HeadBefore
    <2> QED
      BY <1>2, <2>2 DEF Steps
  <1>11. q.verified <=> VerifiedBefore(q.steps, Len(q.steps) + 1)
    <2>1. Len(t) + 1 = n + 2
      BY <1>5
    <2> QED
      BY <1>2, <1>6, <1>7, <2>1 DEF Steps
  <1>12. step.answer = "malformed" => /\ CutAt(t, n + 1) <=> r.malformed + 1 >= MaxMalformed
                                      /\ Trailing(t, n + 1, r.malformed + 1)
    BY <1>4, <1>5, <1>8, CutAfter
  <1>13. EndSound(q)
    <2>1. \A i \in 1 .. n : ~EndsAt(t, i)
      BY <1>5, <1>6, <1>9
    <2>2. /\ q.termination = "provider_error"  <=> RaisedAt(t, n + 1)
          /\ q.termination = "escalated"       <=> EscalatedAt(t, n + 1)
          /\ q.termination = "finished"        <=> FinishedAt(t, n + 1)
          /\ q.termination = "malformed_limit" <=> CutAt(t, n + 1)
      BY <1>6, <1>7, <1>12 DEF Steps
    <2>3. Len(t) = n + 1 /\ Len(t) - 1 = n
      BY <1>5
    <2> QED
      BY <1>2, <2>1, <2>2, <2>3 DEF EndSound
  <1>14. step.answer # "none" => Trailing(t, n + 1, q.malformed)
    <2>1. CASE step.answer = "malformed"
      BY <1>12, <2>1 DEF Steps
    <2>2. CASE step.answer \notin {"none", "malformed"}
      <3>1. q.malformed = 0
        BY <2>2 DEF Steps
      <3>2. Trailing(t, n + 1, 0)
        BY <1>5, <2>2 DEF Trailing
      <3> QED
        BY <3>1, <3>2
    <2> QED
      BY <2>1, <2>2
  <1>15. q \in Run /\ q.termination # "max_iterations" /\ Len(q.steps) <= limit
    BY <1>1, <1>2, <1>3, <1>5 DEF Steps
  <1>16. q.termination # "provider_error" => Trailing(q.steps, Len(q.steps), q.malformed)
    BY <1>2, <1>5, <1>14 DEF Steps
  <1> QED
    BY <1>10, <1>11, <1>13, <1>15, <1>16 DEF RunSound

\* Which step a turn is.
LEMMA TurnSteps ==
    ASSUME NEW limit, NEW r, RunSound(r, limit), r.termination = "none",
           NEW answer \in Answer, NEW result \in ResultsOf(answer)
    PROVE  \E step \in AStep : step.answer = answer /\ Steps(Turn(r, answer, result), r, step)
  <1>1. r \in Run
    BY DEF RunSound
  <1>2. MaxMalformed \in Nat /\ r.malformed \in Nat /\ r.malformed + 1 \in Nat
    <2>1. r.malformed \in Nat
      BY <1>1, RunFields
    <2> QED
      BY ONLY <2>1, Limits
  <1>3. CASE answer = "malformed"
    <2>1. PICK step : step = [answer |-> "malformed", result |-> "unparsed"]
      OBVIOUS
    <2>2. step \in AStep /\ step.answer = answer /\ HeadOf(step.result) = "unparsed" /\ ~Passed(step)
      BY <1>3, <2>1 DEF AStep, Answer, Result, HeadOf, Passed
    <2>3. PICK s : s = Append(r.steps, step)
      OBVIOUS
    <2>4. s \in Seq(AStep)
      BY ONLY <1>1, <2>2, <2>3, RunFields, Appended
    <2>5. PICK end : end = IF r.malformed + 1 >= MaxMalformed THEN "malformed_limit" ELSE "none"
      OBVIOUS
    <2>6. Turn(r, answer, result) =
            [steps |-> s, head |-> "unparsed", verified |-> r.verified,
             malformed |-> r.malformed + 1, termination |-> end]
      BY <1>1, <1>2, <1>3, <2>1, <2>2, <2>3, <2>5 DEF Run, Turn, Unparsed, Step, Ended
    <2> QED
      <3>1. r.verified \in BOOLEAN /\ "unparsed" \in Result
        BY <1>1, RunFields DEF Result
      <3>2. /\ end \in Termination \ {"max_iterations", "provider_error", "escalated", "finished"}
            /\ end = "malformed_limit" <=> r.malformed + 1 >= MaxMalformed
        BY <2>5 DEF Termination
      <3>3. Steps(Turn(r, answer, result), r, step)
        <4>1. PICK q : q = Turn(r, answer, result)
          OBVIOUS
        <4>2. /\ q \in Run /\ q.steps = s /\ q.head = "unparsed" /\ q.verified = r.verified
             /\ q.malformed = r.malformed + 1 /\ q.termination = end
          BY ONLY <1>2, <2>4, <2>6, <3>1, <3>2, <4>1, RunMade
        <4>3. Steps(q, r, step)
          BY <1>3, <2>2, <2>3, <3>2, <4>2 DEF Steps
        <4> QED
          BY <4>1, <4>3
      <3> QED
        BY <2>2, <3>3
  <1>4. CASE answer = "escalate"
    <2>1. PICK step : step = [answer |-> "escalate", result |-> "escalated"]
      OBVIOUS
    <2>2. step \in AStep /\ step.answer = answer /\ HeadOf(step.result) = "escalated" /\ ~Passed(step)
      BY <1>4, <2>1 DEF AStep, Answer, Result, HeadOf, Passed
    <2>3. PICK s : s = Append(r.steps, step)
      OBVIOUS
    <2>4. s \in Seq(AStep)
      BY ONLY <1>1, <2>2, <2>3, RunFields, Appended
    <2>5. Turn(r, answer, result) =
            [steps |-> s, head |-> "escalated", verified |-> r.verified,
             malformed |-> 0, termination |-> "escalated"]
      BY <1>1, <1>4, <2>1, <2>2, <2>3 DEF Run, Turn, Parsed, Step, Ended
    <2> QED
      <3>1. r.verified \in BOOLEAN /\ "escalated" \in Result
        BY <1>1, RunFields DEF Result
      <3>2. "escalated" \in Termination \ {"max_iterations"}
        BY DEF Termination
      <3>3. Steps(Turn(r, answer, result), r, step)
        <4>1. PICK q : q = Turn(r, answer, result)
          OBVIOUS
        <4>2. /\ q \in Run /\ q.steps = s /\ q.head = "escalated" /\ q.verified = r.verified
             /\ q.malformed = 0 /\ q.termination = "escalated"
          BY ONLY <2>4, <2>5, <3>1, <3>2, <4>1, RunMade
        <4>3. Steps(q, r, step)
          BY <1>4, <2>2, <2>3, <4>2 DEF Steps
        <4> QED
          BY <4>1, <4>3
      <3> QED
        BY <2>2, <3>3
  <1>5. CASE answer = "finish"
    <2>1. PICK out : out = IF r.verified THEN "finished" ELSE "refused"
      OBVIOUS
    <2>2. PICK step : step = [answer |-> "finish", result |-> out]
      OBVIOUS
    <2>3. step \in AStep /\ step.answer = answer /\ HeadOf(step.result) = out /\ ~Passed(step)
      BY <1>5, <2>1, <2>2 DEF AStep, Answer, Result, HeadOf, Passed
    <2>4. PICK s : s = Append(r.steps, step)
      OBVIOUS
    <2>5. s \in Seq(AStep)
      BY ONLY <1>1, <2>3, <2>4, RunFields, Appended
    <2>6. PICK end : end = IF r.verified THEN "finished" ELSE "none"
      OBVIOUS
    <2>7. Turn(r, answer, result) =
            [steps |-> s, head |-> out, verified |-> r.verified,
             malformed |-> 0, termination |-> end]
      BY <1>1, <1>5, <2>1, <2>2, <2>3, <2>4, <2>6 DEF Run, Turn, Finished, Parsed, Step, Ended
    <2> QED
      <3>1. r.verified \in BOOLEAN /\ out \in Result
        BY <1>1, <2>1, RunFields DEF Result
      <3>2. /\ end \in Termination \ {"max_iterations", "provider_error", "escalated",
                                        "malformed_limit"}
            /\ end = "finished" <=> r.verified
        BY <2>6 DEF Termination
      <3>3. Steps(Turn(r, answer, result), r, step)
        <4>1. PICK q : q = Turn(r, answer, result)
          OBVIOUS
        <4>2. /\ q \in Run /\ q.steps = s /\ q.head = out /\ q.verified = r.verified
             /\ q.malformed = 0 /\ q.termination = end
          BY ONLY <2>5, <2>7, <3>1, <3>2, <4>1, RunMade
        <4>3. Steps(q, r, step)
          BY <1>5, <2>3, <2>4, <3>2, <4>2 DEF Steps
        <4> QED
          BY <4>1, <4>3
      <3> QED
        BY <2>3, <3>3
  <1>6. CASE answer \in {"tests", "edit"}
    <2>1. PICK step : step = [answer |-> answer, result |-> result]
      OBVIOUS
    <2>2. result \in {"exit_0", "exit_1", "timed_out", "sandbox_error", "ok", "error"}
      BY <1>6 DEF ResultsOf
    <2>3. step \in AStep /\ step.answer = answer /\ step.result = result
      BY <1>6, <2>1, <2>2 DEF AStep, Answer, Result
    <2>4. PICK head : head = HeadOf(result)
      OBVIOUS
    <2>5. head \in Result
      BY <2>2, <2>4 DEF HeadOf, Result
    <2>6. PICK s : s = Append(r.steps, step)
      OBVIOUS
    <2>7. s \in Seq(AStep)
      BY ONLY <1>1, <2>3, <2>6, RunFields, Appended
    <2>8. PICK verified : verified = (r.verified \/ (answer = "tests" /\ result = "exit_0"))
      OBVIOUS
    <2>9. verified \in BOOLEAN /\ (verified <=> r.verified \/ Passed(step))
      BY <1>1, <2>3, <2>8 DEF Run, Passed
    <2>10. Turn(r, answer, result) =
             [steps |-> s, head |-> head, verified |-> verified,
              malformed |-> 0, termination |-> "none"]
      BY <1>1, <1>6, <2>1, <2>4, <2>6, <2>8 DEF Run, Turn, Observed, Parsed, Step
    <2> QED
      <3>1. "none" \in Termination \ {"max_iterations"}
        BY DEF Termination
      <3>2. Steps(Turn(r, answer, result), r, step)
        <4>1. /\ step.answer \notin {"none", "malformed", "escalate", "finish"}
              /\ HeadOf(step.result) = head
          BY <1>6, <2>3, <2>4
        <4> QED
          <5>1. PICK q : q = Turn(r, answer, result)
            OBVIOUS
          <5>2. /\ q \in Run /\ q.steps = s /\ q.head = head /\ q.verified = verified
               /\ q.malformed = 0 /\ q.termination = "none"
            BY ONLY <2>5, <2>7, <2>9, <2>10, <3>1, <5>1, RunMade
          <5>3. Steps(q, r, step)
            BY <2>3, <2>6, <2>9, <4>1, <5>2 DEF Steps
          <5> QED
            BY <5>1, <5>3
      <3> QED
        BY <2>3, <3>2
  <1> QED
    BY <1>3, <1>4, <1>5, <1>6 DEF Answer

LEMMA FailedSteps ==
    ASSUME NEW limit, NEW r, RunSound(r, limit), r.termination = "none"
    PROVE  \E step \in AStep : step.answer = "none" /\ Steps(Failed(r), r, step)
  <1>1. r \in Run
    BY DEF RunSound
  <1>2. PICK step : step = [answer |-> "none", result |-> "provider_error"]
    OBVIOUS
  <1>3. step \in AStep /\ step.answer = "none" /\ HeadOf(step.result) = "provider_error"
        /\ ~Passed(step)
    BY <1>2 DEF AStep, Result, HeadOf, Passed
  <1>4. PICK s : s = Append(r.steps, step)
    OBVIOUS
  <1>5. s \in Seq(AStep)
    BY ONLY <1>1, <1>3, <1>4, RunFields, Appended
  <1>6. Failed(r) = [steps |-> s, head |-> "provider_error", verified |-> r.verified,
                     malformed |-> r.malformed, termination |-> "provider_error"]
    <2>1. PICK q : q = [r EXCEPT !.steps = s, !.head = "provider_error"]
      OBVIOUS
    <2>2. Step(r, "none", "provider_error") = q
      BY <1>2, <1>4, <2>1 DEF Step, HeadOf
    <2>3. q = [steps |-> s, head |-> "provider_error", verified |-> r.verified,
               malformed |-> r.malformed, termination |-> r.termination]
      BY <1>1, <2>1 DEF Run
    <2>4. Failed(r) = [q EXCEPT !.termination = "provider_error"]
      BY <2>2 DEF Failed, Ended
    <2> QED
      BY ONLY <2>3, <2>4
  <1>7. /\ r.verified \in BOOLEAN /\ r.malformed \in Nat /\ "provider_error" \in Result
        /\ "provider_error" \in Termination \ {"max_iterations"}
    BY <1>1, RunFields DEF Result, Termination
  <1>8. Steps(Failed(r), r, step)
    <2>1. PICK q : q = Failed(r)
      OBVIOUS
    <2>2. /\ q \in Run /\ q.steps = s /\ q.head = "provider_error" /\ q.verified = r.verified
          /\ q.termination = "provider_error"
      BY ONLY <1>5, <1>6, <1>7, <2>1, RunMade
    <2>3. Steps(q, r, step)
      BY <1>3, <1>4, <2>2 DEF Steps
    <2> QED
      BY <2>1, <2>3
  <1> QED
    BY <1>3, <1>8

\* A run that is out of iterations has not ended by its last step.
LEMMA ExhaustedKeeps ==
    ASSUME NEW limit, NEW r, RunSound(r, limit), r.termination = "none", Len(r.steps) = limit,
           NEW q, q = Ended(r, "max_iterations")
    PROVE  RunSound(q, limit) /\ q.steps = r.steps /\ q.termination = "max_iterations"
  <1>1. r \in Run
    BY DEF RunSound
  <1>2. /\ q \in Run /\ q.steps = r.steps /\ q.termination = "max_iterations"
        /\ q.head = r.head /\ q.verified = r.verified /\ q.malformed = r.malformed
    BY <1>1 DEF Run, Ended, Termination
  <1>3. Trailing(q.steps, Len(q.steps), q.malformed)
    BY <1>2 DEF RunSound
  <1>4. EndSound(q)
    BY <1>2 DEF RunSound, EndSound
  <1> QED
    BY <1>2, <1>3, <1>4 DEF RunSound

LEMMA FreshSound ==
    ASSUME NEW limit \in Nat
    PROVE  RunSound(FreshRun, limit) /\ FreshRun.steps = <<>> /\ FreshRun.termination = "none"
  <1>1. FreshRun \in Run /\ FreshRun.steps = <<>> /\ Len(FreshRun.steps) = 0
        /\ FreshRun.termination = "none" /\ FreshRun.head = "" /\ FreshRun.verified = FALSE
        /\ FreshRun.malformed = 0
    BY DEF FreshRun, Run, Termination
  <1>2. PICK r : r = FreshRun
    OBVIOUS
  <1>3. Trailing(r.steps, Len(r.steps), r.malformed)
    <2>1. Len(r.steps) = 0 /\ r.malformed = 0
      BY ONLY <1>1, <1>2
    <2>2. Trailing(r.steps, 0, 0)
      BY ONLY DEF Trailing
    <2> QED
      BY ONLY <2>1, <2>2
  <1>4. EndSound(r)
    <2>1. Len(r.steps) = 0 /\ r.termination = "none"
      BY ONLY <1>1, <1>2
    <2>2. \A j \in 1 .. 0 - 1 : FALSE
      OBVIOUS
    <2>3. ~RaisedAt(r.steps, 0) /\ ~EscalatedAt(r.steps, 0) /\ ~FinishedAt(r.steps, 0)
      BY DEF RaisedAt, EscalatedAt, FinishedAt
    <2>4. ~CutAt(r.steps, 0)
      BY ONLY Limits DEF CutAt
    <2> QED
      BY ONLY <2>1, <2>2, <2>3, <2>4 DEF EndSound
  <1>5. r.head = HeadBefore(r.steps, Len(r.steps) + 1)
    <2>1. Len(r.steps) = 0 /\ r.head = ""
      BY ONLY <1>1, <1>2
    <2>2. HeadBefore(r.steps, 0 + 1) = ""
      BY ONLY DEF HeadBefore
    <2> QED
      BY ONLY <2>1, <2>2, Zenon
  <1>6. r.verified <=> VerifiedBefore(r.steps, Len(r.steps) + 1)
    <2>1. Len(r.steps) = 0 /\ r.verified = FALSE
      BY ONLY <1>1, <1>2
    <2>2. \A j \in 1 .. (0 + 1) - 1 : FALSE
      OBVIOUS
    <2> QED
      BY ONLY <2>1, <2>2 DEF VerifiedBefore
  <1>7. RunSound(r, limit)
    <2>1. /\ r \in Run /\ Len(r.steps) = 0 /\ r.termination = "none"
      BY ONLY <1>1, <1>2
    <2> QED
      BY <1>3, <1>4, <1>5, <1>6, <2>1 DEF RunSound
  <1> QED
    BY <1>1, <1>2, <1>7

-----------------------------------------------------------------------------
(* Recording.                                                              *)

LEMMA Configs ==
    ASSUME configs \in [record : Config, replay : Config]
    PROVE  /\ configs.record.iterations \in Nat /\ configs.replay.iterations \in Nat
           /\ configs.record.prompt \in Prompt /\ configs.record.sampling \in Sampling
  BY LimitAssumption DEF Config

LEMMA HeadsKept ==
    ASSUME NEW n \in Nat, NEW s, NEW t, \A i \in 1 .. n : t[i] = s[i]
    PROVE  \A i \in 1 .. n + 1 : HeadBefore(t, i) = HeadBefore(s, i)
  <1> SUFFICES ASSUME NEW i \in 1 .. n + 1 PROVE HeadBefore(t, i) = HeadBefore(s, i)
    OBVIOUS
  <1>1. i # 1 => i - 1 \in 1 .. n
    OBVIOUS
  <1> QED
    BY <1>1 DEF HeadBefore

\* An unfinished run has been answered call by call.
LEMMA Unfinished ==
    ASSUME NEW r, RecordSound(r), r.termination = "none"
    PROVE  /\ recording.error = NoError /\ Len(r.steps) = Len(recording.calls)
           /\ Len(recording.calls) \in Nat /\ r.steps \in Seq(AStep) /\ r \in Run
           /\ r.head = HeadBefore(r.steps, Len(recording.calls) + 1)
  <1>1. recording.error = NoError /\ Total = Len(recording.calls)
    <2>1. Len(recording.calls) \in Nat
      BY DEF RecordSound
    <2> QED
      BY <2>1 DEF RecordSound, Total
  <1>2. r \in Run /\ recording.calls \in Seq(Call) /\ Len(r.steps) = Total
    BY DEF RecordSound, RunSound
  <1>3. r.steps \in Seq(AStep) /\ Len(recording.calls) \in Nat
    <2>1. r.steps \in Seq(AStep)
      BY <1>2, RunFields
    <2>2. Len(recording.calls) \in Nat
      BY <1>2
    <2> QED
      BY <2>1, <2>2
  <1> QED
    BY <1>1, <1>2, <1>3 DEF RecordSound, RunSound

LEMMA RecordAnswerKeeps ==
    ASSUME ReplayInv, NEW answer \in Answer, NEW result \in ResultsOf(answer),
           RecordAnswer(answer, result)
    PROVE  ReplayInv'
  <1>1. /\ doing = "record" /\ run.termination = "none"
        /\ Len(run.steps) < configs.record.iterations
        /\ run' = Turn(run, answer, result)
        /\ UNCHANGED <<task, configs, doing, replayer, executed>>
    BY DEF RecordAnswer, Asking, Configured
  <1>2. /\ RecordSound(run) /\ configs \in [record : Config, replay : Config]
        /\ configs.record.iterations \in Nat
        /\ configs.record.prompt \in Prompt /\ configs.record.sampling \in Sampling
    BY <1>1, Configs DEF ReplayInv
  <1>3. PICK calls : calls = recording.calls
    OBVIOUS
  <1>4. PICK k : k = Len(calls)
    OBVIOUS
  <1>5. PICK call : call = [prefix |-> IF calls = <<>> THEN configs.record.prompt ELSE "unchecked",
                            head |-> run.head, sampling |-> configs.record.sampling,
                            content |-> answer]
    OBVIOUS
  <1>6. /\ recording.error = NoError /\ Len(run.steps) = k /\ k \in Nat
        /\ run.steps \in Seq(AStep) /\ run \in Run
        /\ run.head = HeadBefore(run.steps, k + 1)
    BY <1>1, <1>2, <1>3, <1>4, Unfinished
  <1>7. call \in Call
    <2>1. run.head \in Result \union {""}
      BY <1>6, RunFields
    <2>2. (IF calls = <<>> THEN configs.record.prompt ELSE "unchecked") \in Prompt \union {"unchecked"}
      BY <1>2
    <2> QED
      BY <1>2, <1>5, <2>1, <2>2 DEF Call
  <1>8. PICK more : more = Append(calls, call)
    OBVIOUS
  <1>9. recording' = [calls |-> more, error |-> NoError]
    <2>1. recording = [calls |-> calls, error |-> NoError]
      BY <1>2, <1>3, <1>6 DEF RecordSound
    <2> QED
      <3>1. recording' = [recording EXCEPT !.calls = more]
        BY <1>3, <1>5, <1>8 DEF RecordAnswer
      <3> QED
        BY <2>1, <3>1
  <1>10. /\ more \in Seq(Call) /\ Len(more) = k + 1 /\ more[k + 1] = call
         /\ \A i \in 1 .. k : more[i] = calls[i]
    BY <1>2, <1>3, <1>4, <1>7, <1>8, Appended DEF RecordSound
  <1>11. PICK step \in AStep : step.answer = answer /\ Steps(run', run, step)
    BY <1>1, <1>2, TurnSteps DEF RecordSound
  <1>12. RunSound(run', configs.record.iterations)
    BY <1>1, <1>2, <1>11, StepKeeps DEF RecordSound
  <1>13. /\ Len(run'.steps) = k + 1 /\ run'.steps[k + 1] = step
         /\ \A i \in 1 .. k : run'.steps[i] = run.steps[i]
    <2>1. run'.steps = Append(run.steps, step)
      BY <1>11 DEF Steps
    <2> QED
      BY <1>6, <2>1, Appended
  <1>14. \A i \in 1 .. k + 1 : HeadBefore(run'.steps, i) = HeadBefore(run.steps, i)
    <2>1. k \in Nat /\ \A i \in 1 .. k : run'.steps[i] = run.steps[i]
      BY <1>6, <1>13
    <2> QED
      BY ONLY <2>1, HeadsKept
  <1>15. ASSUME NEW i \in 1 .. k + 1
         PROVE  /\ more[i].content = run'.steps[i].answer
                /\ more[i].head = HeadBefore(run'.steps, i)
                /\ more[i].sampling = configs.record.sampling
                /\ more[i].prefix = IF i = 1 THEN configs.record.prompt ELSE "unchecked"
    <2>1. CASE i \in 1 .. k
      <3>1. CallSound(calls[i], run, i)
        BY <1>2, <1>3, <1>4, <2>1 DEF RecordSound
      <3> QED
        BY <1>10, <1>13, <1>14, <2>1, <3>1 DEF CallSound
    <2>2. CASE i = k + 1
      <3>1. calls = <<>> <=> i = 1
        BY <1>2, <1>3, <1>4, <1>6, <2>2 DEF RecordSound
      <3>2. /\ call.content = answer /\ call.head = run.head
            /\ call.sampling = configs.record.sampling
            /\ call.prefix = IF i = 1 THEN configs.record.prompt ELSE "unchecked"
        BY <1>5, <3>1
      <3>3. more[i] = call /\ run'.steps[i].answer = answer /\ HeadBefore(run'.steps, i) = run.head
        BY <1>6, <1>10, <1>11, <1>13, <1>14, <2>2
      <3> QED
        BY <3>2, <3>3
    <2> QED
      BY <1>6, <2>1, <2>2
  <1>16. RecordSound(run)'
    <2>1. /\ recording'.calls = more /\ recording'.error = NoError
      BY <1>9
    <2>2. Total' = k + 1
      BY <1>6, <1>10, <2>1 DEF Total
    <2>3. run'.termination # "provider_error"
      BY <1>11 DEF Steps, Answer
    <2>4. \A i \in 1 .. Len(more) : CallSound(more[i], run, i)'
      BY <1>1, <1>10, <1>15 DEF CallSound
    <2> QED
      BY <1>1, <1>9, <1>10, <1>12, <1>13, <2>1, <2>2, <2>3, <2>4 DEF RecordSound
  <1>17. VerdictsSound'
    BY <1>1 DEF ReplayInv, VerdictsSound, UndivergedReplaysEndAlike, FaithfulReplaysNeverDiverge,
                MatchesAreTheAgents, CallsAreAnswers
  <1> QED
    BY <1>1, <1>16, <1>17 DEF ReplayInv

\* A head that was seen is no sign of a missing error.
LEMMA ErrorsShow ==
    ASSUME NEW head \in Result \union {""}
    PROVE  [head |-> head] # NoError
  BY DEF NoError, Result

LEMMA RecordFailsKeeps ==
    ASSUME ReplayInv, NEW exc, RecordFails(exc)
    PROVE  ReplayInv'
  <1>1. /\ doing = "record" /\ run.termination = "none"
        /\ Len(run.steps) < configs.record.iterations
        /\ UNCHANGED <<task, configs, doing, replayer, executed>>
    BY DEF RecordFails, Asking, Configured
  <1>2. /\ RecordSound(run) /\ configs \in [record : Config, replay : Config]
        /\ configs.record.iterations \in Nat
    BY <1>1, Configs DEF ReplayInv
  <1>3. VerdictsSound'
    BY <1>1 DEF ReplayInv, VerdictsSound, UndivergedReplaysEndAlike, FaithfulReplaysNeverDiverge,
                MatchesAreTheAgents, CallsAreAnswers
  <1>4. CASE UNCHANGED <<run, recording>>
    <2>1. RecordSound(run)'
      BY <1>1, <1>2, <1>4 DEF RecordSound, CallSound, Total
    <2> QED
      BY <1>1, <1>3, <2>1 DEF ReplayInv
  <1>5. CASE recording' = [recording EXCEPT !.error = [head |-> run.head]] /\ run' = Failed(run)
    <2>1. PICK calls : calls = recording.calls
      OBVIOUS
    <2>2. PICK k : k = Len(calls)
      OBVIOUS
    <2>3. /\ recording.error = NoError /\ Len(run.steps) = k /\ k \in Nat
          /\ run.steps \in Seq(AStep) /\ run \in Run
          /\ run.head = HeadBefore(run.steps, k + 1)
      BY <1>1, <1>2, <2>1, <2>2, Unfinished
    <2>4. PICK error : error = [head |-> run.head]
      OBVIOUS
    <2>5. error # NoError
      BY <2>3, <2>4, ErrorsShow, RunFields
    <2>6. recording' = [calls |-> calls, error |-> error]
      <3>1. recording = [calls |-> calls, error |-> NoError]
        BY <1>2, <2>1, <2>3 DEF RecordSound
      <3> QED
        BY <1>5, <2>4, <3>1
    <2>7. PICK step \in AStep : step.answer = "none" /\ Steps(run', run, step)
      BY <1>1, <1>2, <1>5, FailedSteps DEF RecordSound
    <2>8. RunSound(run', configs.record.iterations)
      BY <1>1, <1>2, <2>7, StepKeeps DEF RecordSound
    <2>9. /\ Len(run'.steps) = k + 1 /\ \A i \in 1 .. k : run'.steps[i] = run.steps[i]
      <3>1. run'.steps = Append(run.steps, step)
        BY <2>7 DEF Steps
      <3> QED
        BY <2>3, <3>1, Appended
    <2>10. \A i \in 1 .. k + 1 : HeadBefore(run'.steps, i) = HeadBefore(run.steps, i)
      <3>1. k \in Nat /\ \A i \in 1 .. k : run'.steps[i] = run.steps[i]
        BY <2>3, <2>9
      <3> QED
        BY ONLY <3>1, HeadsKept
    <2>11. ASSUME NEW i \in 1 .. k PROVE CallSound(calls[i], run, i)'
      <3>1. CallSound(calls[i], run, i)
        BY <1>2, <2>1, <2>2 DEF RecordSound
      <3> QED
        BY <1>1, <2>3, <2>6, <2>9, <2>10, <3>1 DEF CallSound
    <2>12. RecordSound(run)'
      <3>1. recording'.calls = calls /\ recording'.error = error /\ calls \in Seq(Call)
        BY <1>2, <2>1, <2>6 DEF RecordSound
      <3>2. Total' = k + 1
        BY <2>2, <2>3, <2>5, <3>1 DEF Total
      <3>3. run'.termination = "provider_error"
        BY <2>7 DEF Steps
      <3>4. error = [head |-> HeadBefore(run'.steps, k + 1)]
        BY <2>3, <2>4, <2>10
      <3> QED
        BY <1>1, <2>2, <2>5, <2>6, <2>8, <2>9, <2>11, <3>1, <3>2, <3>3, <3>4 DEF RecordSound
    <2> QED
      BY <1>1, <1>3, <2>12 DEF ReplayInv
  <1> QED
    BY <1>4, <1>5 DEF RecordFails

-----------------------------------------------------------------------------
(* Replaying.                                                              *)

\* What a recording says of the run it was made of.
LEMMA Recorded1 ==
    ASSUME NEW source, RecordSound(source)
    PROVE  /\ source \in Run /\ source.steps \in Seq(AStep) /\ Len(source.steps) = Total
           /\ Len(recording.calls) \in Nat /\ Total \in Nat
           /\ Total = Len(recording.calls) \/ Total = Len(recording.calls) + 1
           /\ Total = Len(recording.calls) + 1 <=> recording.error # NoError
           /\ Total = Len(recording.calls) + 1 => source.steps[Total].answer = "none"
           /\ \A i \in 1 .. Len(recording.calls) :
                source.steps[i].answer = recording.calls[i].content /\ source.steps[i].answer \in Answer
  <1>1. /\ recording.calls \in Seq(Call) /\ source \in Run /\ Len(source.steps) = Total
        /\ source.termination = "provider_error" <=> recording.error # NoError
        /\ source.termination = "provider_error" <=> RaisedAt(source.steps, Len(source.steps))
    BY DEF RecordSound, RunSound, EndSound
  <1>2. Len(recording.calls) \in Nat
    BY <1>1
  <1>3. source.steps \in Seq(AStep)
    BY <1>1, RunFields
  <1>4. /\ Total \in Nat
        /\ Total = Len(recording.calls) \/ Total = Len(recording.calls) + 1
        /\ Total = Len(recording.calls) + 1 <=> recording.error # NoError
    <2>1. CASE recording.error # NoError
      <3>1. Total = Len(recording.calls) + 1
        BY <2>1 DEF Total
      <3> QED
        BY <1>2, <2>1, <3>1
    <2>2. CASE recording.error = NoError
      <3>1. Total = Len(recording.calls) + 0
        BY <2>2 DEF Total
      <3>2. Total = Len(recording.calls)
        BY <1>2, <3>1
      <3> QED
        BY <1>2, <2>2, <3>2
    <2> QED
      BY <2>1, <2>2
  <1>5. Total = Len(recording.calls) + 1 => source.steps[Total].answer = "none"
    BY <1>1, <1>4 DEF RaisedAt
  <1>6. ASSUME NEW i \in 1 .. Len(recording.calls)
        PROVE  /\ source.steps[i].answer = recording.calls[i].content
               /\ source.steps[i].answer \in Answer
    <2>1. recording.calls[i] \in Call
      BY <1>1, <1>6
    <2>2. CallSound(recording.calls[i], source, i)
      BY DEF RecordSound
    <2> QED
      BY <2>1, <2>2 DEF CallSound, Call
  <1> QED
    BY <1>1, <1>2, <1>3, <1>4, <1>5, <1>6

\* A run that has not ended has no step without an answer.
LEMMA AllAnswered ==
    ASSUME NEW limit, NEW r, RunSound(r, limit), r.termination # "provider_error"
    PROVE  /\ r.steps \in Seq(AStep) /\ Len(r.steps) \in Nat
           /\ \A i \in 1 .. Len(r.steps) : r.steps[i].answer # "none"
  <1>1. r \in Run
    BY DEF RunSound
  <1>2. r.steps \in Seq(AStep)
    BY <1>1, RunFields
  <1>3. Len(r.steps) \in Nat
    BY <1>2
  <1>4. ASSUME NEW i \in 1 .. Len(r.steps) PROVE r.steps[i].answer # "none"
    <2>1. CASE i = Len(r.steps)
      BY <1>3, <2>1 DEF RunSound, EndSound, RaisedAt
    <2>2. CASE i # Len(r.steps)
      <3>1. i \in 1 .. Len(r.steps) - 1 /\ i > 0
        BY <1>3, <1>4, <2>2
      <3>2. ~EndsAt(r.steps, i)
        BY <3>1 DEF RunSound, EndSound
      <3> QED
        BY <3>1, <3>2 DEF EndsAt, RaisedAt
    <2> QED
      BY <2>1, <2>2
  <1> QED
    BY <1>2, <1>3, <1>4

\* A replay that may ask has diverged in nothing, and the failure is still ahead.
LEMMA MayAsk ==
    ASSUME NEW r, NEW source, RecordSound(source), ReplaySound(r, source), r.termination = "none"
    PROVE  /\ replayer.divergence = "none" /\ Len(r.steps) = replayer.cursor
           /\ replayer.cursor \in 0 .. Len(recording.calls)
           /\ r.steps \in Seq(AStep) /\ r \in Run
           /\ r.head = HeadBefore(r.steps, replayer.cursor + 1)
           /\ \A i \in 1 .. replayer.cursor : r.steps[i].answer # "none"
  <1>1. PICK c : c = replayer.cursor
    OBVIOUS
  <1>2. /\ replayer.divergence = "none" /\ Len(r.steps) = c /\ c \in 0 .. Total
        /\ \A i \in 1 .. c : r.steps[i].answer = source.steps[i].answer
    BY <1>1 DEF ReplaySound
  <1>3. RunSound(r, configs.replay.iterations)
    BY DEF ReplaySound
  <1>4. r.steps \in Seq(AStep) /\ \A i \in 1 .. c : r.steps[i].answer # "none"
    BY <1>2, <1>3, AllAnswered
  <1>5. c \in 0 .. Len(recording.calls)
    <2>1. /\ Len(recording.calls) \in Nat /\ Total \in Nat
          /\ Total = Len(recording.calls) \/ Total = Len(recording.calls) + 1
          /\ Total = Len(recording.calls) + 1 => source.steps[Total].answer = "none"
      BY Recorded1
    <2>2. ASSUME c = Len(recording.calls) + 1 PROVE FALSE
      <3>1. c = Total /\ c \in 1 .. c
        BY <1>2, <2>1, <2>2
      <3> QED
        BY <1>2, <1>4, <2>1, <2>2, <3>1
    <2> QED
      BY <1>2, <2>1, <2>2
  <1>6. r \in Run /\ r.head = HeadBefore(r.steps, c + 1)
    BY <1>2, <1>3 DEF RunSound
  <1> QED
    BY <1>1, <1>2, <1>4, <1>5, <1>6

\* Another step as recorded, after the same was observed of the one before.
LEMMA ServedKeeps ==
    ASSUME ReplayInv, NEW source, RecordSound(source), ReplaySound(run, source),
           run.termination = "none", Len(run.steps) < configs.replay.iterations,
           NEW step \in AStep, Steps(run', run, step),
           UNCHANGED <<configs, recording>>,
           replayer' = [replayer EXCEPT !.cursor = @ + 1],
           replayer.cursor + 1 <= Total,
           step.answer = source.steps[replayer.cursor + 1].answer,
           run.head = HeadBefore(source.steps, replayer.cursor + 1)
    PROVE  ReplaySound(run, source)'
  <1>1. PICK c : c = replayer.cursor
    OBVIOUS
  <1>2. /\ replayer.divergence = "none" /\ Len(run.steps) = c /\ c \in Nat
        /\ run.steps \in Seq(AStep) /\ run.head = HeadBefore(run.steps, c + 1)
    <2>1. c \in 0 .. Len(recording.calls)
      BY <1>1, MayAsk
    <2>2. Len(recording.calls) \in Nat
      BY Recorded1
    <2> QED
      BY <1>1, <2>1, <2>2, MayAsk
  <1>3. RunSound(run, configs.replay.iterations) /\ configs.replay.iterations \in Nat
    BY Configs DEF ReplaySound, ReplayInv
  <1>4. RunSound(run', configs.replay.iterations)
    BY <1>3, StepKeeps
  <1>5. /\ Len(run'.steps) = c + 1 /\ run'.steps[c + 1] = step
        /\ \A i \in 1 .. c : run'.steps[i] = run.steps[i]
    <2>1. run'.steps = Append(run.steps, step)
      BY DEF Steps
    <2> QED
      BY <1>2, <2>1, Appended
  <1>6. replayer' = [cursor |-> c + 1, divergence |-> "none"]
    <2>1. replayer = [cursor |-> c, divergence |-> "none"]
      BY <1>1, <1>2 DEF ReplaySound
    <2> QED
      BY <2>1
  <1>7. Total' = Total /\ Total \in Nat
    BY Recorded1 DEF Total
  <1>8. ASSUME NEW i \in 1 .. c + 1 PROVE run'.steps[i].answer = source.steps[i].answer
    <2>1. CASE i \in 1 .. c
      BY <1>1, <1>5, <2>1 DEF ReplaySound
    <2>2. CASE i = c + 1
      BY <1>1, <1>5, <2>2
    <2> QED
      BY <1>2, <2>1, <2>2
  <1>9. ASSUME NEW i \in 1 .. c
        PROVE  HeadOf(run'.steps[i].result) = HeadOf(source.steps[i].result)
    <2>1. CASE i \in 1 .. c - 1
      BY <1>1, <1>2, <1>5, <2>1 DEF ReplaySound
    <2>2. CASE i = c
      <3>1. c + 1 # 1 /\ (c + 1) - 1 = c
        BY <1>2, <1>9, <2>2
      <3>2. HeadOf(run.steps[c].result) = HeadOf(source.steps[c].result)
        BY <1>1, <1>2, <3>1 DEF HeadBefore
      <3> QED
        BY <1>5, <1>9, <2>2, <3>2
    <2> QED
      BY <1>2, <2>1, <2>2
  <1>10. (c + 1) - 1 = c /\ c + 1 \in 0 .. Total
    BY <1>1, <1>2, <1>7
  <1>11. replayer'.cursor = c + 1 /\ replayer'.divergence = "none"
    BY <1>6
  <1>12. source.termination # "none"
    BY DEF ReplaySound
  <1> QED
    BY <1>4, <1>5, <1>6, <1>7, <1>8, <1>9, <1>10, <1>11, <1>12 DEF ReplaySound

\* As long as nothing differs, nothing strays.
LEMMA NothingStrays ==
    ASSUME NEW source, RecordSound(source), ReplaySound(run, source), run.termination = "none",
           Len(run.steps) < configs.replay.iterations, configs.record = configs.replay,
           ~Differs(run, source)
    PROVE  ~Strays
  <1>1. PICK c : c = replayer.cursor
    OBVIOUS
  <1>2. PICK k : k = Len(recording.calls)
    OBVIOUS
  <1>3. /\ Len(run.steps) = c /\ c \in 0 .. k /\ run.head = HeadBefore(run.steps, c + 1)
        /\ \A i \in 1 .. c : run.steps[i].answer # "none"
    BY <1>1, <1>2, MayAsk
  <1>4. k \in Nat /\ c \in Nat /\ c <= k
    <2>1. k \in Nat
      BY <1>2, Recorded1
    <2> QED
      BY <1>3, <2>1
  <1>5. ASSUME NEW i \in 1 .. c PROVE run.steps[i] = source.steps[i]
    <2>1. i \in 1 .. Len(run.steps) /\ run.steps[i].answer # "none"
      BY <1>3, <1>5
    <2> QED
      BY <2>1 DEF Differs
  <1>6. HeadBefore(source.steps, c + 1) = run.head
    <2>1. \A i \in 1 .. c : source.steps[i] = run.steps[i]
      BY <1>5
    <2>2. \A i \in 1 .. c + 1 : HeadBefore(source.steps, i) = HeadBefore(run.steps, i)
      BY ONLY <1>4, <2>1, HeadsKept
    <2>3. c + 1 \in 1 .. c + 1
      BY <1>4
    <2> QED
      BY <1>3, <2>2, <2>3
  <1>7. CASE AtTheError
    <2>1. recording.error.head = run.head
      <3>1. recording.error = [head |-> HeadBefore(source.steps, k + 1)] /\ c = k
        BY <1>1, <1>2, <1>7 DEF AtTheError, RecordSound
      <3> QED
        BY <1>6, <3>1
    <2> QED
      BY <1>7, <2>1 DEF Strays
  <1>8. CASE c < k
    <2>1. CallSound(recording.calls[c + 1], source, c + 1)
      BY <1>2, <1>4, <1>8 DEF RecordSound
    <2>2. ~AtTheError
      BY <1>1, <1>2, <1>4, <1>8 DEF AtTheError
    <2>3. /\ recording.calls[c + 1].head = run.head
          /\ recording.calls[c + 1].sampling = configs.replay.sampling
          /\ recording.calls[c + 1].prefix \in {"unchecked", configs.replay.prompt}
      BY <1>6, <2>1 DEF CallSound
    <2> QED
      BY <1>1, <1>2, <1>8, <2>2, <2>3 DEF Strays
  <1>9. CASE c = k /\ recording.error = NoError
    <2>1. Len(source.steps) = c
      <3>1. /\ Len(source.steps) = Total
            /\ Total = k \/ Total = k + 1
            /\ Total = k + 1 <=> recording.error # NoError
        BY <1>2, Recorded1
      <3> QED
        BY <1>9, <3>1
    <2>2. /\ EscalatedAt(run.steps, c) <=> EscalatedAt(source.steps, c)
          /\ FinishedAt(run.steps, c) <=> FinishedAt(source.steps, c)
          /\ CutAt(run.steps, c) <=> CutAt(source.steps, c)
      <3>1. \A j \in 1 .. c : run.steps[j].answer = source.steps[j].answer
        BY <1>5
      <3>2. \A j \in 1 .. c - 1 : Passed(run.steps[j]) <=> Passed(source.steps[j])
        BY <1>4, <1>5
      <3> QED
        BY ONLY <1>4, <3>1, <3>2, SameEnds
    <2>3. EndSound(run) /\ EndSound(source)
      BY DEF ReplaySound, RecordSound, RunSound
    <2>4. /\ source.termination = "escalated" <=> run.termination = "escalated"
          /\ source.termination = "finished" <=> run.termination = "finished"
          /\ source.termination = "malformed_limit" <=> run.termination = "malformed_limit"
      BY <1>3, <2>1, <2>2, <2>3 DEF EndSound
    <2>5. source.termination \in {"none", "provider_error", "max_iterations"}
      <3>1. source.termination \in Termination
        BY Recorded1, RunFields
      <3> QED
        BY <2>4, <3>1 DEF Termination
    <2>6. source.termination # "none" /\ source.termination # "provider_error"
      BY <1>9 DEF ReplaySound, RecordSound
    <2>7. Len(source.steps) = configs.record.iterations
      BY <2>5, <2>6 DEF RecordSound, RunSound
    <2>8. configs.replay.iterations = c
      BY <2>1, <2>7
    <2>9. ~(c < c)
      BY <1>4
    <2> QED
      BY <1>3, <2>8, <2>9
  <1> QED
    BY <1>1, <1>2, <1>4, <1>7, <1>8, <1>9 DEF AtTheError

\* The recorded run is the first executed, and the replay the one in progress.
LEMMA Replaying ==
    ASSUME ReplayInv, doing = "replay"
    PROVE  /\ RecordSound(executed[1].run) /\ ReplaySound(run, executed[1].run)
           /\ configs \in [record : Config, replay : Config]
  BY DEF ReplayInv

\* A step of the replay that ends nothing.
LEMMA ReplayMoves ==
    ASSUME ReplayInv, doing = "replay", UNCHANGED <<task, configs, doing, recording, executed>>,
           ReplaySound(run, executed[1].run)'
    PROVE  ReplayInv'
  <1>1. RecordSound(executed[1].run)'
    BY Replaying DEF RecordSound, CallSound, Total
  <1>2. VerdictsSound'
    BY DEF ReplayInv, VerdictsSound, UndivergedReplaysEndAlike, FaithfulReplaysNeverDiverge,
           MatchesAreTheAgents, CallsAreAnswers
  <1> QED
    BY <1>1, <1>2 DEF ReplayInv

LEMMA DivergeKeeps ==
    ASSUME ReplayInv, Diverge
    PROVE  ReplayInv'
  <1>1. /\ doing = "replay" /\ run.termination = "none" /\ Strays
        /\ Len(run.steps) < configs.replay.iterations
        /\ replayer' = [replayer EXCEPT !.divergence = "strayed"]
        /\ run' = Failed(run)
        /\ UNCHANGED <<task, configs, doing, recording, executed>>
    BY DEF Diverge, Asking, Configured
  <1>2. PICK source : source = executed[1].run
    OBVIOUS
  <1>3. RecordSound(source) /\ ReplaySound(run, source) /\ configs.replay.iterations \in Nat
    BY <1>1, <1>2, Replaying, Configs
  <1>4. PICK c : c = replayer.cursor
    OBVIOUS
  <1>5. /\ replayer.divergence = "none" /\ Len(run.steps) = c /\ c \in 0 .. Len(recording.calls)
        /\ run.steps \in Seq(AStep)
    BY <1>1, <1>3, <1>4, MayAsk
  <1>6. Len(recording.calls) \in Nat /\ c \in Nat /\ c <= Len(recording.calls)
    <2>1. Len(recording.calls) \in Nat
      BY <1>3, Recorded1
    <2> QED
      BY <1>5, <2>1
  <1>7. PICK step \in AStep : step.answer = "none" /\ Steps(run', run, step)
    BY <1>1, <1>3, FailedSteps DEF ReplaySound
  <1>8. RunSound(run', configs.replay.iterations)
    BY <1>1, <1>3, <1>7, StepKeeps DEF ReplaySound
  <1>9. Len(run'.steps) = c + 1 /\ \A i \in 1 .. c : run'.steps[i] = run.steps[i]
    <2>1. run'.steps = Append(run.steps, step)
      BY <1>7 DEF Steps
    <2> QED
      BY <1>5, <2>1, Appended
  <1>10. replayer' = [cursor |-> c, divergence |-> "strayed"]
    <2>1. replayer = [cursor |-> c, divergence |-> "none"]
      BY <1>3, <1>4, <1>5 DEF ReplaySound
    <2> QED
      BY <1>1, <2>1
  <1>11. replayer'.cursor = c /\ replayer'.divergence = "strayed" /\ Total' = Total
    BY <1>1, <1>10 DEF Total
  <1>12. ASSUME configs.record = configs.replay PROVE Differs(run', source)
    <2>1. Differs(run, source)
      BY <1>1, <1>3, <1>12, NothingStrays
    <2>2. PICK i \in 1 .. c : /\ run.steps[i].answer # "none"
                              /\ i \leq Len(source.steps) => run.steps[i] # source.steps[i]
      BY <1>5, <2>1 DEF Differs
    <2>3. i \in 1 .. c + 1 /\ run'.steps[i] = run.steps[i]
      BY <1>6, <1>9
    <2> QED
      BY <1>9, <2>2, <2>3 DEF Differs
  <1>13. /\ \A i \in 1 .. c : run'.steps[i].answer = source.steps[i].answer
         /\ \A i \in 1 .. c - 1 : HeadOf(run'.steps[i].result) = HeadOf(source.steps[i].result)
    <2>1. \A i \in 1 .. c : run.steps[i].answer = source.steps[i].answer
      BY <1>3, <1>4 DEF ReplaySound
    <2>2. \A i \in 1 .. c - 1 : HeadOf(run.steps[i].result) = HeadOf(source.steps[i].result)
      BY <1>3, <1>4 DEF ReplaySound
    <2>3. \A i \in 1 .. c - 1 : i \in 1 .. c
      BY <1>6
    <2> QED
      BY <1>9, <2>1, <2>2, <2>3
  <1>14. run'.termination = "provider_error"
    BY <1>7 DEF Steps
  <1>15. source.termination # "none" /\ c \in 0 .. Total
    BY <1>3, <1>4 DEF ReplaySound
  <1>16. ReplaySound(run, source)'
    BY <1>1, <1>6, <1>8, <1>9, <1>10, <1>11, <1>12, <1>13, <1>14, <1>15 DEF ReplaySound
  <1>17. executed'[1].run = source
    BY <1>1, <1>2
  <1> QED
    BY <1>1, <1>16, <1>17, ReplayMoves

LEMMA ReplayErrorKeeps ==
    ASSUME ReplayInv, ReplayError
    PROVE  ReplayInv'
  <1>1. /\ doing = "replay" /\ run.termination = "none" /\ ~Strays /\ AtTheError
        /\ Len(run.steps) < configs.replay.iterations
        /\ replayer' = [replayer EXCEPT !.cursor = @ + 1]
        /\ run' = Failed(run)
        /\ UNCHANGED <<task, configs, doing, recording, executed>>
    BY DEF ReplayError, Asking, Configured
  <1>2. PICK source : source = executed[1].run
    OBVIOUS
  <1>3. RecordSound(source) /\ ReplaySound(run, source)
    BY <1>1, <1>2, Replaying
  <1>4. PICK k : k = Len(recording.calls)
    OBVIOUS
  <1>5. replayer.cursor = k /\ recording.error # NoError /\ run.head = recording.error.head
    BY <1>1, <1>4 DEF AtTheError, Strays
  <1>6. k \in Nat /\ Total = k + 1 /\ source.steps[Total].answer = "none"
    BY <1>3, <1>4, <1>5, Recorded1
  <1>7. run.head = HeadBefore(source.steps, k + 1)
    <2>1. recording.error = [head |-> HeadBefore(source.steps, k + 1)]
      BY <1>3, <1>4, <1>5 DEF RecordSound
    <2> QED
      BY <1>5, <2>1
  <1>8. PICK step \in AStep : step.answer = "none" /\ Steps(run', run, step)
    BY <1>1, <1>3, FailedSteps DEF ReplaySound
  <1>9. replayer.cursor + 1 <= Total /\ step.answer = source.steps[replayer.cursor + 1].answer
    BY <1>5, <1>6, <1>8
  <1>10. ReplaySound(run, source)'
    BY <1>1, <1>3, <1>5, <1>7, <1>8, <1>9, ServedKeeps
  <1>11. executed'[1].run = source
    BY <1>1, <1>2
  <1> QED
    BY <1>1, <1>10, <1>11, ReplayMoves

LEMMA ReplayAnswerKeeps ==
    ASSUME ReplayInv, NEW result, ReplayAnswer(result)
    PROVE  ReplayInv'
  <1>1. PICK c : c = replayer.cursor
    OBVIOUS
  <1>2. PICK call : call = recording.calls[c + 1]
    OBVIOUS
  <1>3. /\ doing = "replay" /\ run.termination = "none" /\ ~Strays /\ ~AtTheError
        /\ Len(run.steps) < configs.replay.iterations
        /\ replayer' = [replayer EXCEPT !.cursor = @ + 1]
        /\ result \in ResultsOf(call.content) /\ run' = Turn(run, call.content, result)
        /\ UNCHANGED <<task, configs, doing, recording, executed>>
    BY <1>1, <1>2 DEF ReplayAnswer, Asking, Configured
  <1>4. PICK source : source = executed[1].run
    OBVIOUS
  <1>5. RecordSound(source) /\ ReplaySound(run, source)
    BY <1>3, <1>4, Replaying
  <1>6. PICK k : k = Len(recording.calls)
    OBVIOUS
  <1>7. k \in Nat /\ c \in 0 .. k /\ (Total = k \/ Total = k + 1)
    BY <1>1, <1>3, <1>5, <1>6, MayAsk, Recorded1
  <1>8. c < k /\ call.head = run.head
    BY <1>1, <1>2, <1>3, <1>6, <1>7 DEF Strays
  <1>9. c + 1 \in 1 .. k /\ c + 1 <= Total
    BY <1>7, <1>8
  <1>10. /\ source.steps[c + 1].answer = call.content /\ call.content \in Answer
    BY <1>2, <1>5, <1>6, <1>9, Recorded1
  <1>11. run.head = HeadBefore(source.steps, c + 1)
    <2>1. CallSound(call, source, c + 1)
      BY <1>2, <1>5, <1>6, <1>9 DEF RecordSound
    <2> QED
      BY <1>8, <2>1 DEF CallSound
  <1>12. PICK step \in AStep : step.answer = call.content /\ Steps(run', run, step)
    BY <1>3, <1>5, <1>10, TurnSteps DEF ReplaySound
  <1>13. ReplaySound(run, source)'
    BY <1>1, <1>3, <1>5, <1>9, <1>10, <1>11, <1>12, ServedKeeps
  <1>14. executed'[1].run = source
    BY <1>3, <1>4
  <1> QED
    BY <1>3, <1>13, <1>14, ReplayMoves

-----------------------------------------------------------------------------
(* The iterations run out.                                                 *)

LEMMA ExhaustedInRecord ==
    ASSUME ReplayInv, Exhausted, doing = "record"
    PROVE  ReplayInv'
  <1>1. /\ run.termination = "none" /\ Len(run.steps) = configs.record.iterations
        /\ run' = Ended(run, "max_iterations")
        /\ UNCHANGED <<task, configs, doing, recording, replayer, executed>>
    BY DEF Exhausted, Configured
  <1>2. RecordSound(run) /\ configs.record.iterations \in Nat
    BY Configs DEF ReplayInv
  <1>3. /\ RunSound(run', configs.record.iterations)
        /\ run'.steps = run.steps /\ run'.termination = "max_iterations"
    <2>1. RunSound(run, configs.record.iterations)
      BY <1>2 DEF RecordSound
    <2> QED
      BY ONLY <1>1, <2>1, ExhaustedKeeps
  <1>4. recording.error = NoError
    BY <1>1, <1>2, Unfinished
  <1>5. RecordSound(run)'
    BY <1>1, <1>2, <1>3, <1>4 DEF RecordSound, CallSound, Total
  <1>6. VerdictsSound'
    BY <1>1 DEF ReplayInv, VerdictsSound, UndivergedReplaysEndAlike, FaithfulReplaysNeverDiverge,
                MatchesAreTheAgents, CallsAreAnswers
  <1> QED
    BY <1>1, <1>5, <1>6 DEF ReplayInv

LEMMA ExhaustedInReplay ==
    ASSUME ReplayInv, Exhausted, doing = "replay"
    PROVE  ReplayInv'
  <1>1. /\ run.termination = "none" /\ Len(run.steps) = configs.replay.iterations
        /\ run' = Ended(run, "max_iterations")
        /\ UNCHANGED <<task, configs, doing, recording, replayer, executed>>
    BY DEF Exhausted, Configured
  <1>2. PICK source : source = executed[1].run
    OBVIOUS
  <1>3. RecordSound(source) /\ ReplaySound(run, source) /\ configs.replay.iterations \in Nat
    BY <1>2, Replaying, Configs
  <1>4. /\ RunSound(run', configs.replay.iterations)
        /\ run'.steps = run.steps /\ run'.termination = "max_iterations"
    <2>1. RunSound(run, configs.replay.iterations)
      BY <1>3 DEF ReplaySound
    <2> QED
      BY ONLY <1>1, <2>1, ExhaustedKeeps
  <1>5. replayer.divergence = "none"
    BY <1>1, <1>3, MayAsk
  <1>6. ReplaySound(run, source)'
    BY <1>1, <1>3, <1>4, <1>5 DEF ReplaySound, Total
  <1>7. executed'[1].run = source
    BY <1>1, <1>2
  <1> QED
    BY <1>1, <1>6, <1>7, ReplayMoves

-----------------------------------------------------------------------------
(* The end of a run.                                                       *)

LEMMA Tasks ==
    ASSUME task \in Task
    PROVE  /\ task.expected \in {"solve", "escalate", "fail"}
           /\ task.expected = "fail" => task.kind = "benchmark"
  BY DEF Task

\* What is classified, and what a match says of it.
LEMMA Classified ==
    ASSUME task \in Task, NEW r, NEW hidden, NEW intact, NEW divergence, NEW answered,
           NEW e, e = Execution(r, hidden, intact, divergence, answered)
    PROVE  /\ e.run = r /\ e.divergence = divergence /\ e.answered = answered
           /\ e.matched => /\ divergence = "none"
                           /\ task.expected = "fail" => r.termination # "provider_error"
  <1>1. PICK ran : ran = IF task.kind = "benchmark" THEN BenchmarkOutcome(r, hidden)
                         ELSE TicketOutcome(r, hidden)
    OBVIOUS
  <1>2. PICK correct : correct = (task.kind = "benchmark" \/ TicketCorrect(ran[1], intact))
    OBVIOUS
  <1>3. PICK judged : judged = IF divergence = "none" THEN ran ELSE <<"failed", "replay_divergence">>
    OBVIOUS
  <1>4. e = [run |-> r, divergence |-> divergence, answered |-> answered,
             outcome |-> judged[1], mode |-> judged[2],
             matched |-> Matched(judged[1], FailureKind(judged[2]), correct)]
    BY <1>1, <1>2, <1>3 DEF Execution
  <1>5. /\ e.run = r /\ e.divergence = divergence /\ e.answered = answered
        /\ e.matched = Matched(judged[1], FailureKind(judged[2]), correct)
    BY <1>4
  <1>6. ASSUME divergence # "none" PROVE ~Matched(judged[1], FailureKind(judged[2]), correct)
    <2>1. judged[1] = "failed" /\ judged[2] = "replay_divergence"
      BY <1>3, <1>6
    <2>2. FailureKind(judged[2]) = "harness"
      BY <2>1 DEF FailureKind
    <2> QED
      BY <2>1, <2>2, Tasks DEF Matched
  <1>7. ASSUME divergence = "none", task.expected = "fail", r.termination = "provider_error"
        PROVE  ~Matched(judged[1], FailureKind(judged[2]), correct)
    <2>1. judged = BenchmarkOutcome(r, hidden)
      BY <1>1, <1>3, <1>7, Tasks
    <2>2. CASE hidden = "pass"
      <3>1. judged[1] = "solved"
        BY <2>1, <2>2 DEF BenchmarkOutcome
      <3> QED
        BY <1>7, <3>1 DEF Matched
    <2>3. CASE hidden # "pass"
      <3>1. ClassifyFailure(r, hidden) = "provider_error"
        BY <1>7 DEF ClassifyFailure
      <3>2. judged = <<"failed", "provider_error">>
        BY <1>7, <2>1, <2>3, <3>1 DEF BenchmarkOutcome
      <3>3. FailureKind(judged[2]) = "infra"
        BY <3>2 DEF FailureKind
      <3> QED
        BY <1>7, <3>3 DEF Matched
    <2> QED
      BY <2>2, <2>3
  <1> QED
    BY <1>5, <1>6, <1>7

LEMMA UpTo ==
    ASSUME NEW n \in Nat
    PROVE  Cardinality(1 .. n) = n
  <1>1. Cardinality(1 .. n) = IF 1 > n THEN 0 ELSE n - 1 + 1
    BY FS_Interval
  <1> QED
    BY <1>1

\* The calls of a run whose last step may be a failure.
LEMMA CallsCounted ==
    ASSUME NEW r, NEW k \in Nat, Len(r.steps) = k \/ Len(r.steps) = k + 1,
           \A i \in 1 .. k : r.steps[i].answer # "none",
           Len(r.steps) = k + 1 => r.steps[k + 1].answer = "none"
    PROVE  LlmCalls(r) = k
  <1>1. ASSUME NEW i \in 1 .. Len(r.steps), r.steps[i].answer # "none" PROVE i \in 1 .. k
    BY <1>1
  <1>2. 1 .. k \subseteq 1 .. Len(r.steps)
    OBVIOUS
  <1>3. {i \in 1 .. Len(r.steps) : r.steps[i].answer # "none"} = 1 .. k
    BY <1>1, <1>2
  <1> QED
    BY <1>3, UpTo DEF LlmCalls

LEMMA EndRecordingKeeps ==
    ASSUME ReplayInv, NEW hidden, NEW intact, EndRecording(hidden, intact)
    PROVE  ReplayInv'
  <1>1. PICK k : k = Len(recording.calls)
    OBVIOUS
  <1>2. PICK e : e = Execution(run, hidden, intact, "none", k)
    OBVIOUS
  <1>3. /\ doing = "record" /\ run.termination # "none"
        /\ executed' = <<e>> /\ doing' = "replay" /\ run' = FreshRun
        /\ UNCHANGED <<task, configs, recording, replayer>>
    BY <1>1, <1>2 DEF EndRecording
  <1>4. /\ RecordSound(run) /\ replayer = [cursor |-> 0, divergence |-> "none"]
        /\ task \in Task /\ configs \in [record : Config, replay : Config]
        /\ configs.replay.iterations \in Nat
    BY <1>3, Configs DEF ReplayInv
  <1>5. /\ e.run = run /\ e.answered = k
        /\ e.matched => /\ e.divergence = "none"
                        /\ task.expected = "fail" => e.run.termination # "provider_error"
    BY <1>2, <1>4, Classified
  <1>6. executed'[1] = e /\ Len(executed') = 1
    BY <1>3
  <1>7. RecordSound(executed[1].run)'
    BY <1>3, <1>4, <1>5, <1>6 DEF RecordSound, CallSound, Total
  <1>8. ReplaySound(run, executed[1].run)'
    <2>1. /\ RunSound(run', configs.replay.iterations)
          /\ run'.steps = <<>>
      BY <1>3, <1>4, FreshSound
    <2>2. Len(run'.steps) = 0
      BY <2>1
    <2>3. replayer'.cursor = 0 /\ replayer'.divergence = "none"
      BY <1>3, <1>4
    <2>4. Total \in Nat /\ Total' = Total
      BY <1>3, <1>4, Recorded1 DEF Total
    <2>5. \A i \in 1 .. 0 : FALSE
      OBVIOUS
    <2>6. \A i \in 1 .. 0 - 1 : FALSE
      OBVIOUS
    <2> QED
      BY <1>3, <1>4, <1>5, <1>6, <2>1, <2>2, <2>3, <2>4, <2>5, <2>6 DEF ReplaySound
  <1>9. LlmCalls(run) = k
    <2>1. /\ k \in Nat /\ Len(run.steps) = Total /\ (Total = k \/ Total = k + 1)
          /\ Total = k + 1 => run.steps[Total].answer = "none"
          /\ \A i \in 1 .. k : run.steps[i].answer \in Answer
      BY <1>1, <1>4, Recorded1
    <2>2. \A i \in 1 .. k : run.steps[i].answer # "none"
      BY <2>1 DEF Answer
    <2> QED
      BY <2>1, <2>2, CallsCounted
  <1>10. MatchesAreTheAgents'
    BY <1>3, <1>5, <1>6 DEF MatchesAreTheAgents
  <1>11. CallsAreAnswers'
    <2>1. \A i \in 1 .. Len(executed') : executed'[i] = e
      BY <1>6
    <2> QED
      BY <1>5, <1>9, <2>1 DEF CallsAreAnswers, LlmCalls
  <1>12. VerdictsSound'
    BY <1>3, <1>10, <1>11
       DEF VerdictsSound, UndivergedReplaysEndAlike, FaithfulReplaysNeverDiverge
  <1> QED
    BY <1>3, <1>4, <1>6, <1>7, <1>8, <1>12 DEF ReplayInv

\* What tests came to is shown as it is: tests that passed are told apart.
LEMMA HeadsTell ==
    ASSUME NEW a, NEW b, a.answer = b.answer, HeadOf(a.result) = HeadOf(b.result)
    PROVE  Passed(a) <=> Passed(b)
  BY DEF HeadOf, Passed

\* As far as a replay was served, it ends where its recording does.
LEMMA ServedEndsAlike ==
    ASSUME NEW r, NEW source, RecordSound(source), ReplaySound(r, source),
           NEW c, c = replayer.cursor
    PROVE  /\ c \in Nat
           /\ RaisedAt(r.steps, c) <=> RaisedAt(source.steps, c)
           /\ EscalatedAt(r.steps, c) <=> EscalatedAt(source.steps, c)
           /\ FinishedAt(r.steps, c) <=> FinishedAt(source.steps, c)
           /\ CutAt(r.steps, c) <=> CutAt(source.steps, c)
           /\ EndsAt(r.steps, c) <=> EndsAt(source.steps, c)
  <1>1. c \in Nat
    <2>1. Total \in Nat /\ c \in 0 .. Total
      BY Recorded1 DEF ReplaySound
    <2> QED
      BY <2>1
  <1>2. \A j \in 1 .. c : r.steps[j].answer = source.steps[j].answer
    BY DEF ReplaySound
  <1>3. ASSUME NEW j \in 1 .. c - 1 PROVE Passed(r.steps[j]) <=> Passed(source.steps[j])
    <2>1. HeadOf(r.steps[j].result) = HeadOf(source.steps[j].result)
      BY DEF ReplaySound
    <2>2. j \in 1 .. c
      BY <1>1, <1>3
    <2> QED
      BY <1>2, <2>1, <2>2, HeadsTell
  <1> QED
    BY ONLY <1>1, <1>2, <1>3, SameEnds

\* Two runs that ended, the same steps ending both, ended for the same reason.
LEMMA SameReason ==
    ASSUME NEW r \in Run, NEW q \in Run, r.termination # "none", q.termination # "none",
           r.termination = "provider_error" <=> q.termination = "provider_error",
           r.termination = "escalated" <=> q.termination = "escalated",
           r.termination = "finished" <=> q.termination = "finished",
           r.termination = "malformed_limit" <=> q.termination = "malformed_limit"
    PROVE  r.termination = q.termination
  <1>1. r.termination \in Termination /\ q.termination \in Termination
    BY RunFields
  <1> QED
    BY <1>1 DEF Termination

LEMMA WholeReplaysEndAlike ==
    ASSUME NEW r, NEW source, RecordSound(source), ReplaySound(r, source),
           r.termination # "none", replayer.divergence = "none", replayer.cursor = Total
    PROVE  Answers(r) = Answers(source) /\ r.termination = source.termination
  <1>1. PICK c : c = replayer.cursor
    OBVIOUS
  <1>2. /\ c \in Nat
        /\ RaisedAt(r.steps, c) <=> RaisedAt(source.steps, c)
        /\ EscalatedAt(r.steps, c) <=> EscalatedAt(source.steps, c)
        /\ FinishedAt(r.steps, c) <=> FinishedAt(source.steps, c)
        /\ CutAt(r.steps, c) <=> CutAt(source.steps, c)
    BY <1>1, ServedEndsAlike
  <1>3. Len(r.steps) = c /\ Len(source.steps) = c
    BY <1>1, Recorded1 DEF ReplaySound
  <1>4. \A i \in 1 .. c : r.steps[i].answer = source.steps[i].answer
    BY <1>1 DEF ReplaySound
  <1>5. Answers(r) = Answers(source)
    BY <1>3, <1>4 DEF Answers
  <1>6. r \in Run /\ EndSound(r)
    BY DEF ReplaySound, RunSound
  <1>7. source \in Run /\ EndSound(source) /\ source.termination # "none"
    BY DEF ReplaySound, RecordSound, RunSound
  <1>8. /\ r.termination = "provider_error" <=> source.termination = "provider_error"
        /\ r.termination = "escalated" <=> source.termination = "escalated"
        /\ r.termination = "finished" <=> source.termination = "finished"
        /\ r.termination = "malformed_limit" <=> source.termination = "malformed_limit"
    BY <1>2, <1>3, <1>6, <1>7 DEF EndSound
  <1>9. r.termination = source.termination
    BY <1>6, <1>7, <1>8, SameReason
  <1> QED
    BY <1>5, <1>9

\* No replay stops early when its configuration is the recording's.
LEMMA NothingStopsEarly ==
    ASSUME ReplayInv, NEW r, NEW source, RecordSound(source), ReplaySound(r, source),
           r.termination # "none", replayer.divergence = "none", replayer.cursor < Total,
           configs.record = configs.replay
    PROVE  FALSE
  <1>1. PICK c : c = replayer.cursor
    OBVIOUS
  <1>2. c \in Nat /\ (EndsAt(r.steps, c) <=> EndsAt(source.steps, c))
    BY <1>1, ServedEndsAlike
  <1>3. /\ Len(r.steps) = c /\ Len(source.steps) = Total /\ Total \in Nat /\ c < Total
    BY <1>1, Recorded1 DEF ReplaySound
  <1>4. ~EndsAt(source.steps, c)
    <2>1. CASE c = 0
      BY <2>1, Limits DEF EndsAt, RaisedAt, EscalatedAt, FinishedAt, CutAt
    <2>2. CASE c # 0
      <3>1. c \in 1 .. Len(source.steps) - 1
        BY <1>2, <1>3, <2>2
      <3> QED
        BY <3>1 DEF RecordSound, RunSound, EndSound
    <2> QED
      BY <2>1, <2>2
  <1>5. r \in Run /\ EndSound(r)
    BY DEF ReplaySound, RunSound
  <1>6. r.termination \notin {"none", "provider_error", "escalated", "finished", "malformed_limit"}
    BY <1>2, <1>3, <1>4, <1>5 DEF EndSound, EndsAt
  <1>7. r.termination = "max_iterations"
    <2>1. r.termination \in Termination
      BY <1>5, RunFields
    <2> QED
      BY <1>6, <2>1 DEF Termination
  <1>8. c = configs.replay.iterations
    BY <1>3, <1>7 DEF ReplaySound, RunSound
  <1>9. Total <= configs.record.iterations
    BY <1>3 DEF RecordSound, RunSound
  <1>10. Total <= c
    BY <1>8, <1>9
  <1> QED
    BY <1>2, <1>3, <1>10

\* The answers counted are the ones served.
LEMMA ServedCalls ==
    ASSUME NEW r, NEW source, RecordSound(source), ReplaySound(r, source)
    PROVE  LlmCalls(r) = Answered
  <1>1. PICK c : c = replayer.cursor
    OBVIOUS
  <1>2. PICK k : k = Len(recording.calls)
    OBVIOUS
  <1>3. /\ k \in Nat /\ Total \in Nat /\ (Total = k \/ Total = k + 1)
        /\ Total = k + 1 => source.steps[Total].answer = "none"
        /\ \A i \in 1 .. k : source.steps[i].answer \in Answer
    BY <1>2, Recorded1
  <1>4. /\ c \in 0 .. Total /\ replayer.divergence \in {"none", "strayed"}
        /\ \A i \in 1 .. c : r.steps[i].answer = source.steps[i].answer
        /\ replayer.divergence = "none" => Len(r.steps) = c
        /\ replayer.divergence = "strayed" =>
             Len(r.steps) = c + 1 /\ r.termination = "provider_error" /\ c <= k
    BY <1>1, <1>2 DEF ReplaySound
  <1>5. c \in Nat
    BY <1>3, <1>4
  <1>6. CASE c <= k
    <2>1. Answered = c
      BY <1>1, <1>2, <1>3, <1>5, <1>6 DEF Answered
    <2>2. ASSUME NEW i \in 1 .. c PROVE r.steps[i].answer # "none"
      <3>1. i \in 1 .. k
        BY <1>3, <1>5, <1>6, <2>2
      <3> QED
        BY <1>3, <1>4, <3>1 DEF Answer
    <2>3. Len(r.steps) = c \/ Len(r.steps) = c + 1
      BY <1>4
    <2>4. Len(r.steps) = c + 1 => r.steps[c + 1].answer = "none"
      <3>1. ASSUME Len(r.steps) = c + 1 PROVE r.termination = "provider_error"
        BY <1>4, <1>5, <3>1
      <3>2. EndSound(r)
        BY DEF ReplaySound, RunSound
      <3> QED
        BY <3>1, <3>2 DEF EndSound, RaisedAt
    <2> QED
      BY <1>5, <2>1, <2>2, <2>3, <2>4, CallsCounted
  <1>7. CASE c > k
    <2>1. c = k + 1 /\ c = Total /\ replayer.divergence = "none"
      BY <1>3, <1>4, <1>5, <1>7
    <2>2. Answered = k
      BY <1>1, <1>2, <1>3, <1>5, <1>7 DEF Answered
    <2>3. c \in 1 .. c /\ \A i \in 1 .. k : i \in 1 .. c
      BY <1>3, <2>1
    <2>4. Len(r.steps) = k + 1 /\ r.steps[k + 1].answer = "none"
      BY <1>3, <1>4, <2>1, <2>3
    <2>5. \A i \in 1 .. k : r.steps[i].answer # "none"
      BY <1>3, <1>4, <2>3 DEF Answer
    <2> QED
      BY <1>3, <2>2, <2>4, <2>5, CallsCounted
  <1> QED
    BY <1>3, <1>5, <1>6, <1>7

\* check_consumed, of a replay that is over.
LEMMA Judged ==
    ASSUME NEW r, NEW source, RecordSound(source), ReplaySound(r, source)
    PROVE  /\ Consumed.divergence = "none" => /\ replayer.divergence = "none"
                                              /\ replayer.cursor = Total
           /\ Consumed.divergence # "none" => \/ replayer.divergence = "strayed"
                                              \/ /\ replayer.divergence = "none"
                                                 /\ replayer.cursor < Total
  <1>1. Total \in Nat /\ replayer.cursor \in 0 .. Total /\ replayer.divergence \in {"none", "strayed"}
    BY Recorded1 DEF ReplaySound
  <1>2. replayer = [cursor |-> replayer.cursor, divergence |-> replayer.divergence]
    BY DEF ReplaySound
  <1>3. CASE replayer.divergence = "none" /\ replayer.cursor < Total
    <2>1. Consumed = [replayer EXCEPT !.divergence = "stopped early"]
      BY <1>3 DEF Consumed
    <2>2. Consumed.divergence = "stopped early"
      BY <1>2, <2>1
    <2> QED
      BY <1>3, <2>2
  <1>4. CASE ~(replayer.divergence = "none" /\ replayer.cursor < Total)
    <2>1. Consumed = replayer
      BY <1>4 DEF Consumed
    <2> QED
      BY <1>1, <1>4, <2>1
  <1> QED
    BY <1>3, <1>4

LEMMA EndReplayKeeps ==
    ASSUME ReplayInv, NEW hidden, NEW intact, EndReplay(hidden, intact)
    PROVE  ReplayInv'
  <1>1. PICK d : d = Consumed.divergence
    OBVIOUS
  <1>2. PICK e : e = Execution(run, hidden, intact, d, Answered)
    OBVIOUS
  <1>3. PICK source : source = executed[1].run
    OBVIOUS
  <1>4. /\ doing = "replay" /\ run.termination # "none"
        /\ executed' = Append(executed, e) /\ doing' = "over"
        /\ UNCHANGED <<task, configs, run, recording>>
    BY <1>1, <1>2 DEF EndReplay
  <1>5. /\ RecordSound(source) /\ ReplaySound(run, source)
        /\ task \in Task /\ configs \in [record : Config, replay : Config]
        /\ executed = <<executed[1]>>
        /\ MatchesAreTheAgents /\ CallsAreAnswers
    BY <1>3, <1>4 DEF ReplayInv, VerdictsSound
  <1>6. /\ e.run = run /\ e.divergence = d /\ e.answered = Answered
        /\ e.matched => /\ d = "none"
                        /\ task.expected = "fail" => run.termination # "provider_error"
    BY <1>2, <1>5, Classified
  <1>7. Len(executed) = 1 /\ Len(executed') = 2 /\ executed'[1] = executed[1] /\ executed'[2] = e
    <2>1. PICK first : first = executed[1]
      OBVIOUS
    <2>2. executed = <<first>> /\ executed' = Append(<<first>>, e)
      BY <1>4, <1>5, <2>1
    <2> QED
      BY <2>1, <2>2
  <1>8. \A i \in 1 .. Len(executed') : executed'[i] = executed[1] \/ executed'[i] = e
    BY <1>7
  <1>9. 1 \in 1 .. Len(executed)
    BY <1>7
  <1>10. UndivergedReplaysEndAlike'
    <2>1. ASSUME d = "none" PROVE Answers(run) = Answers(source) /\ run.termination = source.termination
      BY <1>1, <1>4, <1>5, <2>1, Judged, WholeReplaysEndAlike
    <2> QED
      BY <1>3, <1>6, <1>7, <2>1 DEF UndivergedReplaysEndAlike, Replayed, Recorded, Answers
  <1>11. FaithfulReplaysNeverDiverge'
    <2>1. ASSUME d # "none", configs.record = configs.replay PROVE Differs(run, source)
      <3>1. CASE replayer.divergence = "strayed"
        BY <1>5, <2>1, <3>1 DEF ReplaySound
      <3>2. CASE replayer.divergence = "none" /\ replayer.cursor < Total
        BY <1>4, <1>5, <2>1, <3>2, NothingStopsEarly
      <3> QED
        BY <1>1, <1>5, <2>1, <3>1, <3>2, Judged
    <2> QED
      BY <1>3, <1>4, <1>6, <1>7, <2>1 DEF FaithfulReplaysNeverDiverge, Replayed, Recorded, Differs
  <1>12. MatchesAreTheAgents'
    <2>1. executed[1].matched =>
            /\ executed[1].divergence = "none"
            /\ task.expected = "fail" => executed[1].run.termination # "provider_error"
      BY <1>5, <1>9 DEF MatchesAreTheAgents
    <2>2. e.matched =>
            /\ e.divergence = "none"
            /\ task.expected = "fail" => e.run.termination # "provider_error"
      BY <1>6
    <2> QED
      BY <1>4, <1>8, <2>1, <2>2 DEF MatchesAreTheAgents
  <1>13. CallsAreAnswers'
    <2>1. LlmCalls(executed[1].run) = executed[1].answered
      BY <1>5, <1>9 DEF CallsAreAnswers
    <2>2. LlmCalls(e.run) = e.answered
      BY <1>5, <1>6, ServedCalls
    <2> QED
      BY <1>8, <2>1, <2>2 DEF CallsAreAnswers, LlmCalls
  <1>14. VerdictsSound'
    BY <1>10, <1>11, <1>12, <1>13 DEF VerdictsSound
  <1> QED
    BY <1>4, <1>5, <1>14 DEF ReplayInv

-----------------------------------------------------------------------------
(* The theorems.                                                           *)

LEMMA InitSound ==
    ASSUME Init
    PROVE  ReplayInv
  <1>1. /\ task \in Task /\ configs \in [record : Config, replay : Config] /\ doing = "record"
        /\ run = FreshRun /\ recording = [calls |-> <<>>, error |-> NoError]
        /\ replayer = [cursor |-> 0, divergence |-> "none"] /\ executed = <<>>
    BY DEF Init
  <1>2. configs.record.iterations \in Nat
    BY <1>1, Configs
  <1>3. /\ RunSound(run, configs.record.iterations)
        /\ run.steps = <<>> /\ run.termination = "none"
    BY <1>1, <1>2, FreshSound
  <1>4. recording.calls = <<>> /\ recording.error = NoError
    BY <1>1
  <1>5. Len(recording.calls) = 0 /\ Total = 0 /\ Len(run.steps) = 0 /\ recording.calls \in Seq(Call)
    BY <1>3, <1>4 DEF Total
  <1>6. \A i \in 1 .. 0 : FALSE
    OBVIOUS
  <1>7. RecordSound(run)
    BY <1>1, <1>3, <1>4, <1>5, <1>6 DEF RecordSound
  <1>8. Len(executed) = 0
    BY <1>1
  <1>9. VerdictsSound
    BY <1>1, <1>6, <1>8 DEF VerdictsSound, UndivergedReplaysEndAlike, FaithfulReplaysNeverDiverge,
                            MatchesAreTheAgents, CallsAreAnswers
  <1> QED
    BY <1>1, <1>7, <1>9 DEF ReplayInv

LEMMA StutterKeeps ==
    ASSUME ReplayInv, UNCHANGED vars
    PROVE  ReplayInv'
  <1>1. UNCHANGED <<task, configs, doing, run, recording, replayer, executed>>
    BY DEF vars
  <1>2. doing = "record" => RecordSound(run)'
    BY <1>1 DEF ReplayInv, RecordSound, CallSound, Total
  <1>3. doing = "replay" => RecordSound(executed[1].run)'
    BY <1>1 DEF ReplayInv, RecordSound, CallSound, Total
  <1>4. doing = "replay" => ReplaySound(run, executed[1].run)'
    BY <1>1 DEF ReplayInv, ReplaySound, Total
  <1>5. VerdictsSound'
    BY <1>1 DEF ReplayInv, VerdictsSound, UndivergedReplaysEndAlike, FaithfulReplaysNeverDiverge,
                MatchesAreTheAgents, CallsAreAnswers, Replayed, Recorded
  <1> QED
    BY <1>1, <1>2, <1>3, <1>4, <1>5 DEF ReplayInv

LEMMA StepSound ==
    ASSUME ReplayInv, [Next]_vars
    PROVE  ReplayInv'
  <1>1. CASE \E answer \in Answer : \E result \in ResultsOf(answer) : RecordAnswer(answer, result)
    BY <1>1, RecordAnswerKeeps
  <1>2. CASE \E exc \in Exception : RecordFails(exc)
    BY <1>2, RecordFailsKeeps
  <1>3. CASE Exhausted
    <2>1. doing = "record" \/ doing = "replay"
      BY <1>3 DEF Exhausted, ReplayInv
    <2> QED
      BY <1>3, <2>1, ExhaustedInRecord, ExhaustedInReplay
  <1>4. CASE Diverge
    BY <1>4, DivergeKeeps
  <1>5. CASE ReplayError
    BY <1>5, ReplayErrorKeeps
  <1>6. CASE \E result \in UNION {ResultsOf(a) : a \in Answer} : ReplayAnswer(result)
    <2>1. PICK result : ReplayAnswer(result)
      BY <1>6
    <2> QED
      BY <2>1, ReplayAnswerKeeps
  <1>7. CASE \E hidden \in Hidden, intact \in BOOLEAN : EndRecording(hidden, intact)
    BY <1>7, EndRecordingKeeps
  <1>8. CASE \E hidden \in Hidden, intact \in BOOLEAN : EndReplay(hidden, intact)
    BY <1>8, EndReplayKeeps
  <1>9. CASE UNCHANGED vars
    BY <1>9, StutterKeeps
  <1> QED
    BY <1>1, <1>2, <1>3, <1>4, <1>5, <1>6, <1>7, <1>8, <1>9 DEF Next

\* Whatever the prompts, the samplings and the limits, a recording is what the
\* recorded run was asked and answered, and a replay repeats it step by step
\* (replay.py, RecordingProvider.complete and ReplayProvider.complete).
THEOREM ReplayInductive == Spec => []ReplayInv
  <1>1. Init => ReplayInv
    BY InitSound
  <1>2. ReplayInv /\ [Next]_vars => ReplayInv'
    BY StepSound
  <1> QED
    BY <1>1, <1>2, PTL DEF Spec

\* A replay that reports no divergence ends as its recording did, after the same
\* answers and for the same reason (replay.py, _expect and check_consumed).
THEOREM ReplaysEndAlike == Spec => []UndivergedReplaysEndAlike
  <1>1. ReplayInv => UndivergedReplaysEndAlike
    BY DEF ReplayInv, VerdictsSound
  <1> QED
    BY <1>1, ReplayInductive, PTL

\* With the configuration of the recording and the same tool results, a replay
\* neither strays nor stops early (replay.py, ReplayProvider.complete).
THEOREM NoFalseDivergence == Spec => []FaithfulReplaysNeverDiverge
  <1>1. ReplayInv => FaithfulReplaysNeverDiverge
    BY DEF ReplayInv, VerdictsSound
  <1> QED
    BY <1>1, ReplayInductive, PTL

\* No diverged replay, and no failure of the provider, counts as what was
\* expected of the agent (executor.py, execute_task and _matched).
THEOREM OnlyTheAgentMatches == Spec => []MatchesAreTheAgents
  <1>1. ReplayInv => MatchesAreTheAgents
    BY DEF ReplayInv, VerdictsSound
  <1> QED
    BY <1>1, ReplayInductive, PTL

\* A run's steps count the answers its provider gave, in a recording and in a
\* replay (executor.py, _llm_calls; replay.py, ReplayProvider.answered).
THEOREM CallsMatchAnswers == Spec => []CallsAreAnswers
  <1>1. ReplayInv => CallsAreAnswers
    BY DEF ReplayInv, VerdictsSound
  <1> QED
    BY <1>1, ReplayInductive, PTL

=============================================================================
