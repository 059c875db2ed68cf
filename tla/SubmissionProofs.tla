-------------------------- MODULE SubmissionProofs --------------------------
(***************************************************************************)
(* Proofs that SubmissionInv is inductive, for any clients, batches, limits *)
(* and number of sends, and what follows from it: one batch for a key and  *)
(* for a call, and answers and conflicts that are true.                    *)
(***************************************************************************)
EXTENDS SubmissionInvariant, FiniteSetTheorems, TLAPS

\* What a batch's columns are.
LEMMA BatchFields ==
    ASSUME NEW r, NEW ask
    PROVE  LET b == Batch(r, ask)
           IN  /\ b.id = r /\ b.key = ask.key /\ b.label = ask.label
               /\ b.jobs = ask.jobs /\ b.policy = ask.policy
               /\ b.digest = RequestDigest(ask)
  BY DEF Batch

\* Batches whose keys and digests agree were asked for alike, and no others.
LEMMA DigestTells ==
    ASSUME NEW r, NEW ask \in Asks, NEW other \in Asks, other.key = ask.key
    PROVE  /\ RequestDigest(other) = RequestDigest(ask) <=> AsAsked(Batch(r, other), ask)
           /\ AsAsked(Batch(r, ask), ask)
  <1>1. /\ ask = [key |-> ask.key, label |-> ask.label, jobs |-> ask.jobs,
                  policy |-> ask.policy]
        /\ other = [key |-> other.key, label |-> other.label, jobs |-> other.jobs,
                    policy |-> other.policy]
    BY AsksAssumption
  <1>2. /\ RequestDigest(ask) = [key |-> NoKey, label |-> ask.label, jobs |-> ask.jobs,
                                 policy |-> ask.policy]
        /\ RequestDigest(other) = [key |-> NoKey, label |-> other.label,
                                   jobs |-> other.jobs, policy |-> other.policy]
    BY <1>1 DEF RequestDigest
  <1>3. /\ AsAsked(Batch(r, other), ask) <=> other = ask
        /\ AsAsked(Batch(r, ask), ask)
    BY <1>1, BatchFields DEF AsAsked
  <1>4. RequestDigest(other) = RequestDigest(ask) => other = ask
    <2> SUFFICES ASSUME RequestDigest(other) = RequestDigest(ask) PROVE other = ask
      OBVIOUS
    <2>1. /\ other.label = ask.label /\ other.jobs = ask.jobs /\ other.policy = ask.policy
      BY <1>2
    <2> QED
      BY <1>1, <2>1
  <1> QED
    BY <1>3, <1>4

\* A request names its client.
LEMMA Requests ==
    /\ \A r \in Request : r[1] \in Client /\ r = <<r[1], r[2]>> /\ r[2] \in 1 .. MaxSends
    /\ \A c \in Client : \A n \in 1 .. MaxSends : <<c, n>> \in Request /\ <<c, n>>[1] = c
  BY DEF Request

\* Nothing stored is ever changed, so an answer that was true stays true.
LEMMA AnswerKept ==
    ASSUME NEW c, NEW answer, AnswerSound(c, answer), asks' = asks,
           batches \subseteq batches'
    PROVE  AnswerSound(c, answer)'
  BY DEF AnswerSound

-----------------------------------------------------------------------------
(* Steps of a client.                                                      *)

\* A client is told something, or goes on to send again.
LEMMA SettleStep ==
    ASSUME SubmissionInv, NEW c \in Client, NEW pc \in ClientPCs, NEW answer \in Replies,
           Settle(c, pc, answer), UNCHANGED <<asks, handlers, sessions, batches>>,
           pc # "wait", pc = "send" => MaySendAgain(c),
           pc \in {"done", "refused"} => AnswerSound(c, answer),
           pc = "done" => answer.kind = "submission"
    PROVE  SubmissionInv'
  <1>1. /\ clients'[c] = [pc |-> pc, sends |-> clients[c].sends, answer |-> answer]
        /\ \A d \in Client \ {c} : clients'[d] = clients[d]
    BY DEF Settle, SubmissionInv, Shapes
  <1>2. Shapes'
    BY DEF Settle, SubmissionInv, Shapes
  <1>3. ASSUME NEW d \in Client PROVE SendsSound(d)'
    <2>1. SendsSound(d)
      BY DEF SubmissionInv
    <2>2. CASE d # c
      BY <1>1, <2>1, <2>2 DEF SendsSound
    <2>3. CASE d = c
      BY <1>1, <2>1, <2>3 DEF SendsSound, MaySendAgain
    <2> QED
      BY <2>2, <2>3
  <1>4. ASSUME NEW d \in Client PROVE ToldSound(d)'
    <2>1. ToldSound(d)
      BY DEF SubmissionInv
    <2>2. CASE d # c
      BY <1>1, <2>1, <2>2, AnswerKept DEF ToldSound
    <2>3. CASE d = c
      BY <1>1, <2>3, AnswerKept DEF ToldSound
    <2> QED
      BY <2>2, <2>3
  <1>5. \A r \in Request : SessionSound(r)'
    BY DEF SubmissionInv, SessionSound, SameKey, AskOf
  <1>6. \A b \in batches' : BatchSound(b)'
    BY DEF SubmissionInv, BatchSound, AskOf
  <1>7. OneBatchPerKey'
    BY DEF SubmissionInv, OneBatchPerKey
  <1>8. RepliesSound'
    BY AnswerKept DEF SubmissionInv, RepliesSound
  <1> QED
    BY <1>2, <1>3, <1>4, <1>5, <1>6, <1>7, <1>8 DEF SubmissionInv

LEMMA FailedStep ==
    ASSUME SubmissionInv, NEW c \in Client, Failed(c),
           UNCHANGED <<asks, handlers, sessions, batches>>
    PROVE  SubmissionInv'
  <1>1. NoReply \in Replies
    BY DEF NoReply, Refusal, Replies
  <1> QED
    BY <1>1, SettleStep DEF Failed, ClientPCs

LEMMA ReceiveStep ==
    ASSUME SubmissionInv, NEW c \in Client, Receive(c)
    PROVE  SubmissionInv'
  <1> DEFINE r == <<c, clients[c].sends>>
             reply == handlers[r].reply
  <1>1. /\ clients[c].pc = "wait" /\ handlers[r].pc = "replied"
        /\ UNCHANGED <<asks, handlers, sessions, batches>>
    BY DEF Receive
  <1>2. clients[c].sends \in 1 .. MaxSends
    BY <1>1, SendsAssumption DEF SubmissionInv, Shapes, SendsSound
  <1>3. r \in Request /\ AnswerSound(c, reply) /\ reply \in Replies
    BY <1>1, <1>2, Requests DEF SubmissionInv, RepliesSound, Shapes
  <1> HIDE DEF r
  <1>4. CASE reply.kind = "submission" /\ Settle(c, "done", reply)
    BY <1>1, <1>3, <1>4, SettleStep DEF ClientPCs
  <1>5. CASE reply.kind \in {"forbidden", "conflict"} /\ Settle(c, "refused", reply)
    BY <1>1, <1>3, <1>5, SettleStep DEF ClientPCs
  <1>6. CASE Failed(c)
    BY <1>1, <1>6, FailedStep
  <1> QED
    BY <1>4, <1>5, <1>6 DEF Receive, r

LEMMA SendStep ==
    ASSUME SubmissionInv, NEW c \in Client, Send(c)
    PROVE  SubmissionInv'
  <1> DEFINE n == clients[c].sends + 1
             r == <<c, n>>
  <1>1. /\ clients[c].pc = "send" /\ UNCHANGED <<asks, sessions, batches>>
        /\ clients' = [clients EXCEPT ![c].pc = "wait", ![c].sends = n]
        /\ handlers' = [handlers EXCEPT ![r].pc = "received"]
    BY DEF Send
  <1>2. n \in 1 .. MaxSends /\ n > clients[c].sends /\ r \in Request
        /\ handlers[r].pc = "none" /\ clients[c].sends \in Nat
    BY <1>1, SendsAssumption, Requests DEF SubmissionInv, Shapes, SendsSound
  <1>3. /\ clients'[c] = [pc |-> "wait", sends |-> n, answer |-> clients[c].answer]
        /\ \A d \in Client \ {c} : clients'[d] = clients[d]
    BY <1>1 DEF SubmissionInv, Shapes
  <1>4. /\ handlers'[r] = [pc |-> "received", reply |-> handlers[r].reply]
        /\ \A q \in Request \ {r} : handlers'[q] = handlers[q]
    BY <1>1, <1>2 DEF SubmissionInv, Shapes
  <1>5. sessions[r] = "none" /\ \A b \in batches : b.id # r
    BY <1>2 DEF SubmissionInv, SessionSound, BatchSound
  <1>6. Shapes'
    <2>1. n \in 0 .. MaxSends
      BY <1>2, SendsAssumption
    <2> QED
      BY <1>1, <1>2, <2>1 DEF SubmissionInv, Shapes, ClientPCs, HandlerPCs
  <1>7. ASSUME NEW d \in Client PROVE SendsSound(d)'
    <2>1. SendsSound(d)
      BY DEF SubmissionInv
    <2>2. CASE d # c
      <3>1. \A k \in 1 .. MaxSends : <<d, k>> \in Request \ {r}
        BY <2>2, Requests
      <3> QED
        BY <1>1, <1>3, <1>4, <2>1, <2>2, <3>1 DEF SendsSound
    <2>3. CASE d = c
      <3>1. ASSUME NEW k \in 1 .. MaxSends, k > n PROVE handlers'[<<c, k>>].pc = "none"
        <4>1. k > clients[c].sends /\ <<c, k>> \in Request \ {r}
          BY <1>2, <3>1, Requests
        <4> QED
          BY <1>4, <2>1, <2>3, <4>1 DEF SendsSound
      <3>2. asks[c].key = NoKey => n <= 1
        BY <1>1, <1>2, <2>1, <2>3 DEF SendsSound
      <3>3. clients'[c].pc = "wait" /\ clients'[c].sends = n /\ n >= 1 /\ asks' = asks
        BY <1>1, <1>2, <1>3
      <3> HIDE DEF n
      <3> QED
        BY <2>3, <3>1, <3>2, <3>3 DEF SendsSound
    <2> QED
      BY <2>2, <2>3
  <1>8. ASSUME NEW d \in Client PROVE ToldSound(d)'
    <2>1. ToldSound(d)
      BY DEF SubmissionInv
    <2>2. clients'[c].pc = "wait" /\ asks' = asks /\ batches' = batches
      BY <1>1, <1>3
    <2>3. CASE d = c
      BY <2>2, <2>3 DEF ToldSound
    <2>4. CASE d # c
      BY <1>3, <2>1, <2>2, <2>4, AnswerKept DEF ToldSound
    <2> QED
      BY <2>3, <2>4
  <1>9. \A q \in Request : SessionSound(q)'
    BY <1>1, <1>4, <1>5 DEF SubmissionInv, SessionSound, SameKey, AskOf
  <1>10. \A b \in batches' : BatchSound(b)'
    BY <1>1, <1>4, <1>5 DEF SubmissionInv, BatchSound, AskOf
  <1>11. OneBatchPerKey'
    BY <1>1 DEF SubmissionInv, OneBatchPerKey
  <1>12. RepliesSound'
    BY <1>1, <1>4, AnswerKept DEF SubmissionInv, RepliesSound
  <1> QED
    BY <1>6, <1>7, <1>8, <1>9, <1>10, <1>11, <1>12 DEF SubmissionInv

-----------------------------------------------------------------------------
(* Steps of a handler and of its session.                                  *)

\* What was not sent has no handler, after one handler's step as before.
LEMMA SendsKept ==
    ASSUME SubmissionInv, NEW r \in Request, handlers[r].pc # "none",
           \A q \in Request \ {r} : handlers'[q] = handlers[q],
           UNCHANGED <<asks, clients>>
    PROVE  \A c \in Client : SendsSound(c)' /\ SendsSound(c)
  <1> SUFFICES ASSUME NEW c \in Client PROVE SendsSound(c)' /\ SendsSound(c)
    OBVIOUS
  <1>1. SendsSound(c)
    BY DEF SubmissionInv
  <1>2. \A n \in 1 .. MaxSends : n > clients[c].sends => <<c, n>> \in Request \ {r}
    BY <1>1, Requests DEF SendsSound
  <1> QED
    BY <1>1, <1>2 DEF SendsSound

\* What clients were told stays true.
LEMMA ToldKept ==
    ASSUME SubmissionInv, UNCHANGED <<asks, clients>>, batches \subseteq batches'
    PROVE  \A c \in Client : ToldSound(c)'
  <1> SUFFICES ASSUME NEW c \in Client PROVE ToldSound(c)'
    OBVIOUS
  <1>1. ToldSound(c)
    BY DEF SubmissionInv
  <1> QED
    BY <1>1, AnswerKept DEF ToldSound

\* So do the other handlers' replies.
LEMMA RepliesKept ==
    ASSUME SubmissionInv, NEW r \in Request, asks' = asks, batches \subseteq batches',
           \A q \in Request \ {r} : handlers'[q] = handlers[q],
           handlers'[r].pc = "replied" => AnswerSound(r[1], handlers[r].reply)'
    PROVE  RepliesSound'
  <1> SUFFICES ASSUME NEW q \in Request, handlers'[q].pc = "replied"
               PROVE  AnswerSound(q[1], handlers[q].reply)'
    BY DEF RepliesSound
  <1>1. CASE q = r
    BY <1>1
  <1>2. CASE q # r
    <2>1. handlers'[q] = handlers[q] /\ AnswerSound(q[1], handlers[q].reply)
      BY <1>2 DEF SubmissionInv, RepliesSound
    <2>2. PICK reply : reply = handlers[q].reply
      OBVIOUS
    <2>3. AnswerSound(q[1], reply)'
      BY <2>1, <2>2, AnswerKept
    <2> QED
      BY <2>1, <2>2, <2>3 DEF AnswerSound
  <1> QED
    BY <1>1, <1>2

LEMMA ReplyStep ==
    ASSUME SubmissionInv, NEW r \in Request, handlers[r].pc \in {"received", "inserting"},
           NEW reply \in Replies, AnswerSound(r[1], reply), Reply(r, reply),
           UNCHANGED <<asks, clients, sessions, batches>>
    PROVE  SubmissionInv'
  <1>1. /\ handlers'[r].pc = "replied" /\ handlers'[r].reply = reply
        /\ \A q \in Request \ {r} : handlers'[q] = handlers[q]
    BY DEF Reply, SubmissionInv, Shapes
  <1>2. Shapes'
    BY DEF Reply, SubmissionInv, Shapes, HandlerPCs
  <1>3. \A c \in Client : SendsSound(c)' /\ ToldSound(c)'
    BY <1>1, SendsKept, ToldKept
  <1>4. \A q \in Request : SessionSound(q)'
    BY <1>1 DEF SubmissionInv, SessionSound, SameKey, AskOf
  <1>5. \A b \in batches' : BatchSound(b)'
    BY <1>1 DEF SubmissionInv, BatchSound, AskOf
  <1>6. OneBatchPerKey'
    BY DEF SubmissionInv, OneBatchPerKey
  <1>7. AnswerSound(r[1], handlers[r].reply)'
    BY <1>1, AnswerKept DEF AnswerSound
  <1>8. RepliesSound'
    BY <1>1, <1>7, RepliesKept
  <1> QED
    BY <1>2, <1>3, <1>4, <1>5, <1>6, <1>8 DEF SubmissionInv

\* A refusal that names no conflict says nothing of the store.
LEMMA RefusalSound ==
    ASSUME NEW c, NEW kind \in {"forbidden", "error"}
    PROVE  Refusal(kind) \in Replies /\ AnswerSound(c, Refusal(kind))
  BY DEF Refusal, Replies, AnswerSound

\* The key was taken: by a batch asked for alike, which is the answer, or by
\* another, which is the conflict.
LEMMA FindBatchStep ==
    ASSUME SubmissionInv, NEW r \in Request, FindBatch(r)
    PROVE  SubmissionInv'
  <1>1. PICK b \in SameKey(AskOf(r).key) :
          Reply(r, IF b.digest = RequestDigest(AskOf(r))
                   THEN Answer(b, FALSE) ELSE Refusal("conflict"))
    BY DEF FindBatch
  <1>2. /\ handlers[r].pc = "received" /\ UNCHANGED <<asks, clients, sessions, batches>>
    BY DEF FindBatch
  <1> DEFINE ask   == AskOf(r)
             other == AskOf(b.id)
  <1>3. b \in batches /\ b.key = ask.key /\ b.id \in Request /\ b = Batch(b.id, other)
    BY DEF SameKey, SubmissionInv, BatchSound
  <1>4. ask \in Asks /\ other \in Asks /\ ask = asks[r[1]]
    BY <1>3, Requests DEF SubmissionInv, Shapes, AskOf
  <1>5. /\ b.key = other.key /\ b.jobs = other.jobs /\ b.digest = RequestDigest(other)
    BY <1>3, BatchFields
  <1>6. b.digest = RequestDigest(ask) <=> AsAsked(b, ask)
    BY <1>3, <1>4, <1>5, DigestTells
  <1> HIDE DEF ask, other
  <1>7. CASE AsAsked(b, ask)
    <2>1. b.jobs = ask.jobs /\ ask.jobs \in Nat
      BY <1>4, <1>7, AsksAssumption DEF AsAsked
    <2>2. Answer(b, FALSE) \in Replies /\ Answer(b, FALSE).kind = "submission"
          /\ Answer(b, FALSE).batch = b.id /\ Answer(b, FALSE).jobs = ask.jobs
      BY <1>3, <2>1 DEF Answer, Replies
    <2>3. AnswerSound(r[1], Answer(b, FALSE))
      BY <1>3, <1>4, <1>7, <2>2 DEF AnswerSound
    <2> QED
      BY <1>1, <1>2, <1>6, <1>7, <2>2, <2>3, ReplyStep DEF ask
  <1>8. CASE ~AsAsked(b, ask)
    <2>1. Refusal("conflict") \in Replies /\ Refusal("conflict").kind = "conflict"
      BY DEF Refusal, Replies, NoBatch
    <2>2. AnswerSound(r[1], Refusal("conflict"))
      BY <1>3, <1>4, <1>8, <2>1 DEF AnswerSound
    <2> QED
      BY <1>1, <1>2, <1>6, <1>8, <2>1, <2>2, ReplyStep DEF ask
  <1> QED
    BY <1>7, <1>8

LEMMA InsertBatchStep ==
    ASSUME SubmissionInv, NEW r \in Request, InsertBatch(r)
    PROVE  SubmissionInv'
  <1>1. /\ handlers[r].pc = "received" /\ Allowed(AskOf(r).policy)
        /\ KeyWaitedFor(r) /\ SameKey(AskOf(r).key) = {}
        /\ UNCHANGED <<asks, clients, batches>>
    BY DEF InsertBatch
  <1>2. /\ sessions'[r] = "keyed" /\ handlers'[r].pc = "inserting"
        /\ \A q \in Request \ {r} : sessions'[q] = sessions[q] /\ handlers'[q] = handlers[q]
    BY DEF InsertBatch, SubmissionInv, Shapes
  <1>3. Shapes'
    BY DEF InsertBatch, SubmissionInv, Shapes, HandlerPCs
  <1>4. \A c \in Client : SendsSound(c)' /\ ToldSound(c)'
    BY <1>1, <1>2, SendsKept, ToldKept
  <1>5. ASSUME NEW q \in Request PROVE SessionSound(q)'
    <2>1. SessionSound(q)
      BY DEF SubmissionInv
    <2>2. CASE q = r
      BY <1>1, <1>2, <2>2 DEF SessionSound, KeyWaitedFor, SameKey, AskOf
    <2>3. CASE q # r
      <3>1. sessions[q] # "none" /\ AskOf(q).key = AskOf(r).key => AskOf(q).key = NoKey
        BY <1>1, <2>3 DEF KeyWaitedFor
      <3> QED
        BY <1>1, <1>2, <2>1, <2>3, <3>1 DEF SessionSound, SameKey, AskOf
    <2> QED
      BY <2>2, <2>3
  <1>6. \A b \in batches' : BatchSound(b)'
    BY <1>1, <1>2 DEF SubmissionInv, BatchSound, AskOf
  <1>7. OneBatchPerKey'
    BY <1>1 DEF SubmissionInv, OneBatchPerKey
  <1>8. RepliesSound'
    BY <1>1, <1>2, RepliesKept
  <1> QED
    BY <1>3, <1>4, <1>5, <1>6, <1>7, <1>8 DEF SubmissionInv

LEMMA InsertJobsStep ==
    ASSUME SubmissionInv, NEW r \in Request, InsertJobs(r)
    PROVE  SubmissionInv'
  <1>1. /\ sessions[r] = "keyed" /\ UNCHANGED <<asks, clients, handlers, batches>>
        /\ sessions'[r] = "filled"
        /\ \A q \in Request \ {r} : sessions'[q] = sessions[q]
    BY DEF InsertJobs, SubmissionInv, Shapes
  <1>2. Shapes'
    BY DEF InsertJobs, SubmissionInv, Shapes
  <1>3. \A c \in Client : SendsSound(c)' /\ ToldSound(c)'
    BY <1>1, ToldKept DEF SubmissionInv, SendsSound
  <1>4. \A q \in Request : SessionSound(q)'
    BY <1>1 DEF SubmissionInv, SessionSound, SameKey, AskOf
  <1>5. \A b \in batches' : BatchSound(b)'
    BY <1>1 DEF SubmissionInv, BatchSound, AskOf
  <1>6. OneBatchPerKey' /\ RepliesSound'
    BY <1>1 DEF SubmissionInv, OneBatchPerKey, RepliesSound, AnswerSound
  <1> QED
    BY <1>2, <1>3, <1>4, <1>5, <1>6 DEF SubmissionInv

\* A commit, answered or late, stores the batch of the one session that may
\* have its key.
LEMMA InstallStep ==
    ASSUME SubmissionInv, NEW r \in Request, sessions[r] # "none", Install(r),
           Shapes', UNCHANGED <<asks, clients>>,
           handlers'[r].pc \in {"replied", "gone"},
           \A q \in Request \ {r} : handlers'[q] = handlers[q],
           RepliesSound'
    PROVE  SubmissionInv'
  <1> DEFINE new == Batch(r, AskOf(r))
  <1>1. /\ batches' = batches \union {new}
        /\ sessions'[r] = "none"
        /\ \A q \in Request \ {r} : sessions'[q] = sessions[q]
    BY DEF Install, SubmissionInv, Shapes
  <1>2. SessionSound(r)
    BY DEF SubmissionInv
  <1>3. handlers[r].pc # "none" /\ Allowed(AskOf(r).policy) /\ SameKey(AskOf(r).key) = {}
    BY <1>2 DEF SessionSound
  <1>4. new.id = r /\ new.key = AskOf(r).key
    BY BatchFields
  <1>5. new = Batch(r, AskOf(r))
    OBVIOUS
  <1> HIDE DEF new
  <1>6. \A c \in Client : SendsSound(c)' /\ ToldSound(c)'
    BY <1>1, <1>3, SendsKept, ToldKept
  <1>7. ASSUME NEW q \in Request PROVE SessionSound(q)'
    <2>1. SessionSound(q)
      BY DEF SubmissionInv
    <2>2. CASE q = r
      BY <1>1, <2>2 DEF SessionSound
    <2>3. CASE q # r
      <3>1. sessions[q] # "none" /\ AskOf(q).key = AskOf(r).key => AskOf(q).key = NoKey
        BY <1>2, <2>3 DEF SessionSound
      <3>2. sessions[q] # "none" => SameKey(AskOf(q).key)' = {}
        BY <1>1, <1>4, <2>1, <3>1 DEF SessionSound, SameKey, AskOf
      <3> QED
        BY <1>1, <2>1, <2>3, <3>2 DEF SessionSound, AskOf
    <2> QED
      BY <2>2, <2>3
  <1>8. ASSUME NEW b \in batches' PROVE BatchSound(b)'
    <2>1. CASE b = new
      BY <1>1, <1>3, <1>4, <1>5, <2>1 DEF BatchSound, AskOf
    <2>2. CASE b \in batches
      <3>1. BatchSound(b)
        BY <2>2 DEF SubmissionInv
      <3>2. b.id # r
        BY <3>1 DEF BatchSound
      <3> QED
        BY <1>1, <3>1, <3>2 DEF BatchSound, AskOf
    <2> QED
      BY <1>1, <2>1, <2>2
  <1>9. OneBatchPerKey'
    <2>1. \A b \in batches : b.key = new.key => new.key = NoKey
      BY <1>3, <1>4 DEF SameKey
    <2> QED
      BY <1>1, <2>1 DEF SubmissionInv, OneBatchPerKey
  <1> QED
    BY <1>6, <1>7, <1>8, <1>9 DEF SubmissionInv

LEMMA CommitStep ==
    ASSUME SubmissionInv, NEW r \in Request, Commit(r)
    PROVE  SubmissionInv'
  <1> DEFINE new == Batch(r, AskOf(r))
             reply == Answer(new, TRUE)
  <1>1. /\ sessions[r] # "none" /\ Install(r) /\ UNCHANGED <<asks, clients>>
        /\ Reply(r, reply) /\ batches' = batches \union {new}
    BY DEF Commit, Install
  <1>2. AskOf(r) \in Asks /\ AskOf(r) = asks[r[1]] /\ AskOf(r).jobs \in Nat
    BY Requests, AsksAssumption DEF SubmissionInv, Shapes, AskOf
  <1>3. /\ new.id = r /\ new.jobs = AskOf(r).jobs /\ AsAsked(new, AskOf(r))
    BY <1>2, BatchFields, DigestTells
  <1> HIDE DEF new
  <1>4. /\ reply \in Replies /\ reply.kind = "submission" /\ reply.batch = r
        /\ reply.jobs = AskOf(r).jobs
    BY <1>2, <1>3 DEF Answer, Replies
  <1> HIDE DEF reply
  <1>5. /\ handlers'[r].pc = "replied" /\ handlers'[r].reply = reply
        /\ \A q \in Request \ {r} : handlers'[q] = handlers[q]
    BY <1>1 DEF Reply, SubmissionInv, Shapes
  <1>6. Shapes'
    BY <1>1, <1>4 DEF Install, Reply, SubmissionInv, Shapes, HandlerPCs
  <1>7. AnswerSound(r[1], handlers[r].reply)'
    BY <1>1, <1>2, <1>3, <1>4, <1>5 DEF AnswerSound
  <1>8. RepliesSound'
    BY <1>1, <1>5, <1>7, RepliesKept
  <1> QED
    BY <1>1, <1>5, <1>6, <1>8, InstallStep

LEMMA LateCommitStep ==
    ASSUME SubmissionInv, NEW r \in Request, LateCommit(r)
    PROVE  SubmissionInv'
  <1>1. /\ sessions[r] # "none" /\ handlers[r].pc \in {"replied", "gone"} /\ Install(r)
        /\ UNCHANGED <<asks, clients, handlers>> /\ batches \subseteq batches'
    BY DEF LateCommit, Abandoned, Install
  <1>2. Shapes'
    BY <1>1 DEF Install, SubmissionInv, Shapes
  <1>3. handlers[r].pc = "replied" => AnswerSound(r[1], handlers[r].reply)
    BY DEF SubmissionInv, RepliesSound
  <1>4. handlers'[r].pc = "replied" => AnswerSound(r[1], handlers[r].reply)'
    BY <1>1, <1>3 DEF AnswerSound
  <1>5. RepliesSound'
    BY <1>1, <1>4, RepliesKept
  <1> QED
    BY <1>1, <1>2, <1>5, InstallStep

LEMMA RollbackStep ==
    ASSUME SubmissionInv, NEW r \in Request, Rollback(r)
    PROVE  SubmissionInv'
  <1>1. /\ handlers[r].pc \in {"replied", "gone"}
        /\ UNCHANGED <<asks, clients, handlers, batches>>
        /\ sessions'[r] = "none"
        /\ \A q \in Request \ {r} : sessions'[q] = sessions[q]
    BY DEF Rollback, Abandoned, SubmissionInv, Shapes
  <1>2. Shapes'
    BY DEF Rollback, SubmissionInv, Shapes
  <1>3. \A c \in Client : SendsSound(c)' /\ ToldSound(c)'
    BY <1>1, ToldKept DEF SubmissionInv, SendsSound
  <1>4. \A q \in Request : SessionSound(q)'
    BY <1>1 DEF SubmissionInv, SessionSound, SameKey, AskOf
  <1>5. \A b \in batches' : BatchSound(b)'
    BY <1>1 DEF SubmissionInv, BatchSound, AskOf
  <1>6. OneBatchPerKey' /\ RepliesSound'
    BY <1>1 DEF SubmissionInv, OneBatchPerKey, RepliesSound, AnswerSound
  <1> QED
    BY <1>2, <1>3, <1>4, <1>5, <1>6 DEF SubmissionInv

LEMMA ApiDiesStep ==
    ASSUME SubmissionInv, ApiDies
    PROVE  SubmissionInv'
  <1>1. /\ UNCHANGED <<asks, clients, sessions, batches>>
        /\ \A r \in Request : \/ handlers[r].pc = "none" /\ handlers'[r] = handlers[r]
                              \/ handlers[r].pc # "none" /\ handlers'[r].pc = "gone"
    BY DEF ApiDies
  <1>2. Shapes'
    <2>1. NoReply \in Replies
      BY DEF NoReply, Refusal, Replies
    <2> QED
      BY <2>1 DEF ApiDies, SubmissionInv, Shapes, HandlerPCs
  <1>3. \A c \in Client : SendsSound(c)' /\ ToldSound(c)'
    BY <1>1, ToldKept, Requests DEF SubmissionInv, SendsSound
  <1>4. \A q \in Request : SessionSound(q)'
    BY <1>1 DEF SubmissionInv, SessionSound, SameKey, AskOf
  <1>5. \A b \in batches' : BatchSound(b)'
    BY <1>1 DEF SubmissionInv, BatchSound, AskOf
  <1>6. OneBatchPerKey' /\ RepliesSound'
    BY <1>1 DEF SubmissionInv, OneBatchPerKey, RepliesSound
  <1> QED
    BY <1>2, <1>3, <1>4, <1>5, <1>6 DEF SubmissionInv

-----------------------------------------------------------------------------
(* The theorems.                                                           *)

LEMMA InitSound == Init => SubmissionInv
  <1> SUFFICES ASSUME Init PROVE SubmissionInv
    OBVIOUS
  <1>1. NoReply \in Replies
    BY DEF NoReply, Refusal, Replies
  <1>2. Shapes
    BY <1>1, SendsAssumption DEF Init, Shapes, ClientPCs, HandlerPCs
  <1>3. \A c \in Client : SendsSound(c) /\ ToldSound(c)
    BY SendsAssumption, Requests DEF Init, SendsSound, ToldSound
  <1>4. /\ \A r \in Request : SessionSound(r)
        /\ \A b \in batches : BatchSound(b)
        /\ OneBatchPerKey /\ RepliesSound
    BY DEF Init, SessionSound, OneBatchPerKey, RepliesSound
  <1> QED
    BY <1>2, <1>3, <1>4 DEF SubmissionInv

LEMMA NextSound == SubmissionInv /\ [Next]_vars => SubmissionInv'
  <1> SUFFICES ASSUME SubmissionInv, [Next]_vars PROVE SubmissionInv'
    OBVIOUS
  <1>1. ASSUME NEW c \in Client, ClientStep(c) PROVE SubmissionInv'
    BY <1>1, SendStep, ReceiveStep, FailedStep DEF ClientStep, Unreachable, GiveUpWaiting
  <1>2. ASSUME NEW r \in Request, HandlerStep(r) PROVE SubmissionInv'
    <2>1. CASE Forbid(r)
      BY <2>1, RefusalSound, ReplyStep DEF Forbid
    <2>2. CASE HandlerFails(r)
      BY <2>2, RefusalSound, ReplyStep DEF HandlerFails
    <2> QED
      BY <1>2, <2>1, <2>2, InsertBatchStep, FindBatchStep, InsertJobsStep, CommitStep,
         LateCommitStep, RollbackStep DEF HandlerStep
  <1>3. CASE ApiDies
    BY <1>3, ApiDiesStep
  <1>4. CASE ApiStarts \/ Settled \/ UNCHANGED vars
    <2>1. UNCHANGED <<asks, clients, handlers, sessions, batches>>
      BY <1>4 DEF ApiStarts, Settled, vars
    <2>2. Shapes' /\ OneBatchPerKey' /\ RepliesSound'
      BY <2>1 DEF SubmissionInv, Shapes, OneBatchPerKey, RepliesSound, AnswerSound
    <2>3. \A c \in Client : SendsSound(c)' /\ ToldSound(c)'
      BY <2>1, ToldKept DEF SubmissionInv, SendsSound
    <2>4. \A q \in Request : SessionSound(q)'
      BY <2>1 DEF SubmissionInv, SessionSound, SameKey, AskOf
    <2>5. \A b \in batches' : BatchSound(b)'
      BY <2>1 DEF SubmissionInv, BatchSound, AskOf
    <2> QED
      BY <2>2, <2>3, <2>4, <2>5 DEF SubmissionInv
  <1> QED
    BY <1>1, <1>2, <1>3, <1>4 DEF Next

\* SubmissionInv holds of every reachable state (client.py, api.py, store.py).
THEOREM SubmissionInductive == Spec => []SubmissionInv
  BY InitSound, NextSound, PTL DEF Spec

\* A key names one batch, however often and by whomever it is submitted, and
\* whichever session commits late (store.py, submit_batch).
THEOREM KeysNameOneBatch == Spec => []OneBatchPerKey
  <1>1. SubmissionInv => OneBatchPerKey
    BY DEF SubmissionInv
  <1> QED
    BY <1>1, SubmissionInductive, PTL

\* One call of FleetClient.submit makes at most one batch, keyed or not.
THEOREM CallsMakeOneBatch == Spec => []OneBatchPerCall
  <1>1. ASSUME SubmissionInv, NEW c \in Client
        PROVE  Cardinality({b \in batches : b.id[1] = c}) <= 1
    <2> DEFINE made == {b \in batches : b.id[1] = c}
    <2>1. ASSUME NEW b \in made, NEW d \in made PROVE b = d
      <3>1. /\ BatchSound(b) /\ BatchSound(d) /\ b \in batches /\ d \in batches
            /\ b.id[1] = c /\ d.id[1] = c
        BY <1>1 DEF SubmissionInv
      <3>2. b.key = asks[c].key /\ d.key = asks[c].key
        BY <3>1, BatchFields DEF BatchSound, AskOf
      <3>3. CASE asks[c].key # NoKey
        BY <1>1, <3>1, <3>2, <3>3 DEF SubmissionInv, OneBatchPerKey
      <3>4. CASE asks[c].key = NoKey
        <4>1. SendsSound(c) /\ clients[c].sends \in Nat
          BY <1>1, SendsAssumption DEF SubmissionInv, Shapes
        <4>2. ASSUME NEW x \in {b, d} PROVE x.id = <<c, 1>>
          <5>1. /\ x.id \in Request /\ x.id = <<c, x.id[2]>> /\ x.id[2] \in 1 .. MaxSends
                /\ handlers[x.id].pc # "none"
            BY <3>1, Requests DEF BatchSound
          <5>2. ~ (x.id[2] > clients[c].sends)
            BY <4>1, <5>1 DEF SendsSound
          <5>3. clients[c].sends <= 1
            BY <3>4, <4>1 DEF SendsSound
          <5>4. x.id[2] = 1
            BY <4>1, <5>1, <5>2, <5>3, SendsAssumption
          <5> QED
            BY <5>1, <5>4
        <4> QED
          BY <3>1, <4>2 DEF BatchSound
      <3> QED
        BY <3>3, <3>4
    <2>2. made = {} \/ \E b \in made : made = {b}
      BY <2>1
    <2>3. Cardinality(made) \in {0, 1}
      <3> HIDE DEF made
      <3> QED
        BY <2>2, FS_EmptySet, FS_Singleton
    <2> QED
      BY <2>3
  <1>2. SubmissionInv => OneBatchPerCall
    BY <1>1 DEF OneBatchPerCall
  <1> QED
    BY <1>2, SubmissionInductive, PTL

\* A submission a client was given is stored, is what it asked for and within
\* the operator's limits, and is the one every caller with its key was given.
THEOREM AnswersStayTrue == Spec => []AnswersAreTrue
  <1>1. ASSUME SubmissionInv, NEW c \in Client, clients[c].pc = "done"
        PROVE  \E b \in batches : /\ b.id = clients[c].answer.batch
                                  /\ b.key = asks[c].key
                                  /\ AsAsked(b, asks[c])
                                  /\ clients[c].answer.jobs = asks[c].jobs
                                  /\ Allowed(b.policy)
    <2>1. PICK b \in batches : /\ b.id = clients[c].answer.batch
                               /\ AsAsked(b, asks[c])
                               /\ clients[c].answer.jobs = asks[c].jobs
      BY <1>1 DEF SubmissionInv, ToldSound, AnswerSound
    <2>2. b.key = asks[c].key
      BY <2>1 DEF AsAsked
    <2>3. BatchSound(b)
      BY <1>1 DEF SubmissionInv
    <2>4. Allowed(b.policy)
      BY <2>3, BatchFields DEF BatchSound
    <2> QED
      BY <2>1, <2>2, <2>4
  <1>2. ASSUME SubmissionInv, NEW c \in Client, clients[c].pc = "done",
               NEW d \in Client, clients[d].pc = "done", asks[d].key = asks[c].key,
               asks[c].key # NoKey
        PROVE  clients[d].answer.batch = clients[c].answer.batch
    <2>1. PICK b \in batches : b.id = clients[c].answer.batch /\ b.key = asks[c].key
      BY <1>1, <1>2
    <2>2. PICK e \in batches : e.id = clients[d].answer.batch /\ e.key = asks[d].key
      BY <1>1, <1>2
    <2>3. b = e
      BY <1>2, <2>1, <2>2 DEF SubmissionInv, OneBatchPerKey
    <2> QED
      BY <2>1, <2>2, <2>3
  <1>3. SubmissionInv => AnswersAreTrue
    <2> SUFFICES ASSUME SubmissionInv, NEW c \in Client, clients[c].pc = "done"
                 PROVE  /\ \E b \in batches :
                             /\ b.id = clients[c].answer.batch
                             /\ AsAsked(b, asks[c])
                             /\ clients[c].answer.jobs = asks[c].jobs
                             /\ Allowed(b.policy)
                        /\ \A d \in Client :
                             (clients[d].pc = "done" /\ asks[d].key = asks[c].key
                                /\ asks[c].key # NoKey)
                                => clients[d].answer.batch = clients[c].answer.batch
      BY DEF AnswersAreTrue
    <2> QED
      BY <1>1, <1>2
  <1> QED
    BY <1>3, SubmissionInductive, PTL

\* A conflict is only ever reported of a key that a different batch has taken.
THEOREM ConflictsStayReal == Spec => []ConflictsAreReal
  <1>1. SubmissionInv => ConflictsAreReal
    BY DEF SubmissionInv, ConflictsAreReal, ToldSound, AnswerSound
  <1> QED
    BY <1>1, SubmissionInductive, PTL

=============================================================================
