------------------------ MODULE SubmissionInvariant -------------------------
(***************************************************************************)
(* Why submitting is safe: an inductive invariant.  A session holds its    *)
(* key alone, and holds it before any batch has it; a batch is what its    *)
(* request asked for, and its request is over; a handler exists only for   *)
(* what was sent; and what a handler replies, or a client was told, is so. *)
(***************************************************************************)
EXTENDS Submission

ClientPCs  == {"send", "wait", "done", "refused", "raised"}
HandlerPCs == {"none", "received", "inserting", "replied", "gone"}

Replies ==
    [kind : {"none", "submission", "forbidden", "conflict", "error"},
     batch : Request \union {NoBatch}, jobs : Nat, created : BOOLEAN]

Shapes ==
    /\ asks \in [Client -> Asks]
    /\ clients \in [Client -> [pc : ClientPCs, sends : 0 .. MaxSends, answer : Replies]]
    /\ handlers \in [Request -> [pc : HandlerPCs, reply : Replies]]
    /\ sessions \in [Request -> {"none", "keyed", "filled"}]

\* A client sends within its bound, and without a key once; what it has not
\* sent has no handler.
SendsSound(c) ==
    /\ clients[c].pc = "send" => clients[c].sends < MaxSends
    /\ clients[c].pc = "wait" => clients[c].sends >= 1
    /\ asks[c].key = NoKey => /\ clients[c].sends <= 1
                              /\ clients[c].pc = "send" => clients[c].sends = 0
    /\ \A n \in 1 .. MaxSends : n > clients[c].sends => handlers[<<c, n>>].pc = "none"

\* A session that is open was let in, holds its key alone, and nothing stored
\* has that key.
SessionSound(r) ==
    /\ sessions[r] # "none" =>
         /\ handlers[r].pc \in {"inserting", "replied", "gone"}
         /\ Allowed(AskOf(r).policy)
         /\ SameKey(AskOf(r).key) = {}
         /\ \A q \in Request \ {r} :
              sessions[q] # "none" /\ AskOf(q).key = AskOf(r).key => AskOf(r).key = NoKey
    /\ handlers[r].pc = "inserting" => sessions[r] # "none"

\* A stored batch is its request's, and its request is over.
BatchSound(b) ==
    /\ b.id \in Request
    /\ b = Batch(b.id, AskOf(b.id))
    /\ Allowed(AskOf(b.id).policy)
    /\ handlers[b.id].pc \in {"replied", "gone"}
    /\ sessions[b.id] = "none"

\* What an answer to c says is so.
AnswerSound(c, answer) ==
    /\ answer.kind = "submission" =>
         \E b \in batches : /\ b.id = answer.batch
                            /\ AsAsked(b, asks[c])
                            /\ answer.jobs = asks[c].jobs
    /\ answer.kind = "conflict" =>
         \E b \in batches : b.key = asks[c].key /\ ~AsAsked(b, asks[c])

RepliesSound ==
    \A r \in Request : handlers[r].pc = "replied" => AnswerSound(r[1], handlers[r].reply)

ToldSound(c) ==
    /\ clients[c].pc \in {"done", "refused"} => AnswerSound(c, clients[c].answer)
    /\ clients[c].pc = "done" => clients[c].answer.kind = "submission"

\* The inductive invariant: whichever session commits, and whenever, it alone
\* may have its key.
SubmissionInv ==
    /\ Shapes
    /\ \A c \in Client : SendsSound(c)
    /\ \A r \in Request : SessionSound(r)
    /\ \A b \in batches : BatchSound(b)
    /\ OneBatchPerKey
    /\ RepliesSound
    /\ \A c \in Client : ToldSound(c)

=============================================================================
