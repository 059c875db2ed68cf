----------------------------- MODULE Submission -----------------------------
(***************************************************************************)
(* Submitting a batch: clients (backend/fleet/client.py) that send it and  *)
(* send it again, the api that handles it (api.py) and the store call that *)
(* enqueues it (store.py, submit_batch), with answers lost, handlers that  *)
(* fail and an api that dies at any point.                                 *)
(*                                                                         *)
(* A request is a client and the number of its send.  Its handler and the  *)
(* database session behind it are apart: a session whose handler failed or *)
(* died still holds its key until it commits or rolls back, and a handler  *)
(* goes on when its client no longer listens.                              *)
(***************************************************************************)
EXTENDS Naturals, FiniteSets

CONSTANTS
    Client,
    Asks,      \* what clients may submit: a key or NoKey, a label, a number
               \* of jobs, and a policy [limits, egress]
    NoKey,     \* no idempotency key
    Ceilings,  \* OperatorLimits: the most of each resource
    Grantable, \* OperatorLimits.grantable_egress
    MaxSends   \* bounds how often retry_seconds lets a client send

ASSUME SendsAssumption == MaxSends \in Nat \ {0}
ASSUME AsksAssumption ==
    \A ask \in Asks :
        /\ ask = [key |-> ask.key, label |-> ask.label, jobs |-> ask.jobs,
                  policy |-> ask.policy]
        /\ ask.jobs \in Nat

VARIABLES
    asks,      \* what each client submits
    clients,   \* each call of FleetClient.submit
    handlers,  \* each request's handler in the api
    sessions,  \* each request's transaction in submit_batch
    batches,   \* fleet_batches, with each batch's fleet_jobs
    up         \* whether the api runs

vars == <<asks, clients, handlers, sessions, batches, up>>

Request == Client \X (1 .. MaxSends)
None    == "none"

\* Broken: the digest leaves the policy out.
RequestDigestBare(ask) == [ask EXCEPT !.key = NoKey, !.policy = None]

\* request_digest: everything about the batch but its key.
RequestDigest(ask) == [ask EXCEPT !.key = NoKey]

\* A batch's identity column is the request that created it; its policy and
\* the number of its jobs are those of its fleet_jobs rows.
Batch(r, ask) ==
    [id |-> r, key |-> ask.key, digest |-> RequestDigest(ask), label |-> ask.label,
     jobs |-> ask.jobs, policy |-> ask.policy]

\* OperatorLimits.check.
Allowed(policy) ==
    /\ \A resource \in DOMAIN policy.limits :
         policy.limits[resource] <= Ceilings[resource]
    /\ policy.egress \subseteq Grantable

Answer(batch, created) ==
    [kind |-> "submission", batch |-> batch.id, jobs |-> batch.jobs, created |-> created]
NoBatch       == << >>
Refusal(kind) == [kind |-> kind, batch |-> NoBatch, jobs |-> 0, created |-> FALSE]
NoReply       == Refusal("none")

AskOf(r) == asks[r[1]]

Init ==
    /\ asks \in [Client -> Asks]
    /\ clients  = [c \in Client |-> [pc |-> "send", sends |-> 0, answer |-> NoReply]]
    /\ handlers = [r \in Request |-> [pc |-> "none", reply |-> NoReply]]
    /\ sessions = [r \in Request |-> "none"]
    /\ batches  = {}
    /\ up       = TRUE

-----------------------------------------------------------------------------
(* The client.                                                             *)

Settle(c, pc, answer) ==
    clients' = [clients EXCEPT ![c].pc = pc, ![c].answer = answer]

\* Broken: a batch without a key is sent again too.
MaySendAgainAny(c) == clients[c].sends < MaxSends

\* Only a key makes sending it again safe.
MaySendAgain(c) == asks[c].key # NoKey /\ clients[c].sends < MaxSends

\* The api was unreachable, silent or failing: again, if that is safe and the
\* deadline has not passed, or raise.
Failed(c) ==
    \/ MaySendAgain(c) /\ Settle(c, "send", NoReply)
    \/ Settle(c, "raised", NoReply)

Send(c) ==
    /\ clients[c].pc = "send"
    /\ up
    /\ LET n == clients[c].sends + 1
       IN  /\ clients'  = [clients EXCEPT ![c].pc = "wait", ![c].sends = n]
           /\ handlers' = [handlers EXCEPT ![<<c, n>>].pc = "received"]
    /\ UNCHANGED <<asks, sessions, batches, up>>

Unreachable(c) ==
    /\ clients[c].pc = "send"
    /\ ~up
    /\ Failed(c)
    /\ UNCHANGED <<asks, handlers, sessions, batches, up>>

\* The answer is lost, late, or its connection broke with the api.
GiveUpWaiting(c) ==
    /\ clients[c].pc = "wait"
    /\ Failed(c)
    /\ UNCHANGED <<asks, handlers, sessions, batches, up>>

Receive(c) ==
    LET reply == handlers[<<c, clients[c].sends>>].reply
    IN  /\ clients[c].pc = "wait"
        /\ handlers[<<c, clients[c].sends>>].pc = "replied"
        /\ \/ reply.kind = "submission" /\ Settle(c, "done", reply)
           \/ reply.kind \in {"forbidden", "conflict"} /\ Settle(c, "refused", reply)
           \/ reply.kind = "error" /\ Failed(c)
        /\ UNCHANGED <<asks, handlers, sessions, batches, up>>

-----------------------------------------------------------------------------
(* The api's handler and submit_batch's statements.                        *)

Reply(r, reply) == handlers' = [handlers EXCEPT ![r] = [pc |-> "replied", reply |-> reply]]

SameKey(key) == {b \in batches : key # NoKey /\ b.key = key}

\* Broken: nobody waits for another session's uncommitted key.
KeyWaitedForNever(r) == TRUE

\* An insert waits for any session that has inserted the same key.
KeyWaitedFor(r) ==
    \A q \in Request \ {r} :
        sessions[q] # "none" /\ AskOf(q).key = AskOf(r).key => AskOf(r).key = NoKey

Forbid(r) ==
    /\ handlers[r].pc = "received"
    /\ ~Allowed(AskOf(r).policy)
    /\ Reply(r, Refusal("forbidden"))
    /\ UNCHANGED <<asks, clients, sessions, batches, up>>

\* insert ... on conflict (idempotency_key) do nothing
InsertBatch(r) ==
    /\ handlers[r].pc = "received"
    /\ Allowed(AskOf(r).policy)
    /\ KeyWaitedFor(r)
    /\ SameKey(AskOf(r).key) = {}
    /\ sessions' = [sessions EXCEPT ![r] = "keyed"]
    /\ handlers' = [handlers EXCEPT ![r].pc = "inserting"]
    /\ UNCHANGED <<asks, clients, batches, up>>

\* Broken: any taken key is a conflict.
FindBatchConflict(r) ==
    /\ handlers[r].pc = "received"
    /\ Allowed(AskOf(r).policy)
    /\ KeyWaitedFor(r)
    /\ SameKey(AskOf(r).key) # {}
    /\ Reply(r, Refusal("conflict"))
    /\ UNCHANGED <<asks, clients, sessions, batches, up>>

\* The key was taken: by the same batch, or by another.
FindBatch(r) ==
    /\ handlers[r].pc = "received"
    /\ Allowed(AskOf(r).policy)
    /\ KeyWaitedFor(r)
    /\ \E b \in SameKey(AskOf(r).key) :
         Reply(r, IF b.digest = RequestDigest(AskOf(r))
                  THEN Answer(b, FALSE) ELSE Refusal("conflict"))
    /\ UNCHANGED <<asks, clients, sessions, batches, up>>

InsertJobs(r) ==
    /\ handlers[r].pc = "inserting"
    /\ sessions[r] = "keyed"
    /\ sessions' = [sessions EXCEPT ![r] = "filled"]
    /\ UNCHANGED <<asks, clients, handlers, batches, up>>

Install(r) ==
    /\ batches'  = batches \union {Batch(r, AskOf(r))}
    /\ sessions' = [sessions EXCEPT ![r] = "none"]

Commit(r) ==
    /\ handlers[r].pc = "inserting"
    /\ sessions[r] = "filled"
    /\ Install(r)
    /\ Reply(r, Answer(Batch(r, AskOf(r)), TRUE))
    /\ UNCHANGED <<asks, clients, up>>

\* The database connection is lost under the handler, which does not retry.
HandlerFails(r) ==
    /\ handlers[r].pc \in {"received", "inserting"}
    /\ Reply(r, Refusal("error"))
    /\ UNCHANGED <<asks, clients, sessions, batches, up>>

ApiDies ==
    /\ up
    /\ up' = FALSE
    /\ handlers' = [r \in Request |->
                      IF handlers[r].pc = "none" THEN handlers[r]
                      ELSE [pc |-> "gone", reply |-> NoReply]]
    /\ UNCHANGED <<asks, clients, sessions, batches>>

ApiStarts ==
    /\ ~up
    /\ up' = TRUE
    /\ UNCHANGED <<asks, clients, handlers, sessions, batches>>

\* A session nobody serves commits, if COMMIT was on its way, or rolls back.
Abandoned(r) == sessions[r] # "none" /\ handlers[r].pc \in {"replied", "gone"}

LateCommit(r) ==
    /\ Abandoned(r)
    /\ sessions[r] = "filled"
    /\ Install(r)
    /\ UNCHANGED <<asks, clients, handlers, up>>

Rollback(r) ==
    /\ Abandoned(r)
    /\ sessions' = [sessions EXCEPT ![r] = "none"]
    /\ UNCHANGED <<asks, clients, handlers, batches, up>>

-----------------------------------------------------------------------------
ClientStep(c) == Send(c) \/ Unreachable(c) \/ GiveUpWaiting(c) \/ Receive(c)

HandlerStep(r) ==
    \/ Forbid(r) \/ InsertBatch(r) \/ FindBatch(r) \/ InsertJobs(r) \/ Commit(r)
    \/ HandlerFails(r) \/ LateCommit(r) \/ Rollback(r)

Settled ==
    /\ \A c \in Client : clients[c].pc \in {"done", "refused", "raised"}
    /\ UNCHANGED vars

Next ==
    \/ \E c \in Client : ClientStep(c)
    \/ \E r \in Request : HandlerStep(r)
    \/ ApiDies
    \/ ApiStarts
    \/ Settled

Spec == Init /\ [][Next]_vars

-----------------------------------------------------------------------------
\* A key names one batch (store.py, submit_batch; design.md: exactly one batch
\* is created), whoever submits it, how often, and whichever session commits.
OneBatchPerKey ==
    \A b, d \in batches : b.key = d.key /\ b.key # NoKey => b = d

\* One call of FleetClient.submit makes at most one batch, keyed or not,
\* though the call sends it again and abandoned sessions may commit late.
OneBatchPerCall ==
    \A c \in Client : Cardinality({b \in batches : b.id[1] = c}) <= 1

\* The stored batch is the one asked for, whatever the digests say.
AsAsked(b, ask) ==
    [key |-> b.key, label |-> b.label, jobs |-> b.jobs, policy |-> b.policy] = ask

\* A submission a client was given is a stored batch with the content it asked
\* for, and within the operator's limits; and every caller with that key was
\* given the same one.
AnswersAreTrue ==
    \A c \in Client : clients[c].pc = "done" =>
        /\ \E b \in batches :
             /\ b.id = clients[c].answer.batch
             /\ AsAsked(b, asks[c])
             /\ clients[c].answer.jobs = asks[c].jobs
             /\ Allowed(b.policy)
        /\ \A d \in Client :
             (clients[d].pc = "done" /\ asks[d].key = asks[c].key /\ asks[c].key # NoKey)
                => clients[d].answer.batch = clients[c].answer.batch

\* A conflict is only ever reported for a key that a different batch has
\* taken for good, never for a client's own earlier send.
ConflictsAreReal ==
    \A c \in Client : (clients[c].pc = "refused" /\ clients[c].answer.kind = "conflict") =>
        \E b \in batches : b.key = asks[c].key /\ ~AsAsked(b, asks[c])

=============================================================================
