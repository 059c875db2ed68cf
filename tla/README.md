# A TLA+ model of the agentic coding sandbox

The repository runs coding agents on tickets. A **fleet** of worker processes
takes jobs from a queue in Postgres, runs each job in a container (or in
process), and stores exactly one result per job, whatever crashes or drops on the
way. Around it are an agent, the sandbox the agent's tools run in, an
evaluation harness, a benchmark with record and replay, and a read-only web
app. This project models the fleet first, where the concurrency, the failures
and the promises are, then the agent's run that a job of the fleet is, and then
the tools that measure both: the fault injection harness, recordings and their
replay, the bench's commands, and the app's evaluations.

## 1. The system

### Components

| component | state | operations | hard behaviours | correct when |
|---|---|---|---|---|
| job store (`fleet/store.py`, migrations) | `fleet_jobs`, `fleet_attempts`, `fleet_results`, row locks | submit_batch, claim, start, heartbeat, cancel, finish_cancelled, publish, release, reap, record_execution | interleaved transactions, SKIP LOCKED, late commits | one result per job, from the attempt that held a live lease; gapless attempt log; budgets kept |
| worker (`fleet/worker.py`, `connections.py`) | the step it is in, its job and attempt, counters | step, the heartbeat loop, ride-through | kills, dropped connections, repeated calls | every job ends; counters true |
| run checker (`fleet/invariants.py`) | none | check | - | passes every run that was right |
| fleet api, client (`fleet/api.py`, `client.py`) | idempotency keys | submit, cancel, status, wait | lost answers, racing submitters | a batch is created once; a cancel lands |
| container execution (`execution.py`, `containers.py`, `docker.py`) | containers, networks | run, reap_orphans, the result of a run | cancellation mid-create, wall clock, frozen workers, limits that race | nothing of a dead attempt stays, nothing of a live one is removed, a run a limit ended is not run again |
| task process (`task.py`, `progress.py`) | report channel, its own deadline | report, stop | kill, memory limit, deadline | what it reported counts only if it ended by itself |
| policy and egress (`policy.py`, `egress.py`) | - | check, allow | - | no accepted batch exceeds the operator's limits |
| fault points and chaos harness (`failpoints.py`, `chaos/`) | arms, hits, logs of faults | inject, wake, replace, restart, record | several faults on one job | a drained run shows every effect its scenario promises |
| agent loop (`app/agent`) | transcript, verified flag, budget | run | malformed answers, limits | finish only after a passing verification |
| sandbox (`sandbox/`, mcp servers) | session workspace | tools | path escape, timeouts | no effect outside the workspace |
| ticket tracker (`app/tracker`, `mcp/tracker_server.py`) | a JSON file | status, comment | unlocked read-modify-write, in place | no answered update is lost |
| tickets and evaluation (`app/tickets`, `app/eval`, `app/benchmark`) | a database of runs, report files | resolve, grade, persist, import, gate, compare | overlapping commands, partial runs | what passes is no worse; what is stored adds up |
| record and replay (`bench/replay.py`) | a recording, a cursor | complete, replay, check | retries, changed settings, a recording's end | a replay is faithful or refused |
| bench executors and commands (`bench/`) | trials, summaries, recordings on disk | record, replay, ab, scale, summarize, compare | commands cut short or killed, files of earlier sessions | an exit code speaks of this session's files |
| web app | - | read pages | - | - |

Workers, the api and the checker share nothing but the database. A worker
learns of a cancel from its heartbeat, of a lost lease from a refused call, and
of an attempt abandoned by another worker only through `reap`.

`PROJECT.json` lists every component with its status, and under `hazards` each
behaviour that is hard to test, at its line.

### Plan

1. **Done.** The job queue: `JobStore`, `Fleet`, `RunChecker`, `JobQueue`,
   `FleetSafety`, `FleetInvariant`, `FleetDrain`, `FleetProofs` (section 2).
2. **Done.** `Submission`: `submit_batch` with its idempotency key, the api's
   handler and the client's retries (section 3).
3. **Done.** `Containers`: what a run asks of Docker, and `reap_orphans`
   (section 4).
4. **Done.** `Sandbox`, `AgentLoop`, `TaskRun`: the agent's loop, its tools and
   the runners that grade it (section 5).
5. **Done.** How `Containers` makes a result of exits, limits and reports.
6. **Done.** `Chaos` (section 6), `Replay` and `Campaign` (section 7),
   `Evaluation` (section 8).
7. **Done.** Proofs of what the fleet, submissions, containers, the runs of tasks
   and tickets, the fault injection harness, record and replay, the bench's
   commands, and evaluations promise (section 10).

What composes what: `Fleet` extends `JobStore`; `FleetSafety`, `FleetDrain` and
`Chaos` each put something around the same `Fleet`, and `FleetSafety` and `Chaos`
judge it by the same `RunChecker`; `FleetSafety` maps it to `JobQueue`. `TaskRun`
extends `AgentLoop`, which extends `Sandbox`. The other modules share nothing with
one another but what their comments name.

## 2. The job queue

### Modules

- **`JobStore`**: the three tables as functions and a set, and `open`, the set of
  transactions that hold locks and have not committed. A transaction is its
  write set: new versions of the job rows it has locked (`rows`), attempt rows
  (`logs`), result rows (`stored`), and the worker that awaits its answer
  (`owner`). Every store call has an operator for what its statements test
  (`HeldLive`, `Lapsed`, `Claimable`, `CancelDue`) and one for what they write
  (`ClaimTxn`, `PublishTxn`, `EndAttemptsTxn`, ...). `JobChecks` and
  `AttemptChecks` are the migrations' constraints.
- **`Fleet`** extends it: `Worker.step` with one action per store call, the answers
  to those calls, dropped connections, killed and restarted workers, the api's
  cancel, and time.
- **`RunChecker`**: `invariants.py`, invariant by invariant.
- **`JobQueue`**: the abstract specification. A job is queued, held or over; claims
  count up to a budget; a cancel is remembered; a job that ends with an outcome
  gets one answer. It has no workers, no clock and no transactions.
- **`FleetSafety`**: the safety properties and the refinement mapping to `JobQueue`.
- **`FleetInvariant`**: an inductive invariant of the rows and their locks;
  **`FleetLedger`**: the larger one, of the attempt log and the workers' counters too;
  **`FleetProofs`**: what follows from both.
- **`FleetDrain`**: the fleet with unbounded time and fairness, for liveness.
- **`MCFleet`**, **`MCFleetDrain`**: instances for TLC.

Operators under a comment "Broken:" are deliberate errors; nothing uses them.
They show that a property would notice: put in place of the definition after
them, each makes TLC report the property `PROJECT.json` names with it.

### How it corresponds to the code

A store call is **two steps**: its statements, which read committed rows, lock
and write, and its commit. Everything else may happen in between, so a lease may
lapse, or the worker die, between the two. A call that only reads and refuses is
one step.

- `claim` and `reap` pass locked rows by (SKIP LOCKED); the others wait for the
  lock, and only if the committed row passes the statement's test, as Postgres
  does. `release` and `finish_cancelled` take their clock reading in a
  materialized CTE *before* they wait; the model keeps that reading in `asked` and
  re-tests the row against it (`AskToEnd`, `EndWaited`). `publish` locks first and
  reads the clock afterwards; both are one step here, with nothing to distinguish
  them since the row cannot change while it is locked.
- `ride_through` repeats a call from its start on a new connection (`Drop`). The
  session it left stays in `open` with no owner, and may still commit
  (`LateCommit`) or roll back (`Rollback`). The second attempt of a call may thus run
  before, after or instead of the first. What each call does about that is
  modelled: `start` accepts a job already running, `publish` its own stored result,
  `release` and `finish_cancelled` an attempt already ended so.
- `Crash` is a kill, or a database away longer than ride-through waits. `Restart`
  reuses the worker's id; a new id would only take away coincidences.
- The api's `cancel` is a transaction nobody owns: its client may hang up at any
  point, so it ends as an abandoned session does.
- `record_execution` is a single step, because nothing reads what it writes; it
  only respects the lock on the attempt's row.

Left out: columns that nothing branches on (names, payloads, error texts, most
timestamps); the identity of a result row, which is its attempt's number (unique
per job); the body of a result, for which its outcome stands; poll delays; the
counters, of which the last one bumped is kept (`report`). A batch is submitted before
the behaviour begins.

## 3. Submission

`Submission`: clients that post a batch with or without an idempotency key and
post it again when the answer is lost or a 5xx, handlers of the api that insert
the batch, wait for a key another session has inserted, or find it and compare
the request's digest, and an api that dies and comes back. An insert with
`on conflict do nothing` waits for the other session to end, whoever owns it;
`KeyWaitedFor` is that wait. A session whose handler died may still commit
(`LateCommit`) or be rolled back. A batch here is its key, its digest and whether
its jobs are in; what a job becomes is `Fleet`'s matter.

## 4. Containers

`Containers`: each attempt may have a network, a proxy container and a task
container. A run is at one call to Docker; the call succeeds, fails (`CallFails`),
or is cut off by `Stop`, when the heartbeat has met a lost lease or a cancel. A
create that is cut off may still be carried out by the daemon (`CreatedLate`).
`created` and `network` are the locals of `InContainer.run`: `network` is assigned
only when `_egress` returns, so a run that fails inside `_egress` does not know
of its network. The `finally` clause is a step per removal, because a second
cancel can end it half-way. A run that raises takes its worker down
(`work.result()` raises in `Worker._run`). `connect` and `inspect` are part of the
call before and after them: they change nothing the model keeps.

**Results.** A task stops by itself, with a report of its result or of its error
or with none, and perhaps with something in it killed for its memory (`Exits`), or
at its own deadline. `Result` ranks them as `_result` does: the worker's timeout
first, then a result with exit code 0, then the memory limit, then the task's own
error. `LimitKillsAreFinal` is about the order: an error is given back and run
again, a limit is a result. The container's own deadline (`task.py`, `_stop_at`)
trails the worker's timeout by 30 seconds, as long as a lease. A worker that still
waits when it strikes has slept through its timeout and has lost its lease;
`OwnDeadline` takes that for granted.

`reap_orphans` lists containers, lists networks, reads the live attempts and
removes, each a step. Leases are reduced to what `live_attempts` would say;
heartbeats need no step of their own, except where `SlowCommits` lets one commit
after the lease it replaces has run out.

## 5. A task or a ticket

- **`Sandbox`**: the workspace, and a queue of tool calls: in process a thread
  runs them, over MCP a server, one at a time (its tools are plain functions on
  its event loop). A command may hang until the wall clock kills it; a call may
  raise; over MCP the client may stop waiting (`GiveUp`) for a call that still runs
  later. Of the files the model keeps whether the hidden tests would pass, the
  agent's own tests, whether the hidden tests have been written, and the canary.
  Tests the agent has may lie under the hidden tests' names, which are ordinary
  ones (`test_slug.py`): if those were not written, `RunHidden` runs the agent's.
  A write may fail, which raises in process and is an answer over MCP
  (`SandboxFails`), or be refused because its path leads out of the workspace,
  which is an answer on either (`RefuseWrite`). Whoever seeds looks at no answer.
- **`AgentLoop`**: `Agent.run`, one action per branch. The model's answer is any
  answer; parsing is its verdict.
- **`TaskRun`**: `run_task` and `resolve_ticket`: the agent, the snapshot of the
  workspace (read past the sandbox), canaries, hidden tests, the verdict, and the
  cleanup; and a cancel at every await.

Not in it: token counts, prompts, the tool results kept in the recorded steps,
namespaces, output truncation. The kill of a command's process group is taken to end
the call; on a host that grants no pid namespace, a grandchild in a session of its
own could hold the output pipe open past it.

## 6. The fault injection harness

`Chaos` runs the scenarios of `chaos/scenarios.py` over the actions of `Fleet`. Its
workers are the harness's: a fault happens only at the point a worker is armed for
and on the arrival it is armed for (`arms`), and then it kills, stops, hangs or drops
as the scenario says. The harness's own moves are actions: wake a stopped
worker, by its timer or once it was overtaken; replace the dead, at once or after
the faults; claim a job under a ghost's name; cancel; restart Postgres. When the
batch has drained the processes are told to stop, and what the harness then
records is `Violations`: what `RunChecker` says of the tables, and every effect of
the scenario that a fired fault has not left. `FaultsLeaveTheirEffects` says there
are none. It is a claim about the harness as much as the fleet: an effect
stated too strongly would fail runs that were right.

The effects presuppose workers that keep their leases unless a fault stops them.
A heartbeat comes every third of a lease; so time passes no tick while a healthy
worker's lease would run out (`OnTime`). A host so slow that a healthy worker
misses its lease can make the harness report a violation.

`ChaosInvariant` has the inductive invariant behind it and `ChaosProofs` its proof.

The api's scenario is in `Submission`. The workloads in containers and with an
agent repeat the same faults on other runners and are left out, with the files of
records.

## 7. Recordings and the bench

- **`Replay`**: one task recorded and then replayed. The recording run is
  `Agent.run` over `RecordingProvider`, with attempts that fail, are retried and are
  given up; the recording is its calls with their request digests, and how it
  ended. Between the two the prompt, the sampling or the number of iterations may
  have been changed, and a tool call may end differently. The replay compares each
  request (`ReplayError`), stops at the first that differs, and must use the
  recording up (`check_consumed`). Both are classified by `execute_task`. Of an
  observation the first line is kept, which is what a digest can tell apart
  here.
- **`Campaign`**: the commands of `bench/cli.py` over the files they leave. `record`
  runs the task set in process or on a fleet, `replay`, `ab` and `scale` run arms
  over trials, interleaved; `summarize` and `compare` read back. A batch is what
  its executor leaves: results in order, a job dropped at the provider's daily cap,
  a dead letter, a divergence, lost workers. Files are written in place and one
  at a time; a command that dies leaves the one it was writing torn and the
  later ones as an earlier session left them. Of a configuration the model
  keeps the mode, the executor and a digest; of a job its outcome.

## 8. Evaluations and the tracker

`Evaluation`: processes that overlap. `run_benchmark` and its persisting, the
import of the committed baseline, the gate and the comparison, over a database
that commits one run at a time; ticket evaluations that write a report file, and
comparisons that read two; and a tracker server that loads, changes and writes the
tickets' file, is restarted and seeds it if absent. The three share nothing, and a
behaviour is about one of them (`subject`). A file is written in two steps, so it
can be found torn. Classification (`ClassifyFailure`, `DeploymentFailure`,
`TicketTransition`) is by operators; rates are pairs of numbers and are compared
without rounding.

## 9. What is checked

| run | instance | shows |
|---|---|---|
| `fleet` | 1 job, 2 workers, 2 attempts, lease 2, backoff 1, clock to 3, cancellable | `FinalJobsPassCheck`, `OneResultPerJob`, `UnfinishedJobsAreClean`, `CancelWins`, `ConstraintsNeverFire`, `ReportsAreTrue`, `HistoryIsKept`, and that `LedgerInv`, which contains `IndInv`, is an invariant |
| `batch` | 2 jobs with budgets 1 and 2, 1 worker, one job cancellable, lease 1, clock to 2 | `ImplementsQueue`, with a reap of several jobs at once, claim order and dead letters |
| `drain` | 1 job with 2 attempts, 2 workers of which one reliable, 2 faults, cancels among them | `EveryJobEnds`, `CancelLands` |
| `stale_clock` | as `fleet` | violated: `EndingsAreLiveWhenLocked` |
| `submit` | 2 clients, 1 key, 3 sends each, lost answers, failing handlers, an api that dies | `OneBatchPerKey`, `OneBatchPerCall`, `AnswersAreTrue`, `ConflictsAreReal` |
| `containers` | 2 attempts, 2 workers, every exit of a task, late creates, no other fault | `LimitKillsAreFinal`, `TasksRunBehindTheirProxy`, `LiveAttemptsAreSpared` |
| `orphans_go` | 1 attempt, 2 workers of which one reliable, 2 faults, late creates, slow heartbeats, one exit | `ReturnedRunsLeaveNothing`, `NothingStays` |
| `task_run` | a task or a ticket of either kind, both transports, 3 iterations, limit of 2 malformed answers | `ResolvedMeansRight`, `DamageIsNoticed`, `MalformedRunsAreCut`, `ConversationAlternates`, `FinishesAreVerified`, `EveryRunEnds` |
| `chaos` | 21 scenarios, 1 job with 2 attempts, 2 workers and a spare, a ghost, 2 faults, lease 2, clock to 4 | `FaultsLeaveTheirEffects` |
| `replay` | 2 prompts, 2 samplings, 2 or 3 iterations, 2 attempts a call | `UndivergedReplaysEndAlike`, `FaithfulReplaysNeverDiverge`, `MatchesAreTheAgents`, `CallsAreAnswers` |
| `campaign` | 2 tasks, 2 trials, 3 commands, 1 mishap | `ExitZeroMeansCurrent`, `PassedReplaysAgree`, `RecordingsAreWhole`, `ComparedRunsDifferAsDeclared` |
| `evaluation` | 2 processes, 2 tasks with 3 results, 2 tickets in a report, 2 tracked, 3 commands or 6 calls, 1 crash | `PassedCandidatesAreNoWorse`, `PassedReportsAreNoWorse`, `StoredCountsAddUp`, `AnsweredChangesStay` |

**Bounds.** Every hazard in the store is about one job row and the sessions that
compete for it, so one job with two workers and two attempts has the cases that
matter: a first attempt that is stale while a second is live, a session of each
abandoned with locks held, and the last attempt of a budget. A lease of 2 with the
clock to 3 lets a lease be renewed, lapse exactly at its end, and lapse under a
waiting statement. Two jobs matter only for `reap`, which ends several attempts
in one transaction, and for the order of claims; the `batch` run is for them.
Abandoned sessions need no bound of their own: each holds the lock of at least
one row, so there are at most as many as jobs.

Submissions with one key race in pairs; a third send reaches the client's limit.
Containers of different attempts never share a name, so a second attempt matters
only to a reaper, which lists them all: the `containers` run has two,
`orphans_go` one, with more faults. Three iterations are enough for a malformed
answer between two others, a refused finish before an accepted one, and a late
call that lands after the agent has ended, or for an agent that writes tests of its
own, passes them and finishes.

Two faults on one job are what makes the effects of `chaos` hard: the second lands
on the attempt that was to be the first's effect, and uses up the budget. A pause
of 3 outlasts a lease of 2. A recording of three calls has one before, at
and after a divergence, and a retry in each place. Three commands are a
recording, a replay of it that something befalls, and the command that reads what
both left; one mishap is enough, since a second command without one already meets
the files of the first. In `evaluation` three commands are two that overlap and
one that was there before.

The workers are a symmetry set in the `fleet` and `chaos` runs, which check
invariants and an action property; jobs are not one, since claims go in id order.
Clients are one in `submit`, attempts in `containers`, prompts and samplings in
`replay`. Deadlock is checked where the system goes on for ever (a worker that
finds nothing to do goes on polling, an api is stopped and started), and not for a
task or a ticket, a chaos run, a replay, or a number of commands, which end.

**Fairness** (`FleetDrain`). Time goes on: once the clock is at `MaxClock` (0 in the
`drain` run) every timestamp that is compared with the clock ages instead,
deadlines until they have passed and a waiting statement's reading until it is
older than any of them. Abandoned sessions end, because
`worker_engine` sets `idle_in_transaction_session_timeout` to the lease; for the same
reason a worker's own transaction commits or is dropped. A run ends (strong
fairness, since heartbeats interrupt it) because every policy has a wall clock. Of
the workers one is reliable and is assumed to take its steps; the other may stop
anywhere. Kills, drops and cancels are finite in number: with infinitely many,
nothing could be promised. The api's engine sets no such timeout, so a frozen api
process inside a cancel could hold a row lock; that is outside the assumption.

In `Containers` a reliable worker takes its steps and is started again after it
went down; the other may stop anywhere. No lease is renewed for ever, since a run
has a wall clock, and a create the daemon has received is carried out or dropped.
In `TaskRun` the model's api answers or fails, the event loop turns, and the
thread or server goes on with its calls; that a command ends is not assumed, the
wall clock ends it.

### Disagreements with the documents

Shown by a run:

- design.md says giving a job back is accepted only while the lease is live,
  *checked under the job's row lock*. `release` and `finish_cancelled` check under
  the lock, but against a clock reading from before they waited for it.
  Safety does not suffer (the attempt still owns the row; every other property
  holds with this behaviour in the model), but the sentence is not exact
  (`stale_clock`).

Seen while modelling, and limits of what the properties above say. In the fleet
and the agent:

- README says every write is refused once its attempt's lease has lapsed.
  `record_execution` has no such test. The row it writes is its own attempt's, so a
  successor loses nothing.
- `execution.py` says a stopped run never leaves its container behind. A cancel
  that arrives while the run's `finally` clause is removing containers ends the
  clause; the rest is left to `reap_orphans`, which does find it (`NothingStays`).
- `worker.py` says a run never outlives the wait for it. In process, the thread of
  a tool call goes on after a cancel, in a workspace that has been removed, and
  may make it again.
- A task that ends just as its worker times out is recorded as timed out.
- `reap_orphans` is to stop what attempts *without a live lease* left. A heartbeat
  that has written a new lease and not committed when the old one runs out is not
  seen by `live_attempts`, and the live attempt loses its containers, fails, and is
  tried again. `LiveAttemptsAreSpared` is therefore checked with `SlowCommits` FALSE;
  with TRUE it does not hold.
- `tickets/runner.py` says of a resolved ticket that it is finished and the hidden
  tests pass; `benchmark/runner.py`, that it writes the hidden tests and runs them.
  Neither looks whether they were written. Over MCP a write that fails is an answer,
  and pytest is then run on whatever the agent has left under the hidden tests'
  names: its own tests may pass while the code is wrong. In process a failing write
  raises; only one refused over a link out of the workspace goes unnoticed.
  `ResolvedMeansRight` says just that much: right, unless the hidden tests were not
  written and the agent's were run in their place (`OwnTestsWereRun`); without the
  second half it does not hold.
- `loop.py` says exit code 0 of a command invoking pytest means that a test
  passed. The code looks for the word `pytest` in the command, and
  `FinishesAreVerified` asks for no more than that.
- README says the agent cannot declare victory on an unverified guess.
  `verified` is not cleared when the files change after the tests passed;
  `FinishesAreVerified` speaks of any earlier moment. The hidden tests still judge
  the final files.

In the bench (`Campaign`, `Replay`):

- `record --write-recordings` on a fleet exits 0 though a job was dead-lettered or
  stopped by its policy, and leaves that task's older recording among the new
  ones. `RecordingsAreWhole` therefore speaks of recordings made in process.
- `compare.py` says trial k of each run "ran in the same round of an interleaved
  session". After an `ab` session that was killed midway, some of the files are an
  earlier session's.
- `compare.py` reports that every task came out the same way when the counts per
  task agree; a task that was solved in one round and failed in the other, in both
  runs but in different rounds, counts as the same.
- Recording again, and being interrupted, over the only complete trial leaves the
  summary of the one it replaced. Recording with another configuration
  raises after its trial is written. A torn file stops every later load until its
  trial is run again.
- `compare` without `--expect` never fails for what changed.
- A changed limit of malformed answers is not in the request's digest, and so a
  replay cannot notice it until it ends otherwise. Of a tool's output only what goes
  into the next request is compared, so the class of a failure may differ
  without a divergence. An in-process replay whose hidden tests time out may thus end
  otherwise and not diverge; `Campaign`'s replays in process end as recorded or
  diverge, and only its fleets end a job otherwise.

In the app (`Evaluation`):

- A comparison of tickets exits 0 when a ticket that was wrong before also loses
  its canaries now: both are wrong.
- A run compared with itself by label can show changes if another run is committed
  under that label between the two reads.
- A tracker file torn by a crash is never seeded again: every later call fails.
- Two tracker servers on one file lose each other's updates; `AnsweredChangesStay`
  is checked with one, and does not hold with `Tracker = {p1, p2}`.

## 10. What is proved

For each of eight parts there is an inductive invariant in a module of its own
(`FleetInvariant` and `FleetLedger`, `SubmissionInvariant`, `ContainersInvariant`,
`TaskRunInvariant`, `ChaosInvariant`, `EvaluationInvariant`, `ReplayInvariant`,
`CampaignInvariant`) and a module of proofs (`FleetProofs`, `SubmissionProofs`,
`ContainersProofs`, `TaskRunProofs`, `ChaosProofs`, `EvaluationProofs`,
`ReplayProofs`, `CampaignProofs`). The theorems hold for every value of the constants
that meets the named assumptions: any number of jobs, workers, clients, attempts,
sends, faults, iterations, ticks, tasks, trials, tickets and commands. TLC evaluates
the assumptions on every run, and each invariant was checked with TLC before it
was proved: `LedgerInv` by the `fleet` run, the others by adding `SubmissionInv`,
`ContainersInv`, `TaskRunInv`, `ChaosInv`, `EvaluationInv`, `ReplayInv` or `CampaignInv`
to the INVARIANTS of `MCSubmission.cfg`, the `MCContainers` configurations,
`MCTaskRun.cfg`, `MCChaos.cfg`, `MCEvaluation.cfg`, `MCReplay.cfg` or `MCCampaign.cfg`,
whose modules extend them.

### The fleet

From the assumptions of `JobStore` and `Fleet` (ids are naturals, budgets at least
1 and bounded, the lease is positive, `NoWorker` is no worker):

| theorem | states |
|---|---|
| `Inductive`, `TypeCorrect` | `[]IndInv`, `[]TypeOK`: among others, no attempt number goes beyond its budget's bound |
| `ExactlyOneResult` | `[]OneResultPerJob` |
| `CancelAlwaysWins` | `[]CancelWins` |
| `LedgerInductive` | `[]LedgerInv` |
| `CheckerAlwaysPasses` | `[]FinalJobsPassCheck`: the repository's own checker accepts every job that ended |
| `AttemptsAreSerial` | `[]UnfinishedJobsAreClean` |
| `NoConstraintFires` | `[]ConstraintsNeverFire` |
| `CountersTellTheTruth` | `[]ReportsAreTrue` |
| `StoreIsAppendOnly` | `HistoryIsKept`, an action property |
| `QueueImplemented` | `ImplementsQueue`: the fleet implements `JobQueue` |

**`IndInv`.** `OneResultPerJob` and `CancelWins` speak of committed rows, but a
commit installs what some transaction decided to write earlier, perhaps by a
worker long dead. So the invariant speaks of pending versions as well:

- every row version, committed or pending, is sound by itself (`RowSound`): its
  checks hold, a queued row has budget left and no cancel request, a cancel request
  is only on a leased or cancelled row;
- no two open transactions hold the same row (`LocksExclude`);
- a locked row's committed version is unfinished, hence has no result yet, and a
  pending version with an outcome comes with the one result it points at
  (`PendingSound`);
- a worker past its claim knows a job and an attempt number in range
  (`WorkersSound`).

Statements preserve it because each is guarded by `Unlocked` and by a test that
implies *unfinished*; commits because the rows of other transactions are
different rows; drops and kills because they change owners only.

**`LedgerInv`** adds the other tables. A job's row and its attempt rows tell one
story, as committed and as each open transaction would leave it (`RecordsSound`,
`TxnsSound`): the log is gapless up to the row's attempt, all but the latest were
given back, and how the latest ended fits the row's state. A transaction that a
worker awaits is the one its step asked for (`CallsSound`), and the results with
the number of a worker's attempt, stored or pending, are its own (`WorkerLedger`).
The last is what makes a counter stay true: a `rejected` publish must not be
contradicted by a session that was given up on and commits later.

The refinement goes step by step: what commits is a claim, an end or a cancel of
the abstract queue for the rows it holds and leaves the others alone; statements,
drops, kills, answers and time are stutters. A reap of several jobs commits as
one abstract step.

### Submissions

From `SendsAssumption` (a client may send at least once) and `AsksAssumption` (a
request has the fields of a request). `KeysNameOneBatch`, `CallsMakeOneBatch`,
`AnswersStayTrue` and `ConflictsStayReal` prove the four properties of the `submit`
run. `SubmissionInv` says that a key is held by a committed batch or by an open
insert, never by two; that a batch carries the content of the request it came
from; that a client without a key has sent once; and that a reply under way is
already true and, as batches are never removed, stays so.

### Containers

`ReturnsLeaveNothing` proves `ReturnedRunsLeaveNothing` for any constants.
`LimitsAreFinal`, `ProxiesOutliveTasks` and `ReapersSpareTheLiving` prove
`LimitKillsAreFinal`, `TasksRunBehindTheirProxy` and the action property
`LiveAttemptsAreSpared` under the hypothesis `~SlowCommits`, which the `containers` run
makes too: `live_attempts` reads committed leases without a lock, so a heartbeat
that commits after the lease it replaces has run out loses a live attempt its
containers. Without the hypothesis they are false.

`ContainersInv` relates four views of an attempt: what Docker holds for it, what its
run's locals say was created, what creates are still under way, and what a reaper
has listed. A run's locals cover what Docker holds for it (`Accounted`); and where
heartbeats commit in time, only the run takes anything from a live attempt
(`SparesTheLive`): whatever a reaper still holds on its list after reading the live
attempts belonged to an attempt whose lease had lapsed, and a lapsed lease never
becomes live again.

### A task or a ticket

From the assumptions of `Sandbox`, `AgentLoop` and `TaskRun` (two transports, three
kinds, a positive limit of malformed answers). `VerdictsAreTrue`, `DamageIsSeen`,
`MalformedLimitIsExact`, `TurnsAreTaken` and `FinishesStayVerified` prove the
five invariants of the `task_run` run, for any number of iterations.

`TaskRunInv` has two halves. The queue's: at most the last call is waited for and it
is the one last asked, so a reply that is not a failure is that call's own and
nothing is queued behind it that could change the files again (`QueueSound`,
`RepliesTell`, `VerdictsTell`). It is why a verdict holds of the files although calls
that were given up on still run. What a verdict tells is `HiddenTestsTell`: the code
is right, or the agent's own tests were run for hidden ones never written. That in
process this takes a link is `SeedingSound`: there no call is given up on
(`AllAreAwaited`), so the answer to the write is the write's own and nothing runs
between it and the tests. The loop's: `malformed` is exactly the number of
unparseable answers at the end of the record (`CountIsExact`), and no earlier run of
them reached the limit (`LimitIsMet`).

### The fault injection harness

From the fleet's assumptions, `GhostAssumption` (the ghost is a worker id),
`ScenarioAssumption` (the scenarios are of `chaos/scenarios.py`) and `PlanAssumption` (a
pause is longer than a lease, and the harness waits a lease or more for a stopped
worker to be overtaken): `EffectsLeft` proves `FaultsLeaveTheirEffects`, whichever
scenario runs and however many faults, workers, jobs and attempts there are, and
`ChaosPassesChecker` proves `FinalJobsPassCheck` of the harness's fleet.

The harness adds steps that the fleet alone has not (a commit whose worker dies
before the answer, a claim under another name, a restart of Postgres), so first
`LedgerInv` is shown to survive them. An effect is then a claim about the end of a run
that has to be carried there from the moment of the fault. `ChaosInv` says what
holds in between (`LeftSound`):

- what a stopped or killed worker held is *orphaned* (`Orphaned`): the attempt is its
  own, and either a reap has ended it, or it has not ended and the worker is
  `Powerless`: down, or stopped for longer than the lease lasts, or back with no call
  under way and the lease run out. So only a reap can end it, and as it must end
  before the job is final, one has. What is left of the budget then says whether the
  job went on or is a dead letter;
- a dropped worker still has its job, under its lease, or its result is stored: it
  keeps the lease because heartbeats keep it (`LeasesKept`, where `OnTime` is used),
  so its next call is answered as the dropped one would have been;
- a worker that was stopped is still at its heartbeat or its publish until it has
  logged the loss or the refusal, and nothing logged is of an attempt that its
  worker still has (`LogsSound`);
- a ghost's attempts end by a reap alone, since nobody runs them (`GhostsSound`).

That what is awaited is the call the worker is at (`ShapesSound`) ties a fault inside
a transaction to the job and attempt it logs. The effects follow when all have
stopped: every job is final, and no worker that was to be woken is still asleep
(`AwakeAtEnd`).

### Evaluations and the tracker

From `EvaluationAssumption` (tasks are numbered, the baseline is of those tasks,
trackers are processes) and `CaseAssumption` (in the dataset only a ticket to
escalate has canary files; `StoredCountsAddUp` needs it, since a ticket that is
resolved counts as right without a look at canaries). `OnlyNoWorseRunsPass`,
`OnlyNoWorseReportsPass` and `CountsAlwaysAddUp` prove three of the properties of the
`evaluation` run; `AnswersStay` proves `AnsweredChangesStay` under the hypothesis that
at most one process serves the tracker's file, without which it is false (section 9).

`EvaluationInv` says that whatever a process holds, and whatever is stored, has the
form in which it was made: a row's `solved` agrees with its class of failure, an
outcome fits its ticket, a stored run or report is the one computed from its rows
or outcomes (`RunsSound`, `ReportsSound`, `CommandSound`). A verdict is kept with what
it was read from, so a later commit or a torn file does not unsay it
(`RunsJudged`, `ReportsJudged`). That counts add up and rates do not fall is then
arithmetic on finite sets: classes are disjoint and cover, and the same pool with
more correct in it has no lower a share. For the tracker, a file that is held,
emptied or written keeps every answer, and no other process holds one
(`TrackerSound`): which is where a second server would break the argument.

### Record and replay

From `LimitAssumption` (the iterations and the limits on malformed answers and
attempts are positive): `ReplaysEndAlike`, `NoFalseDivergence`, `OnlyTheAgentMatches`
and `CallsMatchAnswers` prove the four properties of the `replay` run, for any
prompts and samplings, and for runs and recordings of any length.

`ReplayInv` rests on one observation: how a run ends can be read off its steps. A
step with no answer, an escalation, a finish after tests that passed, or
`MaxMalformed` malformed answers in a row end it there and at no earlier step
(`EndSound`), and the loop's locals (the head it shows next, `verified`, the count of
malformed answers) are functions of the steps (`RunSound`). Call i of a recording is
step i of the recorded run, with the head that was shown before it (`RecordSound`);
as far as a replay was served it gave the recorded answers, and all but its last
observation look as recorded (`ReplaySound`). A head tells passed tests from all
else (`HeadsTell`), so the two runs end at the same steps (`SameEnds`): a replay that
is served to the end ends as recorded, and one that ends before, or asks for more,
was given other iterations or saw another tool result. The last observation may
differ unnoticed, which is why the invariant leaves it out and why it cannot change
how the run ended.

### The bench's commands

From `CampaignAssumption` (tasks and trials are finite in number, at least one of
each, and numbered from 1): `SummariesCurrent`, `ReplaysAgree`, `RecordingsWhole` and
`ComparisonsDifferAsDeclared` prove the four properties of the `campaign` run, after
any number of commands and mishaps.

The properties speak of the disk when a command has ended, but a command works on
locals and writes its files one at a time, and may die between two writes.
`CampaignInv` therefore compares the locals with `Content`: what a file will hold once
the command has saved what it has still to save. A save changes no file's
`Content`, so nothing it says is disturbed by one; and when all is saved it is said
of the disk. A crash forgets the locals and leaves each file as it was, or torn,
which is all that `DiskSound` asks: a file holds what its name says, a trial that was
not cut short has all its jobs, and no recording made in process stops at the cap.
On this rest:

- *record* (`RecordSound`): what has run in process has its recording, of this
  session, in its file or about to be; and exit 0 is reached with all jobs run;
- *replay* (`ReplaySound`): the trials in memory are those the arms have run so far
  (`Done`: forwards in odd rounds, backwards in even ones), each the one in its file
  (`Own`), of this session, with the digest that was read first and not cut short;
- *the summaries* (`SummariesSound`): once the exit code is settled nothing but
  summaries is still to be written, each true of the trial files it names
  (`Current`). As no two writes of a command go to one file (`Apart`), a summary
  written cannot be undone by the next.

That a comparison counts as many pairs better as worse where no task moved is then
counting: equally many of a task's jobs were solved in both, so the two sides have
equally many solved runs, and taking away the pairs that were solved in both leaves
equally many of either.

### Only model-checked

- Liveness (`EveryJobEnds`, `CancelLands`, `NothingStays`, `EveryRunEnds`): fairness and
  ENABLED are beyond the prover. Every other property of a run that passes is proved,
  some under the hypotheses named above.

## 11. Not modelled

- Postgres (only row locks, read-committed visibility and atomic commits are
  used), Docker, the kernel's namespaces and limits, the models' answers.
- The egress proxy: it relays bytes for the hosts it allows and keeps no state.
- Statistics (percentiles, confidence intervals, resource samples) and the layout
  of reports: arithmetic on floating-point numbers, which TLC does not have.
- The processes of a bench run on a fleet (ports, readiness, logs): start-up and
  I/O around the jobs that `Fleet` models.
- Settings, database start-up, source bundles and probes (`fleet/config.py`,
  `localdb.py`, `source.py`, `probes.py`), and the web app's pages, which change
  nothing.
- The analysis scripts kept with the published results under `docs/results`.
