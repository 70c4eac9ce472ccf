# TLA+ for self-evo-agent: ledger, outbox workers, turn scheduler, runtime manager

A specification, model-checking and proof project for the concurrent core of
this repository. Paths below are relative to the repository; `core/...` stands
for `src/core/...`, `LEDGER` for `core/research/workflow/ledger`, `RUNTIME`
for `core/web/services/team_workflow/research_runtime`, `SESSION` for
`core/web/services/session` and `MANAGER` for `core/runtime_manager`.

To run it: `tlc -config X.cfg M` for a pair of the table of runs, `tlapm M.tla`
for the modules whose name ends in `Proofs`. `PROJECT.json` names, for every definition that
models code, the lines it stands for, and for every property a plausible bug
in the code that would break it.

## 1. Inventory

The program is a workbench of agents: a web service in one Python process with
many threads, beside a runtime manager and a desktop shell. The parts whose
correctness depends on who does what when:

| Component | State | Operations | What is hard | What makes it correct |
|---|---|---|---|---|
| ledger writer (`LEDGER/writer.py`) | bounded queue, futures, current group, flags for draining, giving up, COMMIT | start, submit, flush, close; the writer thread | close() and the writer settle the same futures; COMMIT that hangs; a mutation of a group that fails | a future agrees with the database; every mutation is answered; close() returns |
| outbox leases (`LEDGER/outbox.py`, `repository.py`) | actions with status, owner, expiry, two counts | insert, lease with a sweep over two gates, renew, ack, requeue, fail, cancel | expiry while a worker works; late statements; crash loops | only the owner touches a live action; claims are bounded |
| graph dispatch worker (`RUNTIME/graph_dispatch_worker.py`, `outbox_pump.py`) | thread-local action and heartbeat verdict, node attempts, handoffs, runs | claim one, invoke with a heartbeat, commit in one or two transactions, block, requeue, defer; repairs once a maintenance pass | threads of one owner, half-done commits, repairs racing commands | every dispatch ends; a failed one shows on its run |
| run commands (`RUNTIME/command_service.py`) | run status | start, cancel, archive, reconcile, retry, fork | commands racing workers and repairs | a dead run stays dead; a reconciled one is tried again |
| maintenance fence (`RUNTIME/challenge_cup_maintenance_fence.py`) | fence file, lock, owner | acquire, release, expiry, write checks | raised between a claim and its commit | deferred work is not lost |
| session turn scheduler (`core/web/services/session_turn_scheduler.py`, `SESSION/schedule.py`) | active turn per session, slots and exclusive holder per agent, queue per agent | schedule, reserve, release, cancel | one lock, but callbacks outside it; submissions that raise; timeouts | one turn per session, bounded per agent, nobody is forgotten |
| session turn lifecycle (`SESSION/submit.py`, `proactive.py`, `worker.py`, `control.py`) | runtime entry per session, turn controls, journal | submit, admit, finish, stop, supersede, reconcile | the runtime entry and the scheduler's books are separate | they agree often enough for the session not to hang |
| adapter dispatch worker (`RUNTIME/adapter_dispatch_worker.py`, `completion_dependency.py`, `budget_authority_adapter.py`, `receipt_persistence.py`) | one action per attempt, the attempt, the run, a budget receipt, the agent's turn, the delivery of the turn's receipt | claim, reserve, start the turn, wait, verify, commit, fail, block, requeue, defer; wake, redrive, repair | the turn outlives leases and threads; the budget is written by transactions beside the commit; a delivery races the wait for it | a commit and its budget agree; an ended attempt rests; nothing waits for what has come; every dispatch ends where somebody sees it |
| event publish worker (`RUNTIME/event_publish_worker.py`, `knowledge_sideflow_service.py`, `readiness/knowledge_recheck.py`) | outbox actions, the parent's events, a thread-local batch | lease a batch, absorb, hook, acknowledge, retry, dead-letter | each mutation may come late or after its caller has given up; crashes between the three | delivery at least once, the hook before the acknowledgement, no silent end |
| reaper and delivery worker (`RUNTIME/reaper.py`, `delivery_worker.py`) | meetings that wait for approval, deliveries | expire, deliver | replays | not modelled |
| run ledger (`core/research/workflow/transitions.py`, `LEDGER/repository.py`) | runs, attempts, handoffs with versions | compare-and-set updates | transitions nobody listed | status graphs are respected |
| ledger readers (`LEDGER/database.py`) | pool of connections | acquire, release, close all | overflow readers | bound of the pool |
| chat store (`core/chat`) | journal, catalogue | append, compact, project | two writers, torn appends | replay gives what was appended |
| runtime manager commands (`MANAGER/command_queue.py`, `restart_coordinator.py`, `daemon.py`) | command, result, interrupt and intent files, the state file, the daemon's place | submit, supersede, join, cancel; claim, defer, complete, shut down, recover | several processes and no lock; a death between any two file operations | no command is lost, redone or left without an answer; a queued close comes last |
| runtime manager locks and leases (`MANAGER/instance_lock.py`, `work_run_leases.py`) | registry lock, work-run leases | acquire, break a stale one, renew, release | processes that die with a lock | one owner |
| chat rooms, agent kernel, orchestration, LLM access, authorization, infrastructure, evaluation, gym, plugins, UI, web client, desktop shell | mostly data, files and network I/O | - | - | see section 8 |

How they interact: a command (HTTP) submits a mutation to the ledger writer; the
mutation inserts outbox actions in the same transaction as the facts they follow
from. The pump's threads lease those actions through the same writer. The graph
worker runs the graph outside any transaction and submits the outcome as another
mutation, which dispatches the next attempt to the adapter worker; that one
reserves a budget, starts an agent's turn and commits what the turn produced. The
model call behind the turn leaves a receipt, which is delivered through the outbox as
well and wakes whatever waits for it. Only the heartbeats write past the
queue, on connections of their own. An agent node submits a chat turn: it passes the
turn scheduler into the executor. Chat rooms and workflow nodes also reserve a
session directly. A knowledge run that ends publishes an event to its parent run. The
runtime manager stands outside: it starts and stops the whole web service, on the
orders of files that the service, the launcher and the desktop shell write.

## 2. Modules

| Module | Models |
|---|---|
| `MutationLog` | what the ledger writer promises: mutations are accepted in order, committed in that order without gaps other than refused ones, and answered truthfully |
| `LedgerWriter` | `LEDGER/writer.py` and `unit_of_work.py`, statement by statement where another thread may look |
| `LedgerWriterProofs` | theorems about `LedgerWriter`, among them that it implements `MutationLog` |
| `OutboxLease` | what the outbox table promises for each of its actions: which claims are within the two budgets, what a settlement, a repair and a command may do to the counts, and that success is final |
| `OutboxLeaseProofs` | what follows for every implementation of it: how often an action can be claimed in its life |
| `GraphDispatch` | the lease statements of `LEDGER/repository.py` as the graph dispatch worker, its repairs and the run commands use them |
| `MCGraphDispatch` | nodes, actions and owners for TLC |
| `GraphDispatchProofs` | theorems about `GraphDispatch`, among them that it implements `OutboxLease` |
| `TurnScheduler` | `session_turn_scheduler.py` with the callbacks of `SESSION` |
| `MCTurnScheduler` | turns for TLC |
| `TurnSchedulerProofs` | theorems about `TurnScheduler` |
| `AdapterDispatch` | the dispatch of one attempt: `adapter_dispatch_worker.py` with the budget receipt, the turn, its receipt and the commands on it |
| `AdapterDispatchProofs` | theorems about `AdapterDispatch`, among them that it implements `OutboxLease` |
| `AtLeastOnce` | what an outbox promises for a message |
| `EventPublish` | `event_publish_worker.py` over the writer's queue, with the two ends of the event |
| `EventPublishProofs` | theorems about `EventPublish`, among them that it implements `AtLeastOnce` and `OutboxLease` |
| `CommandQueue` | `MANAGER/command_queue.py` with the command loop of `daemon.py` |
| `MCCommandQueue` | commands for TLC |
| `CommandQueueProofs` | theorems about `CommandQueue` |

### LedgerWriter

Envelopes are numbered in the order the queue accepts them. The queue is then the
interval `head+1 .. tail`, and the lists the code keeps (`current`, `group`,
`batch`, the rest of the list a loop is at: `ready`, `leftovers`) are sets of
numbers read in increasing order. `wpc` is the line the writer thread is at,
`closer` the line of `close()`. One step is what happens between two points where
another thread may see the difference: taking an envelope from the queue and
naming it in `_current_group` are two steps (`TakesEnvelope`, `HoldsEnvelope`);
the savepoint and the mutation's own statements are one. `_settle_remaining` reads
`_current_group` and resets it in two statements with no call between them
(`writer.py:200-202`); CPython changes threads only at calls and backward jumps, so
`CloseAbandons` does both. `_commit_guard` is not a
variable: `GuardFree` says who holds it. An exception that no handler of `_commit_group` catches
(`Escapes`) is any of BEGIN, and one that is no `Exception` from a mutation, COMMIT, ROLLBACK or a
callback; one of a savepoint's statements fails the group (`SavepointRaises`). `start()` and one `close()` are
modelled; a second `close()` returns at once in the code. A result that is
delivered to a future and the decrement of `_outstanding` are one step
(`_settle` does both under the condition's lock).

Bound: `MaxMutations` envelopes, 3 in the passing run: two of them can form a group
while the third is in the queue or is the forced one that splits the batch.
`QueueSize` 2 makes the queue full with one envelope in the writer's hand, and
keeps the close marker out. `MaxEscapes` 1: the thread does not survive one.

### OutboxLease

Per action a status and the two counts, and nothing of owners, clocks, lags or threads: what a claim
may do is asked of the table, not of the worker. `Claims` is the lease scan (`repository.py:1101`):
one step fails what has used up a budget and leases the rest it takes. `Settles` and `Cancels` end a
lease, `Arms` is an insertion or a repair that leaves the counts, `Revives` the reconciliation,
which gives attempts back and no recoveries. `Restarts` puts an action back with both counts zero:
the adapter worker does so when it waits for a turn or defers to a receipt
(`adapter_dispatch_worker.py:1603`, `completion_dependency.py:100`), and the wake that ends such a
wait revives an action that is already pending. `Restartable` says of which actions this may happen:
of none of the graph dispatch worker's and the event publisher's, and of the adapter's. All three
implement it with their own rows.

### GraphDispatch

A row of `outbox_actions` is a record. Times are relative to the clock: `lease`
and `wait` are the ticks left, `Tick` lowers them. A statement runs up to `MaxLag`
ticks after its caller read the clock (mutations wait in the writer's queue with
the time they were built with), so its comparisons take a `lag` in `0..MaxLag`.
`pc[w]` is where a thread of the pump is: `claimed`, `renew` (the renewal before
the invocation), `invoke`, `upstream` (`_commit_upstream_accept`), `successor`,
`commit`, `block`, `requeue`, `defer`. What the graph returns is left open, within
what the kind of the dispatch allows. `holder` is a history variable: the last
worker that claimed an action, until it is settled; no guard reads it.

The maintenance thread alternates `SweepsStarting`
(`_repair_starting_without_progress`) and `SweepsFailed`
(`_repair_terminal_failed_dispatch`). `Reconciles`, `CancelsRun` and `Archives` are
what three run commands do to the run and its actions. `Crash` ends and restarts
the process: the rows stay, the threads and the sweep start anew.

An attempt has an action made by its command, and one, `Repair[n]`, that the sweep
of starting attempts inserts or re-arms under its idempotency key. Each attempt
has a run of its own.

Bounds: one attempt with its two actions: the statements touch one row each but for the
lease scan and the sweeps, and these relate rows of one attempt only. `MaxAttempts`
and `MaxRecoveries` stand for the gates of 12 and 24 in the code, 2 and 1 in the
passing runs (the claims multiply, so small gates reach every mix of the two
counts); `MaxReconciles` is the number of `reconcile_run` commands.

### TurnScheduler

`active`, `slots`, `exclusive` and `queue` are the scheduler's books; `runtime` is
`_SESSION_ACTIVE_TURN_IDS`. A step of the scheduler is what it does under its lock;
the callbacks are steps of their own. `Pass` is the loop of `release` over the
queue: `PassOver` says what it has after each turn, `Considered` what one turn changes. `frames[t]` counts the callers on the stack that will
release the turn if its submission raises: this is how the same turn can be
released twice (`stray` remembers it). `pc` holds a turn's place; `leaked` is a slot
that no code will ever release: a reservation that timed out as it was granted, or
a turn whose `_mark_dequeued` raised.

Assumptions: a session belongs to one agent; each turn is used once, so that a run may
stop (deadlock is not checked). The threads that release and those that submit are
not told apart: the turns a release started are submitted in any order with all
else. The revival of a lost runtime entry from a turn control
(`turn_diagnostics.py:883`) and the inbox drain after a release (which only submits
new turns) are not modelled; the settlement of stale turns is `Superseded`.

Bounds: the first run has one agent with one slot and two sessions, a user's turn
that can be followed by another of the same session, a proactive turn that can be
deferred once and a session reservation, with one exception at any place that may
raise. The second has three sessions, two slots, a reservation of the whole agent
and two exceptions.

### AdapterDispatch

One attempt of one node: every statement of the worker and of the commands names
the attempt, its action or its run, and attempts share nothing but the run, which
the newest one decides. `row` is the outbox action, `receipt` the budget receipt, `turn` the
agent's turn, `delivery` the action that delivers the turn's formal receipt. A lease
runs or is late: `Lapses` is all there is of the clock, so a statement with a stale
clock may still touch a late row and may miss it (`Touches`, `Misses`), and every
thread writes the same `lease_owner`. `problem` keeps of `last_problem_json` what later code
looks at: the completion cursor ("completion", with the deliveries it has `seen`) and
the mark of the lease scan ("exhausted"). `run` keeps of the blocking problem whether it is
COMPLETION_PENDING. `behind` says that the scan of the repair (`adapter_dispatch_worker.py:336`: the
oldest exhausted actions of running runs, eight at a time) comes upon its limit of older actions
before this one: `Crowds` lets them come and go with their runs.

`pc[w]` is where a thread of the pump is in `_handle`; `task` is what it read as it claimed.
What the ports compute is left open: a reservation may be refused, the input may not match,
the turn may fail, the verification may not succeed. `undoFail` and `undoBlock`
are the voids that the code does before the statement that fails or blocks, `void` the one
after it. `Leaves` is the exception that nobody catches, and the end of the process.
`Repairs` and `Redrives` are the maintenance thread's two sweeps.
The transaction of each re-reads what its scan found, so one step stands for both; a repair needs its
action within the limit of the scan.

Bounds: two threads, `MaxAttempts` 3, `MaxRecoveries` 1 and `MaxTransient` 2 for 12, 24
and 5 in the code: a claim after a requeue, after a late lease, and one that the gate
refuses all occur. A third thread adds only another one of the stale kind.

### AtLeastOnce and EventPublish

The worker is one thread (the maintenance loop), and all it writes goes through the
queue of the ledger writer: `queue` holds the mutations with the `age` of the clock
reading they carry. The worker waits for each answer and gives up after a time
(`TimesOut`); the mutation stays in the queue and may commit later. `Commits` runs
the head of the queue by what it is: the lease scan with its two gates, the absorption,
the acknowledgement, the requeue and the burial of a dead letter. `CommitFails` is a mutation
that raises. `hooked` is a history variable.

`AtLeastOnce` promises that nothing is confirmed before it was delivered, and that
what is confirmed or given up stays so. The mapping is on the rows' statuses and on the
parent's events.

Bounds: two events make a batch of more than one; `MaxAttempts` 3, `MaxRecoveries` 2;
`MaxAge` 1 and `MaxLate` 2 let a requeue commit a tick late behind a claim that was
abandoned as well. A timeout may come at any moment: the 30 s it takes in the code is also the
time of the lease.

### CommandQueue

The queue is made of files, and a step is one file operation, or several of which others
cannot tell the order. `inbox`, `processing` and `aside` are the places a command file may be in:
pending, claimed, and taken by a cancel. `pc` is where a submission is (it asks for the state,
takes stock of the inbox, supersedes command by command, looks for one to join, and queues its
own), `dpc` where the daemon is. The ids of commands are their submissions. `Dies` ends
the daemon in any place, and the watchdog `Starts` another, which recovers what was claimed
(`Recovers`) and tidies the inbox (`Tidies`). `bench` is whether the workbench runs, `busy` whether
it has active work.

A claimed command is forwarded to Electron where that owns the queue, and answered by how the
forwarding went (`HandsOff`). Otherwise an open finds the workbench open (`FindsOpen`), opens it
(`HandlesOpen`, `Verifies`), or publishes a new release of the frontend, and then
restarts it (`Republishes`, `Reopens`, `Settles`), unless active work blocks or
defers that (`Blocks`, as for a close). A restart has no handler any more (`FindsNoHandler`), but is
still submitted, superseded, joined and cancelled. `again` and `strays` are history variables: the
commands that came back to the inbox, and those that were in two places when the daemon died or that a
cancel put back after their answer.

Bounds: two commands, of which one opens or restarts and one is of any kind, a cancel of the
first, one death of the daemon. Every rule of superseding and joining is about two commands; a third
adds chains of them, and makes the liveness check too long for a routine run.

## 3. Runs

| Run | Module, config | Result | States | What it shows |
|---|---|---|---|---|
| `ledger_writer` | `LedgerWriter`, `LedgerWriter.cfg` | holds | 238 k | all safety and liveness properties of the writer, and that it implements `MutationLog` |
| `ledger_writer_lost` | `LedgerWriter`, `LedgerWriter_lost.cfg` | violated | - | an exception that escapes `_commit_group`, as of a failing BEGIN, leaves futures pending for ever |
| `graph_dispatch` | `MCGraphDispatch`, `GraphDispatch.cfg` | holds | 563 k | type, claim budgets, and owner checks of two owners with late statements |
| `graph_dispatch_ends` | `MCGraphDispatch`, `GraphDispatch_ends.cfg` | holds | 113 k | dispatches end, failures surface, rows implement `OutboxLease` |
| `graph_dispatch_fencing` | `MCGraphDispatch`, `GraphDispatch_fencing.cfg` | violated | - | threads that share an owner are not fenced from each other |
| `turn_scheduler` | `MCTurnScheduler`, `TurnScheduler.cfg` | holds | 31 k | one turn per session, exact books, no lost wakeup, no starvation |
| `turn_scheduler_agent` | `MCTurnScheduler`, `TurnScheduler_agent.cfg` | holds | 507 k | an agent's bound holds unless a turn is released twice |
| `turn_scheduler_bound` | `MCTurnScheduler`, `TurnScheduler_bound.cfg` | violated | - | and does not hold then |
| `adapter_dispatch` | `AdapterDispatch`, `AdapterDispatch.cfg` | holds | 916 k | commit and budget agree, ended attempts rest, no delivery is missed, dispatches end, failures surface |
| `adapter_dispatch_redrive` | `AdapterDispatch`, `AdapterDispatch_redrive.cfg` | violated | - | a redriven dispatch finds its budget voided |
| `event_publish` | `EventPublish`, `EventPublish.cfg` | holds | 648 k | delivery at least once through `OutboxLease`, the hook first, no silent end but by lost leases, an end for every event |
| `command_queue` | `MCCommandQueue`, `CommandQueue.cfg` | holds | 634 k | no command lost, redone or unanswered; a queued close comes last |

The violated properties each state what a comment or docstring of the code says;
section 7 has the scenarios.

The properties that hold, in short:

- *Writer.* `AnswersMatchDatabase`, `OutstandingIsExact`, `CallbacksFollowCommit`,
  `NoCommitAfterAbandon`; `OnlyEscapesLose` (when the thread and close() have ended, a pending
  future was in the current group when an exception escaped `_commit_group`, or has not left the
  queue since); `ImplementsMutationLog`; `EveryMutationAnswered` (if
  neither the database nor a mutation hangs), `CloseIsBounded` (whatever hangs) and
  `CloseAnswers` (all but the batch of a hanging COMMIT). The last and the first of
  these three assume that no exception escapes: `ledger_writer_lost` is what
  happens otherwise.
- *Leases.* `BudgetsHold`, `OnlyOwnerChanges`, `ImplementsOutboxLease`, `EveryDispatchEnds`, `FailuresSurface`.
  `EveryDispatchEnds` leaves out actions that start an attempt: the sweep of
  starting attempts re-arms such an action with the counts it has, the next lease
  scan fails it, and so on for as long as the attempt is starting
  (`graph_dispatch_worker.py:2070`).
- *Scheduler.* `SessionSerialized`, `BooksMatch`, `BoundedUnlessReleasedTwice`,
  `NoLostWakeup`, `NobodyStarves`. The last two leave out queued proactive turns: one
  can be passed over because of a runtime entry whose owner is then stopped, and no
  further release considers it.

- *Adapter dispatch.* `CommittedIsSettled` relates three tables that other transactions write: the attempt has
  succeeded exactly if its action has, and then the receipt is settled with the turn's usage;
  `EndedAttemptRests` says that none of five ways to re-arm an action does so for an attempt that
  ended; `NoLostDelivery`; `EveryDispatchEnds`; `FailuresSurface`, which leaves out a failed action for
  as long as older ones that the repair can do nothing about take up its scan (section 7). A cancelled
  attempt is left out of `EndedAttemptRests`: `cancel_node` leaves its action.
- *Event publish.* `ImplementsAtLeastOnce`, `ImplementsOutboxLease`, `AcknowledgedIsHooked`, `SilentOnlyByRecoveries`,
  `EveryEventSettles`.
- *Command queue.* `NothingLost` (for the command a client queued and for the one it joined),
  `AnsweredIsNotRedone` (over every recovery and deferral, but for a command that is being superseded,
  one that was in two places when the daemon died, and an open whose file a cancel put back after its
  answer), `QueuedCloseComesLast`,
  `EveryCommandAnswered`.

## 4. Fairness

- `LedgerWriter!HangingSpec`: weak fairness of the writer's own steps, of `close()` and
  of a `submit()` that has the accept lock: the operating system schedules threads,
  and each wait among those steps has a timeout in the code. Steps that wait for SQLite
  or for a caller's function (`WriterBlocks`) have none. `NothingHangs` adds it, as an
  assumption of the one property that needs it.
- `GraphDispatch!FairSpec`: time passes, each pump thread claims and gets on with what it
  claimed, and the maintenance thread sweeps: loops that run as long as the service
  does (`outbox_pump.py:143-184`). Nothing is assumed of the heartbeat, the commands, the fence or of
  crashes; and since every commit may also be missed (`Misses`), none of commits.
- `TurnScheduler!FairSpec`: weak fairness of all the work of each turn: executor threads
  run, and a turn that executes returns. Nothing is assumed of users, stops,
  supersessions and timeouts.

- `AdapterDispatch!FairSpec`: each thread goes on (`WorkerStep`: what it claims, it takes to
  one of its ends), a lease that nobody renews runs out, a turn ends (it has a deadline), a
  delivery succeeds or fails for good (it has a gate of its own), and the sweep repairs what its scan
  goes on finding: each pass reads the oldest eight, so an action that stays among them is repaired,
  and nothing is assumed of one that does not. Nor is anything
  assumed of commands, of the redrive, and of `Leaves`: a thread may be lost in any dispatch.
- `EventPublish!FairSpec`: time passes, the worker gets on, and strong fairness of `Commits`: a
  database that is asked again and again does not refuse for ever. Nothing is assumed of
  producers, timeouts and crashes.
- `CommandQueue!FairSpec`: the daemon's steps, the watchdog's start, active work that ends, each
  submission once it has asked, a cancel that has taken the file, and deferrals that come due.
  Nothing is assumed of users and of deaths.

## 5. What is proved

`tlapm` checks the proof modules completely; the only assumptions are those on the constants
(`WriterAssumption`, `DispatchAssumption`, `PublishAssumption`, `AdapterAssumption`,
`SchedulerAssumption`, `QueueAssumption`), so each theorem holds for any number of mutations,
workers, actions, attempts, turns, commands and deaths, and for any gates, lease times and lag.

`LedgerWriterProofs`: `TypeCorrect`, `AnswersCorrect`, `CallbacksCorrect`, `AbandonStopsCommits`,
`CountExact`, `OnlyEscapesCanLose`, `Implements`. `AnswersMatchDatabase` is not inductive: it says
nothing of a mutation that is staged in the open transaction. The invariant `IInv` adds where the
writer's lists stand (`Places`: which of them are empty at which line, that `staged` and `ready`
divide the group), that they are in queue order and ahead of the database (`InOrder`), that nothing
the writer may still commit has been refused unless it has been given up (`NotRefused`,
`Refusable`), and what has been told to whom (`Told`, `Answered`). The step lemmas go action by
action. `CountExact` is a counting argument: what is settled was accepted and pending
(`SettleCounts`), and a number not yet accepted is not answered (`Unaccepted`). `OnlyEscapesCanLose`
turns the finding `ledger_writer_lost` into its cause: what is lost was in the current group as an
exception escaped, or stayed in the queue of the thread that one had ended, however `close()` and
the writer interleave. Its invariant `WInv` says where each pending mutation
is (`Whereabouts`), that the queue stays empty after it was last emptied (`Drained`), and who may
stop what (`Stopping`). The refinement maps `accepted` to `tail` and leaves the other two variables
of `MutationLog` as they are: `Commits` is `Commit(staged)`, `Settle` is `Confirm`, `Refuse` or
`GiveUp`, and all the rest stutters.

`OutboxLeaseProofs`: `BudgetsKept`, `SuccessStays`, `ClaimsAreBounded`. The last is about an
action's whole history: `claims`, `revivals` and `restarts` are history variables, and a claim is an
attempt or a recovery that some budget still has: `claims` never exceeds the present counts, plus
`MaxAttempts` for each revival, plus both budgets for each restart (`CInv`). `GraphDispatchProofs`,
`EventPublishProofs` and `AdapterDispatchProofs` instantiate the theorem with their refinements.

`GraphDispatchProofs`: `TypeCorrect`, `BudgetsBounded`, `OwnersFenced`, `ImplementsLease`,
`DispatchClaimsBounded`, `DistinctOwnersFence`. The invariant is `TypeOK /\ OwnerOfHolder /\
BudgetsHold`: a leased action carries the owner of the worker that last claimed it, and so an owner
check by name is a check of `holder` up to workers of the same name. `BudgetsHold` is inductive
because the sweep of the same transaction comes before the claim. `DistinctOwnersFence` adds the
assumption that no two workers write the same owner, and proves the property that
`graph_dispatch_fencing` refutes: the repair of that finding is an owner per thread.
`ImplementsLease` maps each row to its status and counts. The lease scan is `Claims`, a settlement
by whoever passes the owner check is `Settles`, the sweeps are `Arms`, a reconciliation `Revives`;
that no repair arms what has succeeded needs one invariant more, `StartingUndone`: while an attempt
is starting, none of its actions has succeeded. `DispatchClaimsBounded` then bounds the runs of the
graph for one action by the commands a user has given, whatever crashes, expires or is deferred.

`AdapterDispatchProofs`: `TypeCorrect`, `CommittedCorrect`, `EndedCorrect`, `DeliveryCorrect`,
`CommitsAreFinal`, `RedriveNeverCloses`, `ImplementsLease`, `DispatchClaimsBounded`, for any number
of threads and any gates. The first three
invariants are inductive: a receipt that is final keeps its status (`ReceiptStep`), an action
becomes live only where the attempt is active (`LiveStep`), and an attempt ends with its action or
after it (`EndStep`). `NoLostDelivery` is not; it follows from `Undelivered`: an action that was
failed for its receipt has none that could still be recorded or delivered, because the same
transaction closed the reservation. That needs `SeenIsDelivered` (what an action or a thread has
noted as delivered is) and `ReservedFirst` (no deferral without a receipt). `CommitsAreFinal` is an
action property of the same invariant: each of the transactions that could still touch the attempt,
its action or its receipt finds a status that stops it. `RedriveNeverCloses` is the finding
`adapter_dispatch_redrive` for every behaviour: a dispatch that waits for a receipt nobody recorded
has its reservation closed (`Undelivered`; `UsedWhenRecorded` says that usage comes with the
record); a closed receipt stays closed (`ReceiptLost`), whatever is re-armed; and a commit settles
its receipt or raises. `ImplementsLease` sorts the steps by what they do to the status and the
counts (`CountMoves`). The refinement is proved and not one of the runs: with it, TLC needs too long
for a run of `AdapterDispatch.cfg`. `DispatchClaimsBounded` counts what pays for claims: only a redrive
renews the attempts, and only a wait both budgets. The wake of a delivery renews nothing, since what
waits for its receipt has used no attempt since it was put back (`CountsWaiting`). The waits
themselves have no budget of this kind: the code ends them by the clock (`deadlineAtMs` and
`maxNoProgressMs`, `adapter_dispatch_worker.py:1592`), which the model leaves open.

`EventPublishProofs`: `TypeCorrect`, `HookedCorrect`, `SilentCorrect`, `Implements`,
`ImplementsLease`, `DeliveriesBounded`. The invariant adds what the queue holds: mutations of
published events (`Subjects`), the one the worker waits for as its last (`Awaits`), acknowledgements
of absorbed and hooked events only (`Acks`), and `ClaimsLast`: the queue is first in, first out and
there is one worker, so no claim is followed by a statement of an earlier batch. Hence no requeue
lands on a newer claim, and attempts stay below the gate of the lease scan (`Gates`), which is what
`SilentOnlyByRecoveries` needs. `PublishAssumption` asks for at least two attempts; with one, the
scan would come before the worker. `ImplementsLease` needs only that a mutation names a published
event: each statement checks the row it runs on, so that a late one settles a leased row or nothing.
No step of the publisher takes an attempt back (`AttemptsGrow`), so `DeliveriesBounded` is without
any further term: an event is handed out at most `MaxAttempts + MaxRecoveries` times.

`TurnSchedulerProofs`: `TypesHold`, `TheBooksMatch`, `SessionsSerialized`, `AgentsBounded`,
`NothingElseExceeds`, `NoWakeupLost`, `SessionsInOrder`, for any turns, sessions and agents. The hard part is
`release`: its pass goes over a queue of any length and changes the books as it goes. `PassSound`
says what it leaves: books that are in order (`Named`: a turn stands only in the places that are its
own; `Bounded`) and name whom they named before or started now, and each turn of the old queue kept,
started or dropped, no two of these. It is an induction on the positions of the queue (`Induction`,
from the least number principle: the recursive function `PassOver` is first shown to be defined).
The invariant `IInv` then says that places and books agree (`PlacesMatch`), that whoever waits holds
nothing (`QueuesTyped`), that slots are exact while nothing was released twice (`SlotsExact`), and
that a reservation that waits is in the queue (`ReservationsWait`). `SessionsSerialized` follows,
since a turn that executes is the one that the books name for its session. `NothingElseExceeds`
removes the proviso of `AgentsBounded` where nothing has raised: without a failure no turn is in an
`except` (`CalmReleases`), so each release is by the turn that holds the slot. `NoLostWakeup`
follows from `NoRoom`, which each step keeps beside `IInv`: whoever waits in a queue finds his
session or his agent taken, but for messages that no longer own their session and for plugins'
turns, which may stand aside for a message. The pass makes no room and keeps only those for whom
none is left (`PassJustified`).
`SessionsInOrder` is an action property of the same invariant: what has no room for a turn has none
for any other of its session, so a newcomer must wait too, and the pass starts nobody of a session
that stands behind one who stays. Both theorems assume that nobody reserves a whole agent (nobody
does, section 7): such a reservation also waits behind turns that hold nothing, and whoever waits
behind it has room once it is cancelled.

`CommandQueueProofs`: `TypeCorrect`, `NothingIsLost`, `AnswersAreFinal`, `ClosesComeLast`,
`CommandsActOnce`, `OkIsTruthful`. One invariant carries the first four: that the daemon's file stays claimed until its copy or its result is
written (`DaemonHolds`) and a victim's until its result is (`ResultsFirst`), that a command has one
file unless it came back (`OneFile`), that what is pending and answered was superseded, is about
to be tidied away or is one of the `strays` (`PendingUnanswered`), that what the daemon has claimed and not yet
completed has no answer (`ClaimedUnanswered`), that a submission joins only a command that was queued
(`JoinedQueued`), and that a close has among its victims every older opening it can still find in
the inbox (`ClosesSupersede`). The runs have two commands; the theorems cover chains of requests
that supersede each other. The last two are about histories that count, for each command, how often
the daemon acted for it and how often it died with it in hand. `CommandsActOnce`: each file from which
a command may still be carried out is a chance (`Chances`), a claim turns one into an act, and only a
death gives one back, or pays for the two files that a deferral leaves until it unlinks the first
(`ChancesCounted`). `OkIsTruthful` follows "ok" from the handler to the result (`Truthful`): no
recovery, cancel or superseding request writes "ok" for an opening that was not acted for, found open
or handed to Electron (`Earned`), or for a restart that was not handed to Electron.

## 6. What is only model-checked

All liveness (`EveryMutationAnswered`, `CloseIsBounded`, `CloseAnswers`, `EveryDispatchEnds`,
`FailuresSurface`, `NobodyStarves`, `EveryEventSettles`, `EveryCommandAnswered`): fairness and leads-to are
outside what the prover does. All safety properties of the passing runs are proved, `NoLostWakeup` where
nobody reserves a whole agent.

## 7. Findings

Each is a run TLC finds violated; `PROJECT.json` quotes the line it contradicts.

1. `ledger_writer_lost`: `BEGIN IMMEDIATE` (`writer.py:307`) raises outside the `try`; the
   `finally` of `_drain_loop` clears `_current_group` before `_settle_remaining` reads it. The futures
   of the batch stay pending, and the dead writer goes on accepting. The same holds of a `BaseException`
   of a mutation, which is raised again (`:338`), of COMMIT, which passes `except Exception` (`:348`),
   and of a callback. `OnlyEscapesCanLose`: nothing but such an exception loses a future.
2. `graph_dispatch_fencing`: worker 1's lease runs out in the graph, worker 2 claims the
   action, and worker 1's renewal in `_commit_upstream_accept` succeeds on worker 2's lease.
   `DistinctOwnersFence`: an owner per thread repairs it.
3. `turn_scheduler_bound`: a deferred proactive turn raises in its nested submission and
   is released by both frames; in between another turn took the session. `NothingElseExceeds`: it
   takes an exception.
4. `adapter_dispatch_redrive`: the turn ends and its process dies before the receipt is queued. The
   deferral finds no delivery, fails the action and voids the reservation, which has no usage. The
   sweep finds the node's work complete and re-arms the action; its commit settles a voided receipt,
   and raises. The tests of the sweep use ports without a ledger receipt. `RedriveNeverCloses`: no such dispatch ever commits.

Seen in the models or while reading, and not a run of its own:

- *Writer.* `close()`'s docstring says that what is not in COMMIT fails, while during a COMMIT only the
  queue is settled (`writer.py:134` and `:155`; `CloseAnswers` is stated as the code has it).
  `transitions.py:252` lists FAILED as final for outbox actions, which the revive pass leaves.
- *Graph dispatch.* A fence that is held for long uses up the attempts of what it defers
  (`graph_dispatch_worker.py:1140`, `:1200`). `reconcile_run` re-arms a failed action and keeps its
  recoveries, so the next scan fails it again (`command_service.py:604`). A dispatch that the scan failed
  while its repair succeeded marks a healthy run (`graph_dispatch_worker.py:2371`; the guard before
  `:2424` reads the run's status only). After `cancel_run` and `archive_run` the sweep of starting
  attempts inserts a dispatch for the archived run (`:2043`).
- *Scheduler.* Whoever reserves a whole agent waits whenever its queue is not empty
  (`session_turn_scheduler.py:183`), and whoever comes later waits behind that reservation. A message has
  been admitted and not yet scheduled; a plugin's turn of its session waits behind the
  runtime entry; the reservation waits behind that turn, and now the message behind the reservation.
  Nothing is active, so no release looks at the queue, and a reservation without a timeout waits for
  ever. Cancelling it does not help the message: a cancellation removes, and starts nothing
  (`:248`, `:277`). TLC finds `NoLostWakeup` violated with these three turns. `reserve_agent_execution_slot`
  is exported and called nowhere in the repository, so today it does not happen.
- *Adapter dispatch.* The mutation of `_block_attempt` returns None, so `blocked` is false and the void
  that its comment promises never runs (`adapter_dispatch_worker.py:1338`); neither does the repair
  of exhausted leases void (`:325`), nor `_fail_unregistered` (`:1406`), nor anybody after a
  crash between a failure and its void. A void drops recorded usage that the compensation would
  settle (`budget_authority_adapter.py:1263` and `:1068`). A stale thread voids before its fenced
  failure (`:556`, `:579`), so the reservation of a thread that is executing can go; its commit
  then raises. The wake of a blocked run (`completion_dependency.py:160`) is unreachable with one receipt per
  turn: the deferral has closed the reservation that recording needs. Without its anchor an attempt
  stays dispatching, and neither wake nor redrive applies. A requeue replaces the completion cursor
  (`adapter_dispatch_worker.py:1873`). `cancel_node` leaves the action (`command_service.py:1491`): the next commit or
  failure raises out of `_handle`, until the lease scan fails the action. `retry_node` accepts
  cancelled attempts (`:1465`), whose transition to stale is illegal (`transitions.py:195`). The scan of
  the repair takes the oldest actions up to its limit (`adapter_dispatch_worker.py:347`, 8 by
  `outbox_pump.py:44`), and writes nothing to those it cannot repair, as those of a superseded attempt
  whose run is running again: eight of them keep every younger one from being repaired, until one
  of their runs stops running.
- *Event publish.* The lease scan fails an event for its lost leases and leaves nothing on the
  invocation, while the module says that retries past the gate leave diagnostics
  (`event_publish_worker.py:11`). `_dead_letter` ignores whether the action was still its own. The
  status of the parent is checked outside the transaction that absorbs
  (`knowledge_sideflow_service.py:1104`). The hook decides on attempts it read before
  (`knowledge_recheck.py:118`). A dead letter leaves the parent blocked.
- *Command queue.* The state file of a daemon that died in a shutdown names that command until
  its successor first observes, and turns requests away meanwhile (`daemon.py:2569`). A reopening
  that was promised may not happen (`command_queue.py:1340`). Superseding writes a result without
  taking the file, so a superseded command may run and overwrite its result (`:918`). A shutdown may join a
  plain close, and the manager goes on (`:1205`). An interrupt for a deferred restart is cleared by
  the next claim (`:305`). A pending intent can be claimed by a later shutdown, and a claimed one is
  lost by a crash. A cancel of an opening moves the file aside and back.
  `os._exit` after a shutdown leaves the lock file (`daemon.py:2558`). `restart_workbench` has lost its
  handler (`daemon.py:2805`): the daemon answers it as unsupported, while `runtime_service.py:756` still
  submits it and `daemon.py:2789` still prepares for it. An open that is interrupted in the restart of
  its republication is answered ok and leaves the workbench closed (`:3593`, `:4959`), where any other
  interrupted open is not ok (`:3057`).

## 8. What is not modelled, and why

- In the modelled components: what the graph computes; the repairs of runs without
  attempts, of attempts without adapter dispatch and of terminal packages; successor
  attempts and handoffs beyond their commit; the background quota and the order of the
  lease scan (any ready action may come first); `run_once`, which leases a batch and is
  not what the pump calls; the file protocol of the fence.
- `AdapterDispatch`: the commit of a human task; what decides a reservation (stages, windows,
  policies); a turn of several model calls and so several receipts; continuations of a turn; the
  authority that the redrive asks; the landing of a reconciliation on another blocked node; a
  reconciliation while a start dispatch is on its way; how the node after a success blocks the run
  before the success is run again (`Retries` may come any time).
- `EventPublish`: payloads that cannot be decoded, the batch limit, what the hook does to the
  parent's node, and the rest of the knowledge flow.
- `CommandQueue`: how the workbench's processes are started, verified and stopped; what Electron does
  with what it is handed; `hot_restart_workbench` and `toggle_workbench`, which supersede, join and
  interrupt nothing; the launcher's
  watchdog calling the recovery itself after a stale look (`core/launcher/service.py:1214`).
- Delivery worker, reaper, run ledger, readers, chat journal, and the runtime manager's locks and leases:
  planned, below.
- Competition, evaluation, gym, orchestration, agent kernel, prompts: sequential data
  transformation. LLM access, external agents, launcher, desktop shell, web client: I/O and
  processes outside the repository's own state. Migrations and schema: database work.

## 9. Plan

Done, in this order: `LedgerWriter` with `MutationLog` (everything durable goes through it),
`GraphDispatch` (the busiest user of the ledger), `TurnScheduler` (the other concurrent core),
`CommandQueue` (crashes between processes), `EventPublish` with `AtLeastOnce`, `AdapterDispatch`, and
`OutboxLease`, which three of them implement.

Next:

1. `RunLedger`: versions and status graphs of runs, attempts and handoffs; composed with
   `GraphDispatch` and `AdapterDispatch` for the half-advanced successor.
2. `ReaderPool`, `ConversationWriter`; `InstanceLock`, `WorkRunLeases` and the desktop's
   `MainLineCommandQueue`.
3. The scans of the graph worker's repairs as steps of their own.
