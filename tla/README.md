# Kratos Agents Turbo: the verification project

TLA+ models of the document-processing service in `src/`, the TLC runs that
check them on small instances, and theorems that TLAPS checks for every size.
Paths are relative to the root of the repository's files (`src/db.py` of the
repository is `src/src/db.py` in `PROJECT.json`).

## 1. The system

A client uploads documents to the API. The API stages each file on a shared
disk and commits, in one transaction, a row in `tasks` and a row in
`task_dispatches` (the outbox). Dispatching a row sends a Celery message. A
worker takes the message, creates or finds the task's session, runs the agent
on the file and settles task and session. Clients cancel tasks and batches
through the API, and ask for a reconcile of outbox rows that were not
dispatched. All processes share nothing but Postgres, the disk and the broker.

| Component | State | Operations | What makes it correct | Model |
|---|---|---|---|---|
| Status tables (`core/status.py`) | two enums, two transition tables | `ensure_*_transition` | a row moves along the table only, and terminal statuses are final | `Lifecycle`, `TaskLifecycle` |
| Task service (`services/task_service.py`) | `tasks` | `create_task`, `attach_execution_context`, `mark_*` | check and update agree although they are two statements | `TaskExecution` |
| Session service, manager | `sessions`, unique per task | `create_or_load_session`, `mark_*`, `update_progress` | every started task has one session, it ends after and like its task | `TaskExecution` |
| Orchestrator (`services/orchestrator_service.py`) | none of its own | `execute`, `_handle_state_sync_error` | every exit leaves task, session and log consistent | `TaskExecution` |
| Worker runtime (`worker/tasks.py`, `celery_app.py`) | a delivery per process | `process_document_task`, `schedule_retry`, `mark_terminal_failure` | a task is settled or somebody still owes it an execution | `TaskExecution` |
| Cancellation (`services/cancellation_service.py`) | records read once | `cancel_task`, `cancel_batch` | an answer is true; an early cancellation holds | `TaskExecution` |
| Event store | `task_logs` | `append` | events do not claim what did not happen | `TaskExecution`, `DispatchOutbox` |
| Dispatch (`services/dispatch_service.py`) | `task_dispatches` | `dispatch_task(s)`, `reconcile_pending` | a row is claimed by one process, never lost, and "dispatched" means sent | `DispatchOutbox`, `Publisher` |
| Submission, batches (`submission_service.py`, `batch_service.py`) | rows and files of a batch | `submit_task`, `submit_batch`, idempotency keys | one batch per key, no file without a row and no row without a file | `Submission`, `IdempotentRegistry` |
| Staging (`staging_service.py`) | the staged files and their directories | stage, load, delete, prune | a file lives until its task has moved; a directory lives while it is used | `Submission`, `TaskExecution` |
| Batch status (`db.py`) | derived from counts | `get_batch_summary`, `get_batch_with_tasks` | the derived status agrees with the tasks, and with the list beside it | `OperationsViews` |
| Operations views, metrics cache | read-only; a cached payload | summaries, `generate_metrics_payload` | no waiting task is overlooked, no stale payload outlives its time to live | `OperationsViews` |
| Capacity script (`scripts/validate_batch_capacity.py`) | a poller outside the service | `_poll_batch`, the report | a report is of a batch that is as it says | `OperationsViews` (the poll) |
| Migration governance (`core/migration_governance.py`) | the ledger of migrations | apply, verify | each migration is applied once and in order | `MigrationLedger` |
| Validator | none | `validate_*` | nothing is written for a submission that is refused, and what was staged goes | `Submission` (that it refuses, and when) |
| Router, retry policy | none | pure functions | the choice and the delays | what they decide: `Routable`, `Outcomes` of `TaskExecution` |
| HTTP API, schema | -- | endpoints | one request of the API is one API process of the models | as far as the services need it |
| Agents, evaluation harness, settings, logging, MCP server | none shared | -- | sequential or pure I/O | not modelled |

The hard behaviour is all in how the parts meet:

* A status change is a `SELECT`, a check of the transition table and an `UPDATE`
  by id. Outside `db.transaction()` each commits alone, so any other process
  may run in between.
* `execute` and `cancel_*` decide on records they read earlier.
* Redis delivers a message again after the visibility timeout, while the first
  worker may still be working; a lost worker's message comes back
  (`task_acks_late`); `revoke(terminate=True)` kills a worker in any stage.
* Each failure path (`_handle_state_sync_error`, `mark_terminal_failure`, the
  recovery of a cancellation) consists of calls that can fail as well.
* An outbox row in `dispatching` belongs to a process that may be gone.
* A submission stages its files before it knows that it may create the batch:
  another one with its key may be between the lookup and the commit, a worker
  may remove the directory between the `mkdir` and the `open`, and a commit
  may succeed without the process hearing of it.
* A view is several `SELECT`s, each of another moment.
* Migrations are applied by whoever deploys, from checkouts of any age, with a
  ledger that is read once and without a lock.

`PROJECT.json` lists each such hazard at its line, with the properties that
would catch it.

## 2. The modules

```
Lifecycle <-- TaskLifecycle (abstract)
    ^  ^            ^ refinement (its Spec by one actor at a time,
    |  |            :             its ContestedSpec by any number)
    |  +----- TaskExecution <-- TaskExecutionProofs <-- TaskLifecycleProofs
    |              ^                             ^----- TaskTruthProofs
    |              |                             ^----- TaskOwedProofs
    |              +-- MCTaskRace, MCBatchCancel, MCTaskSerial, MCTaskRetry
    |
    +-- OperationsViews <-- MCOperations
             ^------------- OperationsViewsProofs

Publisher (abstract) <-- TaskOwedProofs
     ^ refinement
     :
DispatchOutbox <-- MCOutbox
     ^------------ DispatchOutboxProofs

IdempotentRegistry (abstract)
     ^ refinement
     :
 Submission <-- MCSubmission
     ^--------- SubmissionProofs

MigrationLedger <-- MCMigrations
     ^------------- MigrationLedgerProofs
```

The four models of behaviour meet in the rows: `Submission` commits the tasks
and outbox rows that `TaskExecution` and `DispatchOutbox` start from, and
`OperationsViews` reads them. Each has the other parts as its environment, in
the coarsest form that still does everything they can do to its own state:
`Submission` has workers that end or strand a task and delete its input, and a
reconcile; `OperationsViews` has tasks that move along the table or, a bounded
number of times, are written over, and dispatches that are made or undone;
`TaskExecution` has an outbox that sends a bounded number of messages.

That these environments allow what the detailed models do is proved (section 4):

| Environment | of | is what is done by | Theorem |
|---|---|---|---|
| `Publish`, `MaxPublishes` | `TaskExecution` | `DispatchOutbox`, by way of `Publisher` | `OutboxImplementsPublisher`, `WorkersBehindTheOutbox` |
| `EndTask`, `DropInput` | `Submission` | `TaskExecution` | `WorkersAsSubmitted` |
| `Register`, `Publish` | `Submission` | `DispatchOutbox` | `OutboxAsSubmitted` |
| `MoveTask` | `OperationsViews` | `TaskExecution`, by way of the contested lifecycle | `TasksKeepContestedLifecycle`, `ViewsMeetEveryMove` |

**Lifecycle** holds the statuses, the transition table (the source has it twice,
for tasks and sessions) and `CanMove`, which is TRUE where
`ensure_*_transition` returns. **TaskLifecycle** is the abstract promise of a
status column: a row appears as queued, then makes one legal move at a time.
Its contested form (`ContestedSpec`) is what is left of the promise when several
actors write a row whose status they have read before: a row that is over may be
overwritten (`Overwrite`), and nothing goes back to queued.

**TaskExecution** has the rows (`task`, `session`), the files (`staged`), the
event log (a set of event types for each task), the broker (`queue`,
`published`, `revoked`) and a program counter with locals for each worker and
each cancel request. One step is one database statement, one file operation or
one broker call. How its actions correspond to the code:

| Actions | Code |
|---|---|
| `Receive`, `CheckCancelled`, `LoadInput`, `ScheduleRetry`, `FinalRead`, `Cleanup` | `process_document_task` and the methods of `BaseTask` |
| `TakeSnapshot`, `LoadSession`, `CreateSession`, `Attach`, `RunAgent` | `OrchestratorService.execute` up to the agent's return |
| `EnsureTask`/`WriteTask`, `EnsureSession`/`WriteSession`, `AppendEvent` | the two statements of every `mark_*` and the event inserts, in each stage that has one; `After` is the order the code has them in |
| `SyncTask`, `SyncSession` | the reads of `_handle_state_sync_error` |
| `Raise`, `Handler` | which try block catches an exception of which stage |
| `CancelTask`, `CancelBatch`, `Pick`, `EnsureCancelled`, `WriteCancelled`, ... | `CancellationService`, statement by statement |
| `Crash`, `Redeliver`, `Kill`, `Discard`, `Publish` | the broker, as `celery_app.py`, `revoke` and the outbox use it |
| `Fault`, `CancelFault` | a call that raises |

**DispatchOutbox** has `task_dispatches.status`, the dispatch events, how often
each message was sent, and what each API process is doing. `Claim` is the
conditional `UPDATE`, `Reread` the fallback `SELECT` of `claim_task_dispatch`;
`Reconcile` is the one statement that claims with `FOR UPDATE SKIP LOCKED`;
`Publish`, `Mark`, `AppendDispatched`, `MarkFailed` and `AppendFailed` are
`_dispatch_record`. Tasks are numbered in the order of `created_at`, which is
the order `reconcile_pending` claims them in.

**Publisher** is what the outbox promises to those who get its messages. It is
not exactly once: for each task two messages, one of the submitter and one of a
reconcile beside it, and one more for each call that fails.

**IdempotentRegistry** is what a submission promises its clients: one insert
registers a submission, none is registered under a key that is taken, and an
answer names the batch that is registered under the key of the request.

**Submission** has the directories and files, the committed submissions, the
state of each task and outbox row, and for each request its stage, how many
files it has staged and the batch it will name.

| Actions | Code |
|---|---|
| `Refuse`, `Begin`, `Lookup` | the validator's first calls, `submit_task` and `submit_batch` up to the first write, the lookup by key |
| `Mkdir`, `Open`, `Stored` | `StagingService`, for one file: the chunks of `stage_upload_stream` for a batch, the one write of `stage_upload` for `POST /tasks` |
| `RefuseFile`, `OverBudget`, `Reject`, `Cleanup` | a file turned down while others are staged; the `except` that deletes what was staged and prunes the directories, in one step when no deletion raises |
| `Insert`, `Blocked`, `Register`, `Commit`, `Requery` | `create_batch_submission` and `db.transaction()`: the unique index lets the second insert of a key wait until the first transaction ends, and then fail or pass |
| `Dispatch`, `AnswerExisting`, `Adopt` | the dispatch after the commit; the answer with the batch that is there, and its reconcile |
| `Fault`, `CommitUnheard`, `Crash` | a call to the database that raises; a `COMMIT` that took effect and was not acknowledged; an API process lost, or a request cancelled |
| `StageFault`, `TearWrite`, `CleanupFails` | `mkdir` or `open` raises; a write of `stage_upload` raises, or the `unlink` of `stage_upload_stream` in its `except`, and the file in hand stays; an `unlink` of `delete_staged_inputs` raises, and the files from there on stay |
| `EndTask`, `StrandTask`, `DropInput`, `Reconcile` | the workers' `load_staged_input` and `finally` block, and `reconcile_pending` |

**MigrationLedger** has the ledger, how often the SQL of each version was
committed, and for each applier its checkout, the ledger as it read it and the
migration in hand. `ReadLedger`, `NextMigration`, `Execute`, `InsertRow` and
`Commit` are the statements of `apply_repo_migrations`, `Report` is its return;
`missing_versions`, `unexpected_versions` and `checksum_mismatches` are those of
the verification.

**OperationsViews** has the statuses of a batch's tasks and outbox rows, a clock,
the cache, and one reader: of `GET /batches/{id}` as the capacity script polls
it (`ReadStatus`, `ReadTasks`, `Decide`, `ReadDetails`), of the operations summary
or of `/metrics` (`ReadPending`, `ReadWaiting`, and `Scrape`, `Store` for
`get_or_build`). `BatchStatus` is the `CASE` of `get_batch_summary`.

### Modelling assumptions

* A statement that raises had no effect, but for a broker send, which may have
  sent (`DispatchOutbox!Fault`), and a submission's `COMMIT`
  (`Submission!CommitUnheard`). All of `DispatchOutbox` rests on it, above all
  `ClaimsAreHeld`: a claim that was committed and not heard of leaves its row in
  `dispatching`, like the claim of a lost process.
* psycopg's exceptions are not in the list of retryable ones, so only the file
  and the agent lead to a retry.
* `LoadSession`: the hint is the text of a session id and the row holds a
  `uuid.UUID`, so they always differ (see the findings). A hint of the client's
  is refused by the validator on submission and is never present.
* `Kill` and `Discard` allow a revoke to take effect late, or never.
* Left out because nothing decides on them: progress and step text, `attempts`
  and `last_error` of an outbox row, the payload and order of events, the
  cleanup mark in the task's metadata, and the base64 variant of the input.
* The insert of TASK_RETRY_SCHEDULED and the publishing of the retry are one
  step.
* `Submission`: the rows of an open transaction are invisible, and only the
  entry in the unique index of the key is felt by others (`Blocked`). What the
  validator refuses is open; only when it can refuse is modelled.
* `MigrationLedger`: the SQL of a migration may fail, and need not, when another
  applier has run it or is running it; then the primary key of the ledger
  decides. What the verification prints of Supabase's migrations is left out.
* `OperationsViews`: readers write nothing but the cache, so a behaviour has one
  reader, of any kind. The lists are asked for with no minimal age and a limit
  that is large enough. `/metrics` is served by one thread (`async def`), so the
  lock of the cache is never waited for. A build that raises stores nothing: it
  is a reader that goes no further.

## 3. The runs

| Run | Instance | Question |
|---|---|---|
| `race` | 1 task, 2 workers, 1 cancel request, 2 messages, 1 retry, agent ok/error/transient; no failing call, no crash or redelivery | what survives every interleaving of two deliveries and a cancellation; refinement of the contested lifecycle by tasks and by sessions |
| `batch_cancel` | 2 tasks, 1 worker, 1 cancel request, 1 failing call | what a cancel request of several stale records may answer |
| `serial` | 2 tasks (one not routable), 1 worker, 1 retry, 2 failing calls, 1 crash or redelivery | with one actor at a time: refinement of `TaskLifecycle`, pairing of task and session, settling |
| `submission` | 2 batches with one key, of 2 files and of 1, and 2 single tasks, of which 3 are submitted; 1 failing call or deletion, lost process or commit that was not heard of | whether keys are idempotent and inputs safe, whatever else goes on, and what a failed submission leaves |
| `migrations` | 2 appliers, each with any checkout of up to 3 migrations; 1 lost process | what overlapping runs leave in the ledger |
| `operations` | a batch of 2 tasks, 1 reader of each kind, a clock up to 2, lifetime 1, 1 repeated poll, 1 overwritten end, 1 undone dispatch | what a view made of several `SELECT`s may say |
| `outbox` | 2 rows, 3 processes, 1 failing call, 1 lost process | who may hold a row, what "dispatched" means, how often a message is sent, and whether rows get there; refinement of `Publisher` |
| `terminal_final`, `retry_rejected`, `unknown_agent`, `batch_covers`, `outbox_exclusive` | the same instances | counterexamples, see the findings |

What the properties say is written above each of them in the modules. In short:

* *Rows.* A started task has its session (`StartedHasSession`); a task cancelled
  before a worker looked is never started (`EarlyCancelHolds`); a session is settled after its task
  (`SessionSettlesAfterTask`) and, undisturbed, like it (`PairedAtRest`). With
  one actor the rows keep the lifecycle (`TasksFollowLifecycle`,
  `SessionsFollowLifecycle`), with several the contested one
  (`TasksFollowContested`, `SessionsFollowContested`): finding 1 is all they lose.
* *Nothing is lost.* A queued task has its file (`QueuedInputStaged`); a
  published task is settled, owed an execution, revoked or known to be
  abandoned (`NoSilentLoss`), and a running one is always owed one while no call
  fails (`RunningIsOwed`); every published task settles (`PublishedSettles`). The
  input of a task goes with one of its deliveries, however many there are and
  whoever cancels, unless a call failed, a revoke took the delivery or its
  failure handling raised (`NoInputForgotten`).
* *Answers are true.* The log (`LogTruthful`), a cancel request
  (`CancelReportsTruth`), an outbox row (`DispatchedWasSent`).
* *The outbox.* No row is stuck in `dispatching` (`ClaimsAreHeld`), reconciles
  share none (`ReconcilesDisjoint`), a dispatched row stays so
  (`DispatchedIsFinal`) and every row gets there (`EveryRowDispatched`), with no
  more messages than `Publisher` allows (`ImplementsPublisher`).
* *Submissions.* One batch for a key (`OneBatchPerKey`); the input of a task that
  is still to run is there (`InputsKept`), and so is the directory a batch is
  staging in (`OwnDirectoryStays`); a submission leaves no file that no task
  needs, with four exceptions (`OnlyThoseLeaveFiles`); no failure leaves a key held
  (`NobodyWaitsForever`); all of it as the registry promises (`ImplementsRegistry`).
* *Migrations.* The SQL is committed once, with its row (`AppliedOnce`), in order
  (`LedgerIsPrefix`), and success means what it says (`SuccessIsUpToDate`).
* *Views.* The `CASE` of the batch status is right for every mix of statuses
  (`DerivedStatus`) and moves forward (`StatusForward`); an answer about a batch
  that has ended is of one piece (`AnswerNotTorn`); a waiting task is in one of
  the two lists (`QueuedNotOverlooked`); a scrape is fresh (`ScrapeFresh`).

### Bounds

Every bound is a constant: `MaxRetries`, `MaxPublishes`, `MaxFaults`,
`MaxDisruptions`; `MaxBatch`, `MaxFaults`, `MaxCrashes`. Two workers on one task
are the smallest instance with a race of check and update; a third adds the
same pair again, and tasks meet only in a cancel request, which is why
`batch_cancel` has two of them. Two failing calls reach a failing failure
path, and what three would reach is excluded by the properties' own conditions
(`faults < 2`). The outbox needs a submitter and two reconciles, hence three
processes; with two rows one request can hold a row while it works on the other
and a limit of 1 leaves one out. `race` has two messages for its task because
the outbox sends two while no call fails (`OutboxImplementsPublisher`), and two
workers because then no more can be at the task at once (`WorkersAtOnce`). Two deliveries
with all their interleavings are what fits into it; failing calls, crashes and
redeliveries between two workers are left to the theorems about the same
properties, which have no bound on any of them (and to `serial`, with one
worker). `serial` and `batch_cancel` have the failing calls of one actor at a time.

`submission`: two requests race for a key, a third that is a single task puts a
worker's pruning next to another staging; two files are needed to fail after
the first one, and two single tasks to share a directory. A fourth request at
once would only repeat one of these pairs. With its one failing call a commit is not
heard of, or a cleanup raises; one after the other is left to
`NothingElseLeavesFiles`, which has no such bound. `migrations`: two appliers overlap in
each of their statements, and with three versions one of them can be ahead by
a version, behind by another, and hold an edited file of the third.
`operations`: two tasks give a batch each of its six statuses, and a clock of 2
with a lifetime of 1 lets a payload expire while it is built, and after.

The safety invariants proved in section 4 do
not depend on any bound.

Deadlock is not checked: when all messages are handled, all requests answered
and the bounds used up, the system rests, as it should.

### Fairness

`TaskExecution`: weak fairness of each worker's own steps. A Celery worker goes
on until it is idle, and the code counts on `agent.run` returning. No fairness
is assumed of the outbox, clients, crashes or the broker's redeliveries.

`DispatchOutbox`: a request that has begun goes on, and *somebody keeps asking for
a reconcile*. The second is an assumption about the operators: the code has
no timer, it reconciles on `POST /dispatch/reconcile` and when a submission is
repeated. No fairness is assumed of submissions.

`Submission`, `MigrationLedger` and `OperationsViews` state no fairness: clients,
operators and pollers may stop at any time. That a submission cannot be stuck is
`NobodyWaitsForever`, which says of every state that somebody can go on.

### Findings

1. `terminal_final`: a terminal status is overwritten. Two processes pass the
   check, then both write (`src/services/task_service.py:126`).
2. `unknown_agent`: what fails before `mark_running` can not be settled, as
   queued -> failed is no move; the task stays queued
   (`src/worker/tasks.py:115`).
3. `retry_rejected`: each retry of an attached task fails it at once: a
   session id as text is compared with a `uuid.UUID`
   (`src/services/session_service.py:32`).
4. `batch_covers`: a batch cancellation ends at the first task that finished in
   the meantime and leaves the rest (`src/services/cancellation_service.py:75`).
5. `outbox_exclusive`: the fallback `SELECT` of the claim makes a submitter publish
   a row that a reconcile has claimed (`src/services/dispatch_service.py:41`).
   Until a call fails that is the only pair, and the cost is a second message
   (`OnlySubmitterAndReconcileCollide`, `MessagesAreBounded`).

Three properties carry a condition that the code imposes, and the condition is
itself information: `SessionSettlesAfterTask` fails with two failing calls in a
row, `ReconcilesDisjoint` and `DispatchedIsFinal` with one (a submitter that
published a row of another process sets it to failed), `ClaimsAreHeld` and
`EveryRowDispatched` with a lost process or two failing calls: such rows stay in
`dispatching` and no reconcile looks for them.

So do five others:

* `InputsKept` excepts a commit that was not heard of. The `except`
  of the submission deletes the files although its rows are committed; the tasks
  stay queued, and a batch submitted again under its key is answered with that
  batch (`src/services/submission_service.py:110` and `:217`).
* `OnlyThoseLeaveFiles` names who leaves files of no task: a lost process or a
  cancelled request, as `except Exception` does not catch that; the loser of a
  race for a key, which answers with the winner's batch and keeps its own files
  (`src/services/submission_service.py:221`); a write of `POST /tasks` that fails
  half-way, as only the streaming variant removes its file, or a file of that
  variant which could not be removed; a cleanup that raises, since
  `delete_staged_inputs` catches `FileNotFoundError` alone and leaves that file
  and all after it (`src/services/staging_service.py:83`). It allows the file of
  a task that has ended, because that is the workers' to delete.
* `NoInputForgotten` says when they do. A revoke that drops the message of a
  queued task or kills a delivery before its `finally` block leaves the input
  for good (`src/services/cancellation_service.py:119`), and so does a failure
  handling that raises (`src/worker/tasks.py:198`: the flag is set after it).
* `OwnDirectoryStays` is about batches. `single`, the directory of all
  `POST /tasks`, may be pruned between another request's `mkdir` and `open`; that
  request then fails and nothing is left (`src/services/staging_service.py:89`).
* `StatusForward` and `AnswerNotTorn` hold as long as no end is overwritten (see
  finding 1), `QueuedNotOverlooked` as long as no dispatch is undone.

Met while modelling, and not expressed by a run:

* `_poll_batch` of the capacity script does not know `partial` as an end and
  polls such a batch until its timeout; `list_open_batch_summaries` counts a
  partial batch as open, for ever.
* `validate_upload_metadata` looks for a name that is not a PDF's after the
  sanitizer has made it end in `.pdf`, so that check refuses nothing.
* `README.md:396` and `infra/sql/migrations/README.md:25` call the ledger
  `internal.platform_migrations`; the code keeps it in
  `platform_meta.repo_migrations` (`src/core/migration_governance.py:12`).
* The gauge described as pending or failed dispatches
  (`src/core/metrics.py:79`) counts rows in `dispatching` too.

## 4. The theorems

All for every set of tasks, workers, requests, appliers and processes and every
value of the bounds, from `ConstantsAssumption`, `OutboxAssumption`,
`SubmissionAssumption`, `LedgerAssumption` and `ViewsAssumption` alone.

* `TypeCorrect`, `OutboxTypeCorrect`, `SubmissionTypeCorrect`,
  `LedgerTypeCorrect`, `ViewsTypeCorrect`: the type invariants. They include that
  a process in a stage of its work has a task, or a file, or a migration, to work
  on, which every other proof uses.
* `StartedTasksHaveSessions`, `QueuedInputsStayStaged` (`TaskExecutionProofs`).
  Neither is inductive: that a worker's next step is harmless
  depends on what it did before. `SafetyInv` adds that (`WorkerKnows`): past
  `attach` the row names a session; past `mark_running`, or with a snapshot that
  was not queued, the task has left the queue; and a passed check for `failed`
  means it had been started. What makes it stable under the steps of others is
  `Monotone`: a row never loses its session and never becomes queued again.
* `NoTaskIsLostSilently`, `RunningTasksAreOwed` (`TaskOwedProofs`). The argument
  is one lemma on a single step, `OwedStep`: whoever owes the task an execution
  still does after the step, or has found or made it terminal, or was revoked,
  or ended by an exception, which without a failing call happens only to tasks
  that are not running. A task is first owed one when its message is published.
* `NoInputIsForgotten` (`TaskOwedProofs`). The invariant is that until the input of
  a published task is deleted somebody has a message of the task (`InHand`): it
  waits, or a worker is at it in any stage, its cleanup included. `HowItEnds` has
  the three ways a delivery ends by itself: it deletes the input, it sends a new
  message, or it raises, which makes the task abandoned.
* `EarlyCancellationsHold`: from `TypeOK` and the shape of the early returns.
* `NothingDispatchedUnsent`, `ClaimedRowsAreHeld`, `ReconcilesShareNoRow`,
  `DispatchedRowsStay` (`DispatchOutboxProofs`). The inductive invariant
  `OutboxInv` adds who can be in which stage (`SubmittersClaim`,
  `FailedAfterFault`), that whoever marks a row has sent its message
  (`MarkedWasSent`), and that until a call fails a row held by a reconcile is in
  `dispatching` (`HeldIsClaimed`), so another process cannot claim it.
* `MessagesFollowClaims`, `RowsMoveForward`: a message is sent only for a row that
  somebody has claimed, and a claimed row is never pending again, whatever fails.
  `OperationsViews` takes both for granted of the rows it reads: no task starts
  while its row is pending (`MoveTask`), and rows move as in `DispatchRow` and
  `UndoDispatch`.
* `MessagesAreBounded`, `OutboxImplementsPublisher`. Counting the messages alone is
  not inductive: what bounds them is who can still send one. `SendInv` counts
  those processes (`Senders`: the row in hand or ahead, up to its publishing, or
  about to be made claimable again) and what the row itself has to spare, two
  before it exists, one while it can be claimed. A claim turns what is spare into
  a sender, a send turns a sender into a message, and only a failing call adds
  to the sum. `OnlySubmitterAndReconcileCollide` is the same thought about who
  sends: a row has one submitter, and reconciles share none.
* `WorkersBehindTheOutbox` (`TaskOwedProofs`): workers that receive whatever a
  publisher sends, with no bound of their own (`OpenSpec`), behave as `Spec` says
  if the publisher is `Publisher`, at most n calls fail and `2 + n <= MaxPublishes`.
  So what is proved of `TaskExecution` for every `MaxPublishes` is true of workers
  behind `DispatchOutbox`.
* `MessagesAreConserved`: the messages of a task in the broker (`Waiting`) and the
  workers that have one (`Working`) are together no more than were published and
  handed out again. A retry replaces its delivery and a crash gives it back; in
  each of the two the one set gains what the other loses (`Balance`).
  `WorkersAtOnce` puts it behind the outbox: two workers at one task, and one more
  for each failing call, redelivery or crash.
* `OutboxAsSubmitted`: a row whose message is out, however its status moves after,
  is "dispatched" to `Submission`; every step then makes rows of a submission
  appear or publishes pending ones.
* `InputsOutliveTheirTasks`, `WorkersAsSubmitted` (`TaskTruthProofs`): a worker
  reaches the cleanup over a task it has read as terminal, or made so in the stage
  before (`EndTold`), and has a task only if its message was published
  (`OnlyPublished`). Nothing a retry, a redelivery or a crash does gets it there
  sooner. It is stronger than `QueuedInputStaged`: the input of a running task is
  there too, for whichever delivery needs it next.
* `TheLogIsTruthful`, `CancelAnswersAreTrue`, `SessionsSettleAfterTheirTasks`
  (`TaskTruthProofs`). What they claim was written by another step, and may have
  been overwritten since; so the invariant speaks of the statuses a task has had,
  which only grow. `WorkerTold` and `CancelTold` say what each stage has behind
  it: after the write of completed, that it was written; in the state sync
  handler, that the task is settled or a call has failed, and in its second half
  that two have. A refused move to failed means that the task is over, because
  it has left the queue (`SafetyInv`). For a batch, `CancelTold` splits the tasks
  of the request into those passed, the one in hand and those to come.
* `LoneWorkersKeepTheLifecycle`, `LoneWorkersKeepTheSessions`, `LoneWorkersEndOnce`
  (`TaskLifecycleProofs`): for one worker and no cancel request (`OneActor`)
  `TaskExecution` implements `TaskLifecycle`, and an end is final. A check that has
  passed still holds when its write comes (`ChecksHold`), which is what two actors
  break (finding 1).
* `TasksKeepContestedLifecycle`, `SessionsKeepContestedLifecycle`: any number of
  actors implements the contested lifecycle. For a write against the table to
  find its row over, the row must have left the queue when it was checked for an
  end, and must not fall back. Of tasks `SafetyInv` says so; `ContestInv` adds it
  for sessions (`Begun`), with the fact that the session a writer names is there,
  although a cancel request names it by a record it read long before.
* `LoneWorkersLeaveRowsPaired`: `PairedAtRest` under `OneActor`. It is far from
  inductive, since task and session differ while a delivery moves them one
  after the other. `EvenInv` says for every stage by how much (`EvenAt`), and of a task that no
  delivery is at work on that it is `Even`: not started, waiting for a retry, or
  over like its session. The stages of the state sync handler are not among them,
  as only a failing call leads there.
* `RestIsSettled`: once the deliveries of a published task have come to rest, it
  is settled, revoked or abandoned, and not left running unless a call failed.
* `KeysAreIdempotent`, `InputsAreKept`, `DirectoriesStay`, `NothingElseLeavesFiles`
  (`SubmissionProofs`). The invariant gives each request what its stage has
  behind it (`Progress`: how much is staged, and whether it is committed), its
  directory (`OwnDirectory`), and for each file that it is on disk for as long as
  its task needs it, and no longer unless one of the four leaves it (`Input`); `KeysHeld` says that a transaction which has
  inserted a key is alone with it.
* `ServicesImplementRegistry`: `Submission` implements `IdempotentRegistry`. The
  commits are its `Register`, the answers its `Answer`, every other step stutters.
* `MigrationsRunOnce`, `PrefixAlways`, `SuccessMeansUpToDate`
  (`MigrationLedgerProofs`). What an applier has read, applied or skipped stays
  in the ledger as it was, and what it has passed is a prefix of its checkout.
* `StatusIsDerived`, `StatusMovesForward` (`OperationsViewsProofs`) are about a
  `CASE` over five cardinalities, for batches of any size: a count equals the
  size of the batch only if all tasks have the status, and is positive only if
  one has. `AnswersAreWhole` follows from ends being final between the two
  `SELECT`s, `NobodyIsOverlooked` from rows that move out of the first list only
  into the second one, which is read later, and `ScrapesAreFresh` from the payload
  expiring a lifetime after a time before its first read.
* `ViewedTasksKeepLifecycle`, `ViewsMeetEveryMove`: the tasks behind a view are as
  free as the contested lifecycle lets them be and no freer. With
  `TasksKeepContestedLifecycle` this ties the environment of `OperationsViews` to
  `TaskExecution`, up to the bound on overwritten ends.

Liveness is beyond what TLAPS checks here, but the arguments it rests on are
safety, and are proved:

* `DeliveriesRunDown`, `RequestsRunDown` (`TaskOwedProofs`), `DispatchesRunDown`,
  `SubmissionsRunDown`, `AppliersRunDown`: every change of a process, its failures
  and losses included and whatever the others do meanwhile, brings it nearer to its end,
  as measured by a natural number, or first by the set of rows it has still to
  look at. So no handler hands control back in a circle, as `_handle_state_sync_error`,
  the retry and the failure handling of a delivery might with each other; and
  weak fairness of its steps is enough for a process that is never blocked to end.
* `RestIsSettled` says what has then become of the task. Together with
  `DeliveriesRunDown` it is the argument of `PublishedSettles`; that deliveries come
  to rest at all is since they do not multiply (`MessagesAreConserved`) and a retry
  has a higher count than the delivery it replaces, up to `MaxRetries`.
* `RestIsDispatched` says the same of the outbox: when the processes rest and a
  reconcile finds nothing to claim, no row is left behind. With
  `DispatchesRunDown` it is the argument of `EveryRowDispatched`, short of the
  operators who ask again.
* `TheKeyHasOneHolder`: who waits in an insert waits for one transaction, which
  waits for nobody. `SomebodyCanGoOn` makes it a theorem that replaces the
  `ENABLED` of `NobodyWaitsForever` by a step: `GoesOn` gives each variable one next
  value, and for a request that is not blocked that is a step of `Proceeds`.

The steps that a variable depends on are collected once, in the frame lemmas of
`TaskExecutionProofs` (`WorkerFrame`, `CancelFrame`, `BrokerFrame`, `TaskWriters`,
`FileWriters`); the other proofs cite them instead of going through `Next`.

All inductive invariants were first checked with TLC, those of `TaskExecution` and
`DispatchOutbox` on instances with more faults than the runs have.

Only model-checked: `PublishedSettles` and `EveryRowDispatched`, which are liveness
under fairness, and `NobodyWaitsForever` as it stands, which speaks of `ENABLED`;
none of them is within reach of TLAPS here. What is proved of their arguments is
listed above. What is left to TLC is to put them together: that a process which can
go on does, and that operators ask for a reconcile. The properties of the runs that expect a
violation have no theorem, but for `TerminalIsFinal`, which one actor keeps.

## 5. What is left

* Three hazards of `PROJECT.json` have no property: the session of a cancelled
  task taken from the record read first, progress written over an end, and the
  poller that does not know `partial`.
* The heartbeats and the counts of the operations summary, each a read of its
  own.

Not modelled, and why:

* The agents and skills: text in, text out. `RunAgent` has the three ways they
  can end.
* The evaluation harness (`src/evaluation/`, `scripts/evaluate_*`): offline
  scoring of a dataset, sequential, without state.
* Settings, logging, observability: configuration and export. Limits are
  constants of the models.
* The MCP server: an adapter that describes tools and keeps no state.
* The pure functions: the router's choice, the delay of a retry and the texts the
  validator refuses are looked up or computed from their arguments alone, and
  the properties depend only on whether they refuse.
* The plain listings of tasks, sessions, batches and events: one read each.

## 6. Running it

    tlc -workers 2 -config race.cfg MCTaskRace
    tlapm TaskLifecycleProofs.tla

`race`, `batch_cancel`, `outbox`, `submission` and `operations` take one to
four minutes each, the others a few seconds; so do the proof modules.
