--------------------------- MODULE OperationsViews ---------------------------
(***************************************************************************)
(* What is read while workers, cancellations and dispatches go on: a batch *)
(* with its derived status (BatchService and its queries, polled by        *)
(* scripts/validate_batch_capacity.py), the summary of OperationsService   *)
(* and the /metrics payload with its cache.  A view is several SELECTs and *)
(* each sees the database of its own moment.                               *)
(*                                                                         *)
(* Readers write nothing but the cache, which only /metrics looks at, so a *)
(* behaviour has one reader, of one kind.  The views are asked for with no *)
(* minimal age and a limit no smaller than the number of tasks.            *)
(***************************************************************************)
EXTENDS Lifecycle, Integers, FiniteSets

CONSTANTS
    Tasks,        \* the tasks of a batch
    Ttl,          \* METRICS_CACHE_TTL_SECONDS
    MaxTime,      \* bound: the last value of the clock
    MaxPolls,     \* timeout_seconds over poll_interval_seconds
    MaxStale,     \* bound: writes over a status that was checked before
    MaxFaults     \* bound: dispatches that fail after they were marked

ASSUME ViewsAssumption ==
    /\ IsFiniteSet(Tasks) /\ Tasks # {}
    /\ {Ttl, MaxTime, MaxPolls, MaxStale, MaxFaults} \subseteq Nat

VARIABLES
    task,       \* tasks.status
    row,        \* task_dispatches.status
    clock,      \* monotonic()
    reader,     \* the view being built
    cache,      \* _metrics_payload_cache: its payload and expires_at
    stale, faults

vars == <<task, row, clock, reader, cache, stale, faults>>
database == <<task, row, stale, faults>>

RowStatus == {"pending", "dispatching", "dispatched", "failed"}
BatchStatuses == Status \cup {"partial"}

\* The gauges of a payload: what was pending and what was waiting, and when
\* the first of them was read.
Payload == [pending : SUBSET Tasks, waiting : SUBSET Tasks, read : Nat]

ReaderState ==
    [kind    : {"batch", "summary", "metrics"},
     pc      : {"idle", "status", "tasks", "decide", "details", "pending", "waiting",
                "store", "done"},
     status  : BatchStatuses,              \* of the batch, from its first SELECT
     list    : [Tasks -> Status],          \* its tasks, from the second, then
                                           \* from a GET /tasks/{id} of each
     polls   : Nat,
     pending : SUBSET Tasks,
     waiting : SUBSET Tasks,
     started : Nat,                        \* now of get_or_build
     read    : Nat]                        \* when the first gauge was read

AllQueued == [t \in Tasks |-> "queued"]

Idle(kind) ==
    [kind |-> kind, pc |-> "idle", status |-> "queued", list |-> AllQueued, polls |-> 0,
     pending |-> {}, waiting |-> {}, started |-> 0, read |-> 0]

NoPayload == [pending |-> {}, waiting |-> {}, read |-> 0]

Init ==
    /\ task = AllQueued
    /\ row = [t \in Tasks |-> "pending"]
    /\ clock = 0
    /\ reader \in {Idle(kind) : kind \in {"batch", "summary", "metrics"}}
    /\ cache = [payload |-> NoPayload, expires_at |-> 0]
    /\ stale = 0 /\ faults = 0

-----------------------------------------------------------------------------
(* The queries.                                                            *)

Count(f, s) == Cardinality({t \in Tasks : f[t] = s})
total_tasks == Cardinality(Tasks)

\* Mutant: queued tasks do not keep a batch from its end.
StatusIgnoringQueued(f) ==
    CASE Count(f, "cancelled") = total_tasks -> "cancelled"
      [] Count(f, "completed") = total_tasks -> "completed"
      [] Count(f, "failed") = total_tasks -> "failed"
      [] Count(f, "queued") = total_tasks -> "queued"
      [] Count(f, "running") > 0 -> "running"
      [] OTHER -> "partial"

\* Mutant: a batch is queued as long as it has a queued task and none runs.
StatusQueuedAgain(f) ==
    CASE Count(f, "cancelled") = total_tasks -> "cancelled"
      [] Count(f, "completed") = total_tasks -> "completed"
      [] Count(f, "failed") = total_tasks -> "failed"
      [] Count(f, "running") > 0 -> "running"
      [] Count(f, "queued") > 0 /\ Count(f, "running") = 0 -> "queued"
      [] OTHER -> "partial"

\* The CASE of get_batch_summary, the same in every query that has it; its
\* branches are tried in order.
BatchStatus(f) ==
    IF Count(f, "cancelled") = total_tasks THEN "cancelled"
    ELSE IF Count(f, "completed") = total_tasks THEN "completed"
    ELSE IF Count(f, "failed") = total_tasks THEN "failed"
    ELSE IF Count(f, "queued") = total_tasks THEN "queued"
    ELSE IF Count(f, "running") > 0 \/ Count(f, "queued") > 0 THEN "running"
    ELSE "partial"

\* list_open_batch_summaries.
IsOpen(f) == BatchStatus(f) \in {"queued", "running", "partial"}

\* Mutant: the later SELECT of each view is the first.
SelectsSwapped(kind) ==
    IF kind = "batch" THEN <<"tasks", "status">> ELSE <<"waiting", "pending">>

\* The SELECTs of a view, in their order; a summary and a payload have more
\* of them, on which nothing here depends.
Selects(kind) ==
    IF kind = "batch" THEN <<"status", "tasks">> ELSE <<"pending", "waiting">>

After(s) ==
    IF s = Selects(reader.kind)[1] THEN Selects(reader.kind)[2]
    ELSE CASE reader.kind = "batch"   -> "decide"
           [] reader.kind = "summary" -> "done"
           [] reader.kind = "metrics" -> "store"

\* list_pending_dispatches and count_pending_dispatches, whatever became of
\* the task.
Pending == {t \in Tasks : row[t] \in {"pending", "failed", "dispatching"}}

\* list_dispatched_but_queued_tasks and its count.
Waiting == {t \in Tasks : task[t] = "queued" /\ row[t] = "dispatched"}

-----------------------------------------------------------------------------
(* What goes on meanwhile; TaskExecution and DispatchOutbox have its steps. *)

\* A worker runs and ends a task, or somebody cancels it.  The message is
\* sent before the row says so, and may have been sent when it says failed.
MoveTask(t) ==
    /\ \E s \in TASK_TRANSITIONS[task[t]] :
        /\ s = "running" => row[t] # "pending"
        /\ task' = [task EXCEPT ![t] = s]
    /\ UNCHANGED <<row, clock, reader, cache, stale, faults>>

\* The status is written that a check allowed which has read an older one.
OverwriteTask(t) ==
    /\ stale < MaxStale
    /\ stale' = stale + 1
    /\ task[t] \in Terminal
    /\ \E s \in Status \ {"queued"} : task' = [task EXCEPT ![t] = s]
    /\ UNCHANGED <<row, clock, reader, cache, faults>>

DispatchRow(t) ==
    /\ \/ row[t] \in {"pending", "failed"} /\ row' = [row EXCEPT ![t] = "dispatching"]
       \/ /\ row[t] = "dispatching"
          /\ \E s \in {"dispatched", "failed"} : row' = [row EXCEPT ![t] = s]
    /\ UNCHANGED <<task, clock, reader, cache, stale, faults>>

\* The event of a dispatch cannot be written, and the row is marked failed.
UndoDispatch(t) ==
    /\ row[t] = "dispatched"
    /\ faults < MaxFaults
    /\ faults' = faults + 1
    /\ row' = [row EXCEPT ![t] = "failed"]
    /\ UNCHANGED <<task, clock, reader, cache, stale>>

\* Only the cache looks at the time.
Tick ==
    /\ reader.kind = "metrics" /\ clock < MaxTime
    /\ clock' = clock + 1
    /\ UNCHANGED <<database, reader, cache>>

-----------------------------------------------------------------------------
(* GET /batches/{id} and the script that polls it.                         *)

\* A request for a batch, or for a summary.
Ask ==
    /\ reader.kind # "metrics" /\ reader.pc \in {"idle", "done"}
    /\ reader' = [Idle(reader.kind) EXCEPT !.pc = Selects(reader.kind)[1]]
    /\ UNCHANGED <<database, clock, cache>>

\* get_batch_summary.
ReadStatus ==
    /\ reader.pc = "status"
    /\ reader' = [reader EXCEPT !.status = BatchStatus(task), !.pc = After("status")]
    /\ UNCHANGED <<database, clock, cache>>

\* list_batch_task_views.
ReadTasks ==
    /\ reader.pc = "tasks"
    /\ reader' = [reader EXCEPT !.list = task, !.pc = After("tasks")]
    /\ UNCHANGED <<database, clock, cache>>

\* Mutant: the time is looked at after another poll.
DecideLate ==
    /\ reader.pc = "decide"
    /\ reader' =
        IF reader.status \in Terminal THEN [reader EXCEPT !.pc = "details"]
        ELSE IF reader.polls > MaxPolls THEN [reader EXCEPT !.pc = "done"]
        ELSE [reader EXCEPT !.polls = @ + 1, !.pc = Selects("batch")[1]]
    /\ UNCHANGED <<database, clock, cache>>

\* _poll_batch: it looks for three of the ends and not for "partial".
Decide ==
    /\ reader.pc = "decide"
    /\ reader' =
        IF reader.status \in Terminal THEN [reader EXCEPT !.pc = "details"]
        ELSE IF reader.polls >= MaxPolls THEN [reader EXCEPT !.pc = "done"]
        ELSE [reader EXCEPT !.polls = @ + 1, !.pc = Selects("batch")[1]]
    /\ UNCHANGED <<database, clock, cache>>

\* run_scenario loads the tasks for its report, one by one; of a batch that
\* has ended they may be read at once.
ReadDetails ==
    /\ reader.pc = "details"
    /\ reader' = [reader EXCEPT !.list = task, !.pc = "done"]
    /\ UNCHANGED <<database, clock, cache>>

-----------------------------------------------------------------------------
(* GET /operations/summary and /metrics.                                   *)

ReadPending ==
    /\ reader.pc = "pending"
    /\ reader' = [reader EXCEPT !.pending = Pending, !.read = clock, !.pc = After("pending")]
    /\ UNCHANGED <<database, clock, cache>>

ReadWaiting ==
    /\ reader.pc = "waiting"
    /\ reader' = [reader EXCEPT !.waiting = Waiting, !.pc = After("waiting")]
    /\ UNCHANGED <<database, clock, cache>>

\* get_or_build, up to the lock: the cached payload or a new one.  The API
\* process has one thread, nothing else holds the lock.
Scrape ==
    /\ reader.kind = "metrics" /\ reader.pc \in {"idle", "done"}
    /\ reader' =
        IF clock < cache.expires_at
        THEN [Idle("metrics") EXCEPT !.pc = "done", !.started = clock,
                                     !.pending = cache.payload.pending,
                                     !.waiting = cache.payload.waiting,
                                     !.read = cache.payload.read]
        ELSE [Idle("metrics") EXCEPT !.pc = Selects("metrics")[1], !.started = clock]
    /\ UNCHANGED <<database, clock, cache>>

Lifetime == IF Ttl > 1 THEN Ttl ELSE 1

Built == [pending |-> reader.pending, waiting |-> reader.waiting, read |-> reader.read]

\* Mutant: the payload lives from the end of its build.
StoreFromEnd ==
    /\ reader.pc = "store"
    /\ reader' = [reader EXCEPT !.pc = "done"]
    /\ cache' = [payload |-> Built, expires_at |-> clock + Lifetime]
    /\ UNCHANGED <<database, clock>>

\* The payload is kept; it lives from the time read before its build.
Store ==
    /\ reader.pc = "store"
    /\ reader' = [reader EXCEPT !.pc = "done"]
    /\ cache' = [payload |-> Built, expires_at |-> reader.started + Lifetime]
    /\ UNCHANGED <<database, clock>>

-----------------------------------------------------------------------------
Reads ==
    \/ Ask \/ ReadStatus \/ ReadTasks \/ Decide \/ ReadDetails
    \/ ReadPending \/ ReadWaiting \/ Scrape \/ Store

Next ==
    \/ \E t \in Tasks : MoveTask(t) \/ OverwriteTask(t) \/ DispatchRow(t) \/ UndoDispatch(t)
    \/ Tick
    \/ Reads

Spec == Init /\ [][Next]_vars

-----------------------------------------------------------------------------
(* Properties.                                                             *)

\* Every variable holds what the code can store in it; a poll ends.
TypeOK ==
    /\ task \in [Tasks -> Status]
    /\ row \in [Tasks -> RowStatus]
    /\ clock \in Nat
    /\ reader \in ReaderState /\ reader.polls <= MaxPolls
    /\ cache \in [payload : Payload, expires_at : Nat]
    /\ stale \in Nat /\ faults \in Nat

\* The order of the branches does what it should for every mix of statuses:
\* a batch with a task that has not ended is queued or running, and one
\* whose tasks all ended alike has their status, else "partial".
DerivedStatus ==
    LET s == BatchStatus(task)
    IN  /\ s \in {"queued", "running"} <=> \E t \in Tasks : task[t] \notin Terminal
        /\ s = "queued" <=> \A t \in Tasks : task[t] = "queued"
        /\ \A e \in Terminal : s = e <=> \A t \in Tasks : task[t] = e
        /\ (\E t \in Tasks : task[t] \notin Terminal) => IsOpen(task)

Rank(s) == IF s = "queued" THEN 0 ELSE IF s = "running" THEN 1 ELSE 2

\* As its tasks move one by one a batch only moves on, and its end is final
\* (as long as no status was written over an end).
StatusForward ==
    [][stale' = 0 =>
        LET s == BatchStatus(task)  n == BatchStatus(task')
        IN  Rank(s) <= Rank(n) /\ (Rank(s) = 2 => n = s)]_vars

\* meets_target of the capacity report.
MeetsTarget == reader.status = "completed" /\ \A t \in Tasks : reader.list[t] = "completed"

\* A batch is read in two SELECTs and its tasks may move in between: an
\* answer that says how the batch ended lists only tasks that ended so, and
\* the report of a poll is of a batch that is as it says.
AnswerNotTorn ==
    stale = 0 /\ reader.kind = "batch" /\ reader.status \in Terminal =>
        /\ reader.pc \in {"decide", "details", "done"} =>
               \A t \in Tasks : reader.list[t] = reader.status
        /\ reader.pc = "done" =>
               (MeetsTarget <=> \A t \in Tasks : task[t] = "completed")

\* A task that still waits when a summary or a payload is done is in one of
\* its two lists, though its dispatch moves from the one to the other between
\* the SELECTs (it moves back only when a dispatch fails after it was made).
QueuedNotOverlooked ==
    reader.kind \in {"summary", "metrics"} /\ reader.pc = "done" /\ faults = 0 =>
        \A t \in Tasks :
            task[t] = "queued" => t \in reader.pending \cup reader.waiting

\* A scrape shows nothing that was read as long as the lifetime of a payload
\* before it came, however long the build took.
ScrapeFresh ==
    reader.kind = "metrics" /\ reader.pc = "done" => reader.started < reader.read + Lifetime

=============================================================================
