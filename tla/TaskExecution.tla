---------------------------- MODULE TaskExecution ----------------------------
(***************************************************************************)
(* The execution of submitted tasks: Celery workers running                *)
(* process_document_task and OrchestratorService.execute, API processes    *)
(* running CancellationService, the rows of tasks and sessions they share  *)
(* in Postgres, the staged input files and the broker's deliveries.        *)
(*                                                                         *)
(* A step is one database statement, one file operation or one broker      *)
(* call: every db.* call outside db.transaction() commits by itself, so    *)
(* another process may run between any two of them.  A status change is    *)
(* two steps, a SELECT with the check of the transition table and then an  *)
(* UPDATE that names the row by id alone.                                  *)
(***************************************************************************)
EXTENDS Lifecycle, Integers

CONSTANTS
    Tasks,            \* submitted tasks; their submission has committed
    Workers,          \* worker processes, each with one delivery at a time
    Cancellers,       \* cancel requests, each in an API process of its own
    NoTask,           \* the task of a process that has none
    Batch,            \* the tasks that were submitted as one batch
    Routable,         \* the tasks whose agent the registry knows
    Outcomes,         \* what load_staged_input and agent.run may end in
    MaxRetries,       \* settings.max_retries_for_task_type
    MaxPublishes,     \* bound: messages the outbox publishes for a task
    MaxFaults,        \* bound: calls that raise, and cancel requests lost
    MaxDisruptions    \* bound: worker crashes and redeliveries

ASSUME ConstantsAssumption ==
    /\ NoTask \notin Tasks
    /\ Batch \subseteq Tasks
    /\ Routable \subseteq Tasks
    /\ Outcomes \subseteq {"ok", "error", "transient"}
    /\ {MaxRetries, MaxPublishes, MaxFaults, MaxDisruptions} \subseteq Nat

VARIABLES
    task,        \* tasks: status, and whether session_id is set
    session,     \* sessions: the status of the task's one session, or "none"
    staged,      \* the tasks whose staged input file exists
    log,         \* task_logs: the event types appended for a task
    queue,       \* broker: how many copies of each message wait
    published,   \* broker: how many messages the outbox sent for a task
    revoked,     \* broker: the tasks a revoke was broadcast for
    worker,      \* what each worker process is doing
    canceller,   \* what each cancel request is doing
    reached,     \* history: the statuses a task has had
    abandoned,   \* history: tasks one of whose deliveries ended by an
                 \* exception out of the failure handling itself
    faults, disruptions   \* how much of the bounds is used

rows == <<task, session>>
broker == <<queue, published, revoked>>
history == <<reached, abandoned>>
bounds == <<faults, disruptions>>
vars == <<rows, staged, log, broker, worker, canceller, history, bounds>>

-----------------------------------------------------------------------------
(* Records.                                                                *)

TaskRow == [status : Status, linked : BOOLEAN]

\* A delivery carries the task and Celery's request.retries.
Message == Tasks \X (0 .. MaxRetries)

\* The stages of a delivery in which a status is changed, each with the
\* status asked for and with the stage that follows.
TaskStage == {"mark_running", "mark_completed", "mark_failed",
              "sync_failed", "final_failed"}
SessionStage == {"s_running", "s_completed", "s_failed",
                 "sync_s_failed", "final_s_failed"}
EventStage == {"ev_started", "ev_completed", "ev_failed", "ev_sync", "ev_final"}
ReadStage == {"check", "load", "snapshot", "session", "create", "attach",
              "agent", "sync_task", "sync_session", "retry", "final_read",
              "cleanup"}
Stage == TaskStage \cup SessionStage \cup EventStage \cup ReadStage

WorkerState ==
    [pc      : Stage \cup {"idle"},
     checked : BOOLEAN,                  \* the transition check has passed
     task    : Tasks \cup {NoTask},
     retries : 0 .. MaxRetries,
     seen    : Status,                   \* task_record["status"] in execute
     linked  : BOOLEAN,                  \* session_id of the last record read
     back    : {"mark_failed", "ev_failed"}]  \* where the sync handler returns

Idle == [pc |-> "idle", checked |-> FALSE, task |-> NoTask, retries |-> 0,
         seen |-> "queued", linked |-> FALSE, back |-> "ev_failed"]

CancelStage == {"pick", "cancel", "s_cancel", "s_recover", "ev_recover",
                "ev_cancelled", "revoke"}

CancellerState ==
    [pc      : CancelStage \cup {"idle", "done", "error"},
     checked : BOOLEAN,
     asked   : SUBSET Tasks,             \* the tasks of the request
     todo    : SUBSET Tasks,             \* those the loop has not reached
     view    : [Tasks -> TaskRow],       \* the records read at the start
     task    : Tasks \cup {NoTask}]

-----------------------------------------------------------------------------
Init ==
    /\ task = [t \in Tasks |-> [status |-> "queued", linked |-> FALSE]]
    /\ session = [t \in Tasks |-> "none"]
    /\ staged = Tasks
    /\ log = [t \in Tasks |-> {}]
    /\ queue = [m \in Message |-> 0]
    /\ published = [t \in Tasks |-> 0]
    /\ revoked = {}
    /\ worker = [w \in Workers |-> Idle]
    /\ canceller = [c \in Cancellers |->
            [pc |-> "idle", checked |-> FALSE, asked |-> {}, todo |-> {},
             view |-> task, task |-> NoTask]]
    /\ reached = [t \in Tasks |-> {"queued"}]
    /\ abandoned = {}
    /\ faults = 0
    /\ disruptions = 0

-----------------------------------------------------------------------------
(* How a delivery moves between stages.                                    *)

Goto(w, pc) == worker' = [worker EXCEPT ![w].pc = pc, ![w].checked = FALSE]

\* Where an exception raised in stage pc is caught: by the try blocks of
\* execute, of _handle_state_sync_error, of mark_terminal_failure and of
\* process_document_task.  "idle": nothing handles it and Celery ends the
\* delivery, without the cleanup.
Handler(pc, back) ==
    CASE pc \in {"check", "load", "snapshot", "session", "create", "attach",
                 "mark_running", "s_running", "ev_started", "ev_failed"} -> "final_read"
      [] pc \in {"agent", "mark_completed", "ev_completed"} -> "mark_failed"
      [] pc \in {"s_completed", "mark_failed", "s_failed"} -> "sync_task"
      [] pc \in {"sync_task", "sync_failed"} -> "sync_session"
      [] pc \in {"sync_session", "sync_s_failed"} -> "ev_sync"
      [] pc = "ev_sync" -> back
      [] pc = "final_s_failed" -> "ev_final"
      [] OTHER -> "idle"

\* An exception in the stage worker w is in.
Raise(w) ==
    LET pc == worker[w].pc
        handler == Handler(pc, worker[w].back)
    IN  IF handler = "idle"
        THEN /\ worker' = [worker EXCEPT ![w] = Idle]
             /\ abandoned' = IF pc = "cleanup" THEN abandoned
                             ELSE abandoned \cup {worker[w].task}
        ELSE /\ worker' = [worker EXCEPT
                    ![w].pc = handler,
                    ![w].checked = FALSE,
                    ![w].back = IF pc = "s_completed" THEN "mark_failed"
                                ELSE IF pc \in {"mark_failed", "s_failed"} THEN "ev_failed"
                                ELSE @]
             /\ UNCHANGED abandoned

Target(pc) ==
    CASE pc \in {"mark_running", "s_running"} -> "running"
      [] pc \in {"mark_completed", "s_completed"} -> "completed"
      [] OTHER -> "failed"

\* The stage after the UPDATE or the INSERT of stage pc.
After(wk) ==
    CASE wk.pc = "mark_running" -> "s_running"
      [] wk.pc = "s_running" -> "ev_started"
      [] wk.pc = "ev_started" -> "agent"
      [] wk.pc = "mark_completed" -> "s_completed"
      [] wk.pc = "s_completed" -> "ev_completed"
      [] wk.pc = "mark_failed" -> "s_failed"
      [] wk.pc = "s_failed" -> "ev_failed"
      [] wk.pc = "ev_failed" -> "final_read"
      [] wk.pc = "sync_failed" -> "sync_session"
      [] wk.pc = "sync_s_failed" -> "ev_sync"
      [] wk.pc = "ev_sync" -> wk.back
      [] wk.pc = "final_failed" -> IF wk.linked THEN "final_s_failed" ELSE "ev_final"
      [] wk.pc = "final_s_failed" -> "ev_final"
      [] wk.pc \in {"ev_completed", "ev_final"} -> "cleanup"

Event(pc) ==
    CASE pc = "ev_started" -> "TASK_STARTED"
      [] pc = "ev_completed" -> "TASK_COMPLETED"
      [] OTHER -> "TASK_FAILED"

-----------------------------------------------------------------------------
(* The broker.                                                             *)

\* The outbox publishes a message for a task (DispatchOutbox says when).
Publish(t) ==
    /\ published[t] < MaxPublishes
    /\ published' = [published EXCEPT ![t] = @ + 1]
    /\ queue' = [queue EXCEPT ![<<t, 0>>] = @ + 1]
    /\ UNCHANGED <<rows, staged, log, revoked, worker, canceller, history, bounds>>

Receive(w) ==
    /\ worker[w].pc = "idle"
    /\ \E m \in Message :
        /\ queue[m] > 0
        /\ queue' = [queue EXCEPT ![m] = @ - 1]
        /\ worker' = [worker EXCEPT ![w] =
                [Idle EXCEPT !.pc = "check", !.task = m[1], !.retries = m[2]]]
    /\ UNCHANGED <<rows, staged, log, published, revoked, canceller, history, bounds>>

\* A worker that has heard of the revoke drops the message.
Discard(m) ==
    /\ queue[m] > 0
    /\ m[1] \in revoked
    /\ queue' = [queue EXCEPT ![m] = @ - 1]
    /\ UNCHANGED <<rows, staged, log, published, revoked, worker, canceller, history, bounds>>

\* revoke(terminate=True) kills the process that runs the task; the message
\* is acknowledged.
Kill(w) ==
    /\ worker[w].task \in revoked
    /\ worker' = [worker EXCEPT ![w] = Idle]
    /\ UNCHANGED <<rows, staged, log, broker, canceller, history, bounds>>

\* A worker process is lost: task_acks_late and task_reject_on_worker_lost
\* put its message back.
Crash(w) ==
    /\ worker[w].pc # "idle"
    /\ disruptions < MaxDisruptions
    /\ disruptions' = disruptions + 1
    /\ queue' = [queue EXCEPT ![<<worker[w].task, worker[w].retries>>] = @ + 1]
    /\ worker' = [worker EXCEPT ![w] = Idle]
    /\ UNCHANGED <<rows, staged, log, published, revoked, canceller, history, faults>>

\* The visibility timeout passes while w still works: Redis hands the
\* message to another worker.
Redeliver(w) ==
    /\ worker[w].pc # "idle"
    /\ disruptions < MaxDisruptions
    /\ disruptions' = disruptions + 1
    /\ queue' = [queue EXCEPT ![<<worker[w].task, worker[w].retries>>] = @ + 1]
    /\ UNCHANGED <<rows, staged, log, published, revoked, worker, canceller, history, faults>>

-----------------------------------------------------------------------------
(* process_document_task up to execute.                                    *)

\* Mutant: except Ignore does not ask for the cleanup.
CheckCancelledKeepsInput(w) ==
    /\ worker[w].pc = "check"
    /\ worker' = [worker EXCEPT ![w] =
            IF task[@.task].status = "cancelled" THEN Idle ELSE [@ EXCEPT !.pc = "load"]]
    /\ UNCHANGED <<rows, staged, log, broker, canceller, history, bounds>>

\* check_cancelled: a cancelled task is Ignored, which ends in the cleanup.
CheckCancelled(w) ==
    /\ worker[w].pc = "check"
    /\ Goto(w, IF task[worker[w].task].status = "cancelled" THEN "cleanup" ELSE "load")
    /\ UNCHANGED <<rows, staged, log, broker, canceller, history, bounds>>

\* load_staged_input: a missing file is a ValidationError, a timeout of the
\* file system is retryable.
LoadInput(w) ==
    /\ worker[w].pc = "load"
    /\ \/ /\ worker[w].task \in staged
          /\ Goto(w, "snapshot")
          /\ UNCHANGED abandoned
       \/ /\ worker[w].task \in staged
          /\ "transient" \in Outcomes
          /\ Goto(w, "retry")
          /\ UNCHANGED abandoned
       \/ /\ worker[w].task \notin staged
          /\ Raise(w)
    /\ UNCHANGED <<rows, staged, log, broker, canceller, reached, bounds>>

-----------------------------------------------------------------------------
(* OrchestratorService.execute.                                            *)

\* Mutant: no early return on a terminal task.
TakeSnapshotAnyStatus(w) ==
    /\ worker[w].pc = "snapshot"
    /\ worker' = [worker EXCEPT
            ![w].seen = task[worker[w].task].status,
            ![w].linked = task[worker[w].task].linked,
            ![w].pc = IF worker[w].task \notin Routable THEN "final_read" ELSE "session"]
    /\ UNCHANGED <<rows, staged, log, broker, canceller, history, bounds>>

\* get_task, the early return on a terminal task, and the routing.
TakeSnapshot(w) ==
    LET row == task[worker[w].task]
    IN  /\ worker[w].pc = "snapshot"
        /\ worker' = [worker EXCEPT
                ![w].seen = row.status,
                ![w].linked = row.linked,
                ![w].pc = IF row.status \in Terminal THEN "cleanup"
                          ELSE IF worker[w].task \notin Routable THEN "final_read"
                          ELSE "session"]
        /\ UNCHANGED <<rows, staged, log, broker, canceller, history, bounds>>

\* Mutant: a task without a session is started first, its session made later.
LoadSessionLazily(w) ==
    /\ worker[w].pc = "session"
    /\ Goto(w, IF session[worker[w].task] = "none" THEN "mark_running"
               ELSE IF worker[w].linked THEN "final_read" ELSE "attach")
    /\ UNCHANGED <<rows, staged, log, broker, canceller, history, bounds>>

\* create_or_load_session, its SELECT by task.  The hint is the session_id of
\* the snapshot turned into text; the row, read by psycopg 3, holds a
\* uuid.UUID, which no text is equal to.  So a delivery that finds the task
\* already attached to a session has that session rejected.
LoadSession(w) ==
    LET wk == worker[w]
    IN  /\ wk.pc = "session"
        /\ Goto(w, IF session[wk.task] = "none" THEN "create"
                   ELSE IF wk.linked THEN "final_read" ELSE "attach")
        /\ UNCHANGED <<rows, staged, log, broker, canceller, history, bounds>>

\* The INSERT; sessions.task_id is unique, and the loser of a race loads the
\* winner's row.
CreateSession(w) ==
    /\ worker[w].pc = "create"
    /\ session' = [session EXCEPT ![worker[w].task] = IF @ = "none" THEN "queued" ELSE @]
    /\ Goto(w, "attach")
    /\ UNCHANGED <<task, staged, log, broker, canceller, history, bounds>>

\* attach_execution_context; then a task that was queued is started, any
\* other goes straight to the agent.
Attach(w) ==
    /\ worker[w].pc = "attach"
    /\ task' = [task EXCEPT ![worker[w].task].linked = TRUE]
    /\ Goto(w, IF worker[w].seen = "queued" THEN "mark_running" ELSE "agent")
    /\ UNCHANGED <<session, staged, log, broker, canceller, history, bounds>>

\* Mutant: the session is completed before its task.
RunAgentSessionFirst(w) ==
    /\ worker[w].pc = "agent"
    /\ \/ "ok" \in Outcomes /\ Goto(w, "s_completed")
       \/ "error" \in Outcomes /\ Goto(w, "mark_failed")
       \/ "transient" \in Outcomes /\ Goto(w, "retry")
    /\ UNCHANGED <<rows, staged, log, broker, canceller, history, bounds>>

\* agent.run, its progress updates included: it returns, raises, or raises a
\* retryable exception.
RunAgent(w) ==
    /\ worker[w].pc = "agent"
    /\ \/ "ok" \in Outcomes /\ Goto(w, "mark_completed")
       \/ "error" \in Outcomes /\ Goto(w, "mark_failed")
       \/ "transient" \in Outcomes /\ Goto(w, "retry")
    /\ UNCHANGED <<rows, staged, log, broker, canceller, history, bounds>>

-----------------------------------------------------------------------------
(* Status changes and events, of every stage that has one.                 *)

\* Mutant: no check of the transition table.
EnsureTaskUnchecked(w) ==
    /\ worker[w].pc \in TaskStage /\ ~worker[w].checked
    /\ worker' = [worker EXCEPT ![w].checked = TRUE]
    /\ UNCHANGED <<rows, staged, log, broker, canceller, history, bounds>>

\* The SELECT of mark_running, mark_completed or mark_failed and the check.
EnsureTask(w) ==
    LET wk == worker[w]
    IN  /\ wk.pc \in TaskStage /\ ~wk.checked
        /\ IF CanMove(task[wk.task].status, Target(wk.pc))
           THEN /\ worker' = [worker EXCEPT ![w].checked = TRUE]
                /\ UNCHANGED abandoned
           ELSE Raise(w)
        /\ UNCHANGED <<rows, staged, log, broker, canceller, reached, bounds>>

\* Its UPDATE, of the row with that id whatever it holds now; the one of
\* mark_running sets the session_id as well.
WriteTask(w) ==
    LET wk == worker[w]
    IN  /\ wk.pc \in TaskStage /\ wk.checked
        /\ task' = [task EXCEPT ![wk.task] =
                [status |-> Target(wk.pc),
                 linked |-> @.linked \/ wk.pc = "mark_running"]]
        /\ reached' = [reached EXCEPT ![wk.task] = @ \cup {Target(wk.pc)}]
        /\ Goto(w, After(wk))
        /\ UNCHANGED <<session, staged, log, broker, canceller, abandoned, bounds>>

\* Mutant: no check of the transition table.
EnsureSessionUnchecked(w) ==
    /\ worker[w].pc \in SessionStage /\ ~worker[w].checked
    /\ worker' = [worker EXCEPT ![w].checked = TRUE]
    /\ UNCHANGED <<rows, staged, log, broker, canceller, history, bounds>>

\* The same of SessionManager.update_session.
EnsureSession(w) ==
    LET wk == worker[w]
    IN  /\ wk.pc \in SessionStage /\ ~wk.checked
        /\ IF CanMove(session[wk.task], Target(wk.pc))
           THEN /\ worker' = [worker EXCEPT ![w].checked = TRUE]
                /\ UNCHANGED abandoned
           ELSE Raise(w)
        /\ UNCHANGED <<rows, staged, log, broker, canceller, reached, bounds>>

WriteSession(w) ==
    LET wk == worker[w]
    IN  /\ wk.pc \in SessionStage /\ wk.checked
        /\ session' = [session EXCEPT ![wk.task] = Target(wk.pc)]
        /\ Goto(w, After(wk))
        /\ UNCHANGED <<task, staged, log, broker, canceller, history, bounds>>

AppendEvent(w) ==
    LET wk == worker[w]
    IN  /\ wk.pc \in EventStage
        /\ log' = [log EXCEPT ![wk.task] = @ \cup {Event(wk.pc)}]
        /\ Goto(w, After(wk))
        /\ UNCHANGED <<rows, staged, broker, canceller, history, bounds>>

-----------------------------------------------------------------------------
(* The failure paths.                                                      *)

\* _handle_state_sync_error reads both rows and fails the one that is not
\* terminal yet.
SyncTask(w) ==
    /\ worker[w].pc = "sync_task"
    /\ Goto(w, IF task[worker[w].task].status \in Terminal
               THEN "sync_session" ELSE "sync_failed")
    /\ UNCHANGED <<rows, staged, log, broker, canceller, history, bounds>>

SyncSession(w) ==
    /\ worker[w].pc = "sync_session"
    /\ Goto(w, IF session[worker[w].task] \in Terminal
               THEN "ev_sync" ELSE "sync_s_failed")
    /\ UNCHANGED <<rows, staged, log, broker, canceller, history, bounds>>

\* Mutant: the event is written, nothing is published, the file is cleaned up.
ScheduleRetryForgotten(w) ==
    LET wk == worker[w]
    IN  /\ wk.pc = "retry"
        /\ IF wk.retries + 1 > MaxRetries
           THEN Goto(w, "final_read") /\ UNCHANGED log
           ELSE /\ log' = [log EXCEPT ![wk.task] = @ \cup {"TASK_RETRY_SCHEDULED"}]
                /\ Goto(w, "cleanup")
        /\ UNCHANGED <<rows, staged, broker, canceller, history, bounds>>

\* schedule_retry: with retries left, the event and a new message (nothing
\* reads that event, so both are one step); without, mark_terminal_failure.
ScheduleRetry(w) ==
    LET wk == worker[w]
    IN  /\ wk.pc = "retry"
        /\ IF wk.retries + 1 > MaxRetries
           THEN Goto(w, "final_read") /\ UNCHANGED <<queue, log>>
           ELSE /\ log' = [log EXCEPT ![wk.task] = @ \cup {"TASK_RETRY_SCHEDULED"}]
                /\ queue' = [queue EXCEPT ![<<wk.task, wk.retries + 1>>] = @ + 1]
                /\ worker' = [worker EXCEPT ![w] = Idle]
        /\ UNCHANGED <<rows, staged, published, revoked, canceller, history, bounds>>

\* Mutant: the session_id of the record is not taken.
FinalReadNoSession(w) ==
    /\ worker[w].pc = "final_read"
    /\ worker' = [worker EXCEPT
            ![w].linked = FALSE,
            ![w].pc = IF task[worker[w].task].status \in Terminal
                      THEN "cleanup" ELSE "final_failed"]
    /\ UNCHANGED <<rows, staged, log, broker, canceller, history, bounds>>

\* mark_terminal_failure: nothing to do on a terminal task.
FinalRead(w) ==
    LET row == task[worker[w].task]
    IN  /\ worker[w].pc = "final_read"
        /\ worker' = [worker EXCEPT
                ![w].linked = row.linked,
                ![w].checked = FALSE,
                ![w].pc = IF row.status \in Terminal THEN "cleanup" ELSE "final_failed"]
        /\ UNCHANGED <<rows, staged, log, broker, canceller, history, bounds>>

\* Mutant: the worker forgets its task and not its stage.
CleanupHalfReset(w) ==
    /\ worker[w].pc = "cleanup"
    /\ staged' = staged \ {worker[w].task}
    /\ worker' = [worker EXCEPT ![w].task = NoTask]
    /\ UNCHANGED <<rows, log, broker, canceller, history, bounds>>

\* The finally block: the file goes, the delivery ends, the message is
\* acknowledged.
Cleanup(w) ==
    /\ worker[w].pc = "cleanup"
    /\ staged' = staged \ {worker[w].task}
    /\ worker' = [worker EXCEPT ![w] = Idle]
    /\ UNCHANGED <<rows, log, broker, canceller, history, bounds>>

\* A database, file or broker call of w raises an exception that is not
\* retryable (psycopg's are not).  agent.run raises by itself (Outcomes).
Fault(w) ==
    /\ worker[w].pc \notin {"idle", "agent"}
    /\ worker[w].pc = "retry" => worker[w].retries < MaxRetries
    /\ faults < MaxFaults
    /\ faults' = faults + 1
    /\ Raise(w)
    /\ UNCHANGED <<rows, staged, log, broker, canceller, reached, disruptions>>

-----------------------------------------------------------------------------
(* CancellationService.                                                    *)

Step(c, pc) == canceller' = [canceller EXCEPT ![c].pc = pc, ![c].checked = FALSE]

\* cancel_task: the prechecks, then one record to cancel.
CancelTask(c) ==
    /\ canceller[c].pc = "idle"
    /\ \E t \in Tasks :
        canceller' = [canceller EXCEPT
            ![c].asked = {t},
            ![c].view = task,
            ![c].task = t,
            ![c].pc = CASE task[t].status = "cancelled" -> "done"
                        [] task[t].status \in {"completed", "failed"} -> "error"
                        [] OTHER -> "cancel"]
    /\ UNCHANGED <<rows, staged, log, broker, worker, history, bounds>>

\* cancel_batch: one SELECT of all its tasks, then a loop over the records.
CancelBatch(c) ==
    /\ canceller[c].pc = "idle"
    /\ Batch # {}
    /\ canceller' = [canceller EXCEPT
            ![c].asked = Batch, ![c].todo = Batch, ![c].view = task, ![c].pc = "pick"]
    /\ UNCHANGED <<rows, staged, log, broker, worker, history, bounds>>

\* Mutant: running tasks are skipped too.
PickQueuedOnly(c) ==
    LET cl == canceller[c]
    IN  /\ cl.pc = "pick"
        /\ \/ /\ cl.todo = {}
              /\ Step(c, "done")
           \/ \E t \in cl.todo :
                canceller' = [canceller EXCEPT
                    ![c].todo = @ \ {t},
                    ![c].task = t,
                    ![c].pc = IF cl.view[t].status # "queued" THEN "pick" ELSE "cancel"]
        /\ UNCHANGED <<rows, staged, log, broker, worker, history, bounds>>

\* The head of the loop; a record that was terminal when read is skipped.
\* The order of the records is left open.
Pick(c) ==
    LET cl == canceller[c]
    IN  /\ cl.pc = "pick"
        /\ \/ /\ cl.todo = {}
              /\ Step(c, "done")
           \/ \E t \in cl.todo :
                canceller' = [canceller EXCEPT
                    ![c].todo = @ \ {t},
                    ![c].task = t,
                    ![c].pc = IF cl.view[t].status \in Terminal THEN "pick" ELSE "cancel"]
        /\ UNCHANGED <<rows, staged, log, broker, worker, history, bounds>>

\* An exception in the stage request c is in: a session that cannot be
\* cancelled is failed instead, everything else ends the request.
CancelHandler(pc) ==
    CASE pc = "s_cancel" -> "s_recover"
      [] pc = "s_recover" -> "ev_recover"
      [] OTHER -> "error"

\* The record the request holds: its session is touched if the record, as
\* read at the start, named one.
CancelWithSession(cl) == cl.view[cl.task].linked

\* Mutant: an illegal transition is passed over in silence.
EnsureCancelledSwallowed(c) ==
    LET cl == canceller[c]
    IN  /\ cl.pc = "cancel" /\ ~cl.checked
        /\ IF CanMove(task[cl.task].status, "cancelled")
           THEN canceller' = [canceller EXCEPT ![c].checked = TRUE]
           ELSE Step(c, "ev_cancelled")
        /\ UNCHANGED <<rows, staged, log, broker, worker, history, bounds>>

EnsureCancelled(c) ==
    LET cl == canceller[c]
    IN  /\ cl.pc = "cancel" /\ ~cl.checked
        /\ IF CanMove(task[cl.task].status, "cancelled")
           THEN canceller' = [canceller EXCEPT ![c].checked = TRUE]
           ELSE Step(c, CancelHandler(cl.pc))
        /\ UNCHANGED <<rows, staged, log, broker, worker, history, bounds>>

WriteCancelled(c) ==
    LET cl == canceller[c]
    IN  /\ cl.pc = "cancel" /\ cl.checked
        /\ task' = [task EXCEPT ![cl.task].status = "cancelled"]
        /\ reached' = [reached EXCEPT ![cl.task] = @ \cup {"cancelled"}]
        /\ Step(c, IF CancelWithSession(cl) THEN "s_cancel" ELSE "ev_cancelled")
        /\ UNCHANGED <<session, staged, log, broker, worker, abandoned, bounds>>

SessionTarget(pc) == IF pc = "s_cancel" THEN "cancelled" ELSE "failed"

EnsureCancelSession(c) ==
    LET cl == canceller[c]
    IN  /\ cl.pc \in {"s_cancel", "s_recover"} /\ ~cl.checked
        /\ IF CanMove(session[cl.task], SessionTarget(cl.pc))
           THEN canceller' = [canceller EXCEPT ![c].checked = TRUE]
           ELSE Step(c, CancelHandler(cl.pc))
        /\ UNCHANGED <<rows, staged, log, broker, worker, history, bounds>>

WriteCancelSession(c) ==
    LET cl == canceller[c]
    IN  /\ cl.pc \in {"s_cancel", "s_recover"} /\ cl.checked
        /\ session' = [session EXCEPT ![cl.task] = SessionTarget(cl.pc)]
        /\ Step(c, IF cl.pc = "s_cancel" THEN "ev_cancelled" ELSE "ev_recover")
        /\ UNCHANGED <<task, staged, log, broker, worker, history, bounds>>

\* TASK_CANCELLED, or TASK_FAILED and the exception is raised again.
AppendCancelEvent(c) ==
    LET cl == canceller[c]
    IN  /\ cl.pc \in {"ev_cancelled", "ev_recover"}
        /\ log' = [log EXCEPT ![cl.task] = @ \cup
                {IF cl.pc = "ev_cancelled" THEN "TASK_CANCELLED" ELSE "TASK_FAILED"}]
        /\ Step(c, IF cl.pc = "ev_cancelled" THEN "revoke" ELSE "error")
        /\ UNCHANGED <<rows, staged, broker, worker, history, bounds>>

Revoke(c) ==
    /\ canceller[c].pc = "revoke"
    /\ revoked' = revoked \cup {canceller[c].task}
    /\ Step(c, "pick")
    /\ UNCHANGED <<rows, staged, log, queue, published, worker, history, bounds>>

\* A call of the request raises, or its API process is lost.
CancelFault(c) ==
    /\ canceller[c].pc \in CancelStage
    /\ faults < MaxFaults
    /\ faults' = faults + 1
    /\ \E pc \in {CancelHandler(canceller[c].pc), "error"} : Step(c, pc)
    /\ UNCHANGED <<rows, staged, log, broker, worker, history, disruptions>>

-----------------------------------------------------------------------------
\* What a worker does by itself; it goes on until it is idle and there is
\* nothing to receive.
WorkerStep(w) ==
    \/ Receive(w) \/ CheckCancelled(w) \/ LoadInput(w) \/ TakeSnapshot(w)
    \/ LoadSession(w) \/ CreateSession(w) \/ Attach(w) \/ RunAgent(w)
    \/ EnsureTask(w) \/ WriteTask(w) \/ EnsureSession(w) \/ WriteSession(w)
    \/ AppendEvent(w) \/ SyncTask(w) \/ SyncSession(w)
    \/ ScheduleRetry(w) \/ FinalRead(w) \/ Cleanup(w)

CancelStep(c) ==
    \/ CancelTask(c) \/ CancelBatch(c) \/ Pick(c)
    \/ EnsureCancelled(c) \/ WriteCancelled(c)
    \/ EnsureCancelSession(c) \/ WriteCancelSession(c)
    \/ AppendCancelEvent(c) \/ Revoke(c)

Next ==
    \/ \E t \in Tasks : Publish(t)
    \/ \E m \in Message : Discard(m)
    \/ \E w \in Workers : WorkerStep(w) \/ Fault(w) \/ Crash(w) \/ Redeliver(w) \/ Kill(w)
    \/ \E c \in Cancellers : CancelStep(c) \/ CancelFault(c)

Spec == Init /\ [][Next]_vars

\* Worker processes keep running their loop, and agent.run returns.
Fairness == \A w \in Workers : WF_vars(WorkerStep(w))

FairSpec == Spec /\ Fairness

-----------------------------------------------------------------------------
(* Properties.                                                             *)

RowsOK ==
    /\ task \in [Tasks -> TaskRow]
    /\ session \in [Tasks -> Status \cup {"none"}]
    /\ staged \in SUBSET Tasks
    /\ log \in [Tasks -> SUBSET {"TASK_STARTED", "TASK_COMPLETED", "TASK_FAILED",
                                 "TASK_CANCELLED", "TASK_RETRY_SCHEDULED"}]

BrokerOK ==
    /\ queue \in [Message -> Nat]
    /\ published \in [Tasks -> Nat]
    /\ revoked \in SUBSET Tasks

WorkersOK ==
    /\ worker \in [Workers -> WorkerState]
    /\ \A w \in Workers : worker[w].pc # "idle" => worker[w].task \in Tasks

CancellersOK ==
    /\ canceller \in [Cancellers -> CancellerState]
    /\ \A c \in Cancellers :
            canceller[c].pc \in CancelStage \ {"pick"} => canceller[c].task \in Tasks

HistoryOK ==
    /\ reached \in [Tasks -> SUBSET Status]
    /\ abandoned \in SUBSET Tasks
    /\ faults \in Nat /\ disruptions \in Nat

\* Every variable holds what the code can store in it, and a process that is
\* in a stage of its work has a task.
TypeOK == RowsOK /\ BrokerOK /\ WorkersOK /\ CancellersOK /\ HistoryOK

\* A task that has ever run has its session, and the row names it: whoever
\* finds a task running, completed or failed can load its session, however
\* many workers raced to create it and wherever one of them crashed.
StartedHasSession ==
    \A t \in Tasks :
        task[t].status \in {"running", "completed", "failed"} =>
            task[t].linked /\ session[t] # "none"

\* The input of a task that nobody has started or cancelled is on disk: no
\* delivery, duplicate or failure path deletes it before the task has moved.
QueuedInputStaged ==
    \A t \in Tasks : task[t].status = "queued" => t \in staged

\* The event log never claims a result the task did not have: TASK_COMPLETED
\* and TASK_CANCELLED are appended only for tasks that were completed or
\* cancelled, whatever was overwritten afterwards.
LogTruthful ==
    \A t \in Tasks :
        /\ "TASK_COMPLETED" \in log[t] => "completed" \in reached[t]
        /\ "TASK_CANCELLED" \in log[t] => "cancelled" \in reached[t]

\* The stages from which a delivery still looks at its task's status, or
\* writes it, before it can end normally.
Owing == Stage \ {"s_completed", "ev_completed", "final_s_failed", "ev_final", "cleanup"}

\* Somebody will still act on t: a message waits, or a worker holds one.
Owed(t) ==
    \/ \E n \in 0 .. MaxRetries : queue[<<t, n>>] > 0
    \/ \E w \in Workers : worker[w].task = t /\ worker[w].pc \in Owing

\* A published task that is not settled is never forgotten in silence: its
\* message waits or is being worked on, unless it was revoked or the failure
\* handling of one of its deliveries itself raised.
NoSilentLoss ==
    \A t \in Tasks :
        published[t] > 0 /\ task[t].status \notin Terminal =>
            Owed(t) \/ t \in revoked \/ t \in abandoned

\* As long as no call to the database or the broker fails, a task seen
\* running is being worked on or will be, across races, crashes,
\* redeliveries and retries: deliveries end by an exception only for tasks
\* that are queued or settled.
RunningIsOwed ==
    faults = 0 =>
        \A t \in Tasks : task[t].status = "running" => Owed(t) \/ t \in revoked

\* A session is settled only after its task was: a client that sees the
\* session end finds the task's end in the log of statuses.  (Two failing
\* calls in a row can fail the session first; the state sync handler does
\* not stop when it could not save the task.)
SessionSettlesAfterTask ==
    faults < 2 =>
        \A t \in Tasks : session[t] \in Terminal => reached[t] \cap Terminal # {}

\* A cancel request that answers without an error tells the truth: each of
\* its tasks was cancelled at some point, or was over when the request began.
CancelReportsTruth ==
    \A c \in Cancellers :
        canceller[c].pc = "done" =>
            \A t \in canceller[c].asked :
                \/ "cancelled" \in reached[t]
                \/ canceller[c].view[t].status \in {"completed", "failed"}

\* The steps of deliveries on t have come to rest.
AtRest(t) ==
    /\ \A n \in 0 .. MaxRetries : queue[<<t, n>>] = 0
    /\ \A w \in Workers : worker[w].task # t

\* As long as no call fails, the input of a published task is deleted in the
\* end, by one of its deliveries, however they race with each other and with
\* a cancel request: none of them ends without deleting it, unless a revoke
\* dropped or killed it or its failure handling raised.
NoInputForgotten ==
    faults = 0 =>
        \A t \in staged :
            published[t] > 0 /\ AtRest(t) => t \in revoked \/ t \in abandoned

\* No delivery of t is between its snapshot of the task and its end.
NotStarted(t) ==
    \A w \in Workers :
        worker[w].task = t =>
            worker[w].pc \in {"check", "load", "snapshot", "retry", "final_read", "cleanup"}

QuietlyCancelled(t) == task[t].status = "cancelled" /\ NotStarted(t)

\* A task that is cancelled before a worker has taken its snapshot stays
\* cancelled and is never started, by any later delivery, redelivery or retry.
EarlyCancelHolds ==
    [][\A t \in Tasks : QuietlyCancelled(t) => QuietlyCancelled(t)']_vars

\* When nothing failed and nobody crashed, a task at rest and its session
\* ended alike (checked where no two actors share a task).
PairedAtRest ==
    \A t \in Tasks :
        faults = 0 /\ disruptions = 0 /\ AtRest(t) /\ task[t].status \in Terminal =>
            session[t] = task[t].status

\* With one actor at a time the rows keep the promise of TaskLifecycle,
\* across crashes, redeliveries, retries and failing calls.
TaskRows == INSTANCE TaskLifecycle
    WITH Rows <- Tasks, status <- [t \in Tasks |-> task[t].status]
SessionRows == INSTANCE TaskLifecycle WITH Rows <- Tasks, status <- session

TasksFollowLifecycle == TaskRows!Spec
SessionsFollowLifecycle == SessionRows!Spec

\* However many workers and cancel requests race, the rows keep the promise
\* of the contested lifecycle: a task or a session that is not over moves
\* along the transition table only, one row at a time, even though every
\* write was checked against a status that may be old by then.
TasksFollowContested == TaskRows!ContestedSpec
SessionsFollowContested == SessionRows!ContestedSpec

\* Every published task settles, unless its deliveries were revoked or its
\* failure handling raised.
PublishedSettles ==
    \A t \in Tasks :
        published[t] > 0 ~>
            (task[t].status \in Terminal \/ t \in revoked \/ t \in abandoned)

\* Said by the code and not kept by it.

\* TASK_TRANSITIONS: nothing follows a terminal status.
TerminalIsFinal ==
    [][\A t \in Tasks : task[t].status \in Terminal => task'[t].status = task[t].status]_vars

\* Bounded retry: a delivery fails its task only when its retries are used up.
FailsOnlyAfterLastRetry ==
    \A w \in Workers :
        worker[w].pc = "final_failed" => worker[w].retries = MaxRetries

\* README: the cancel of a batch cancels its queued and running tasks.  A
\* request that ended without a failing call has done so, or they were over.
BatchCancelCovers ==
    faults = 0 =>
        \A c \in Cancellers :
            canceller[c].pc \in {"done", "error"} =>
                \A t \in canceller[c].asked : reached[t] \cap Terminal # {}

\* The worker path ends in completed or failed.
PublishedIsFinalized ==
    \A t \in Tasks : published[t] > 0 ~> task[t].status \in Terminal

=============================================================================
