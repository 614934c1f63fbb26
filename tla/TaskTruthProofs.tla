--------------------------- MODULE TaskTruthProofs ---------------------------
(***************************************************************************)
(* The theorems about TaskExecution that say an answer is true: what the   *)
(* event log claims, what a cancel request reports, and that the end of a  *)
(* session is not announced before the end of its task.                    *)
(***************************************************************************)
EXTENDS TaskExecutionProofs

-----------------------------------------------------------------------------
(* The inductive invariant.                                                *)

Settled(t) == reached[t] \cap Terminal # {}

\* What the stage of a delivery says of the statuses its task has had.  The
\* state sync handler goes on when it could not save the task, which takes a
\* failing call to enter it unsettled and a second one to leave it so.
WorkerTold(w) ==
    LET wk == worker[w]
    IN  /\ wk.pc \in {"s_completed", "ev_completed"} => "completed" \in reached[wk.task]
        /\ wk.pc \in {"s_failed", "final_s_failed"} => Settled(wk.task)
        /\ wk.pc \in {"sync_task", "sync_failed"} => Settled(wk.task) \/ faults >= 1
        /\ wk.pc \in {"sync_session", "sync_s_failed"} => Settled(wk.task) \/ faults >= 2

\* The request c may report t: it was cancelled, or over when c began.
Accounted(c, t) ==
    \/ "cancelled" \in reached[t]
    \/ canceller[c].view[t].status \in {"completed", "failed"}

\* What a cancel request has behind it: the tasks the loop has passed, and
\* the one it is at once that has been written.
CancelTold(c) ==
    LET cl == canceller[c]
    IN  /\ cl.pc \in CancelStage \ {"pick", "cancel"} => "cancelled" \in reached[cl.task]
        /\ \A t \in Tasks : cl.view[t].status \in reached[t]
        /\ cl.pc \in CancelStage =>
               \A t \in cl.asked \ cl.todo : Accounted(c, t) \/ (cl.pc # "pick" /\ t = cl.task)
        /\ cl.pc = "done" => \A t \in cl.asked : Accounted(c, t)

StatusReached == \A t \in Tasks : task[t].status \in reached[t]

TruthInv ==
    /\ \A w \in Workers : WorkerTold(w)
    /\ \A c \in Cancellers : CancelTold(c)
    /\ StatusReached
    /\ LogTruthful
    /\ SessionSettlesAfterTask

-----------------------------------------------------------------------------
(* The history only grows.                                                 *)

Grows ==
    /\ \A t \in Tasks : reached[t] \subseteq reached'[t]
    /\ faults' \in Nat /\ faults <= faults'

\* The statuses a task has had are those it had and the one just written.
LEMMA GrowsStep == TypeOK /\ [Next]_vars => Grows /\ (StatusReached => StatusReached')
<1> SUFFICES ASSUME TypeOK, [Next]_vars PROVE Grows /\ (StatusReached => StatusReached')
    OBVIOUS
<1> USE DEF TypeOK, rows, broker, history, bounds
<1>0. CASE UNCHANGED <<task, reached, faults>>
    BY <1>0 DEF Grows, StatusReached, HistoryOK
<1>1. ASSUME NEW w \in Workers, WorkerStep(w) PROVE Grows /\ (StatusReached => StatusReached')
    <2>f. faults' = faults
        BY <1>1, WorkerFrame DEF bounds
    <2>w. worker[w].pc # "idle" => worker[w].task \in Tasks
        BY DEF WorkersOK
    <2>a. CASE WriteTask(w)
        <3> DEFINE t == worker[w].task
                   target == Target(worker[w].pc)
        <3>1. t \in Tasks
            BY <2>a, <2>w DEF WriteTask, TaskStage
        <3>2. /\ reached' = [reached EXCEPT ![t] = @ \cup {target}]
              /\ \A u \in Tasks : task'[u].status = IF u = t THEN target ELSE task[u].status
            BY <2>a, <3>1 DEF WriteTask, RowsOK
        <3> HIDE DEF target
        <3>3. \A u \in Tasks : reached'[u] = IF u = t THEN reached[u] \cup {target} ELSE reached[u]
            BY <3>1, <3>2 DEF HistoryOK
        <3> QED
            BY <2>f, <3>2, <3>3 DEF Grows, StatusReached, HistoryOK
    <2>b. CASE Attach(w)
        <3>1. /\ \A u \in Tasks : task'[u].status = task[u].status
              /\ reached' = reached
            BY <2>b, <2>w DEF Attach, RowsOK, TaskRow
        <3> QED
            BY <2>f, <3>1 DEF Grows, StatusReached, HistoryOK
    <2>c. CASE UNCHANGED <<task, reached>>
        BY <2>c, <2>f, <1>0
    <2> QED
        BY <1>1, <2>a, <2>b, <2>c
        DEF WorkerStep, Receive, CheckCancelled, LoadInput, TakeSnapshot, LoadSession,
            CreateSession, RunAgent, EnsureTask, EnsureSession, WriteSession, AppendEvent,
            SyncTask, SyncSession, ScheduleRetry, FinalRead, Cleanup
<1>2. ASSUME NEW c \in Cancellers, CancelStep(c) PROVE Grows /\ (StatusReached => StatusReached')
    <2>f. faults' = faults
        BY <1>2, CancelFrame DEF bounds
    <2>a. CASE WriteCancelled(c)
        <3> DEFINE t == canceller[c].task
        <3>1. t \in Tasks
            BY <2>a DEF WriteCancelled, CancellersOK, CancelStage
        <3>2. \A u \in Tasks :
                /\ reached'[u] = IF u = t THEN reached[u] \cup {"cancelled"} ELSE reached[u]
                /\ task'[u].status = IF u = t THEN "cancelled" ELSE task[u].status
            BY <2>a, <3>1 DEF WriteCancelled, RowsOK, TaskRow, HistoryOK
        <3> HIDE DEF t
        <3>3. ASSUME NEW u \in Tasks PROVE reached[u] \subseteq reached'[u]
            BY <3>2
        <3>4. ASSUME StatusReached, NEW u \in Tasks PROVE task'[u].status \in reached'[u]
            BY <3>2, <3>4 DEF StatusReached
        <3> QED
            BY <2>f, <3>3, <3>4 DEF Grows, StatusReached, HistoryOK
    <2>b. CASE UNCHANGED <<task, reached>>
        BY <2>b, <2>f, <1>0
    <2> QED
        BY <1>2, <2>a, <2>b
        DEF CancelStep, CancelTask, CancelBatch, Pick, EnsureCancelled,
            EnsureCancelSession, WriteCancelSession, AppendCancelEvent, Revoke
<1>3. CASE \/ \E t \in Tasks : Publish(t)
           \/ \E m \in Message : Discard(m)
           \/ \E w \in Workers : Crash(w) \/ Redeliver(w) \/ Kill(w)
    BY <1>0, <1>3 DEF Publish, Discard, Crash, Redeliver, Kill
<1>4. CASE \/ \E w \in Workers : Fault(w)
           \/ \E c \in Cancellers : CancelFault(c)
    <2>1. UNCHANGED <<task, reached>> /\ faults' = faults + 1
        BY <1>4 DEF Fault, CancelFault
    <2> QED
        BY <2>1 DEF Grows, StatusReached, HistoryOK
<1>5. CASE UNCHANGED vars
    BY <1>0, <1>5 DEF vars
<1> QED
    BY <1>1, <1>2, <1>3, <1>4, <1>5 DEF Next

\* What has been settled stays so.
LEMMA SettledStays ==
    ASSUME Grows, NEW t \in Tasks, Settled(t)
    PROVE  Settled(t)'
BY DEF Grows, Settled

-----------------------------------------------------------------------------
(* What the workers' stages say.                                           *)

\* The stages that say something.
Telling == {"s_completed", "ev_completed", "s_failed", "final_s_failed",
            "sync_task", "sync_failed", "sync_session", "sync_s_failed"}

\* A worker whose stage and task stay the same still knows what it knew.
LEMMA SameTold ==
    ASSUME TypeOK, Grows, NEW w \in Workers, WorkerTold(w),
           worker'[w].pc = worker[w].pc, worker'[w].task = worker[w].task
    PROVE  WorkerTold(w)'
<1>1. CASE worker[w].pc = "idle"
    BY <1>1 DEF WorkerTold
<1>2. CASE worker[w].pc # "idle"
    <2>1. worker[w].task \in Tasks
        BY <1>2 DEF TypeOK, WorkersOK
    <2>2. Settled(worker[w].task) => Settled(worker[w].task)'
        BY <2>1, SettledStays DEF Grows, Settled
    <2> QED
        BY <2>1 DEF WorkerTold, Settled, Grows, TypeOK, HistoryOK
<1> QED
    BY <1>1, <1>2

\* A worker in a stage that says nothing.
LEMMA SilentTold ==
    ASSUME NEW w \in Workers, worker'[w].pc \notin Telling
    PROVE  WorkerTold(w)'
BY DEF WorkerTold, Telling

\* Which stages an exception leads to.
LEMMA HandlerTells ==
    ASSUME NEW pc \in Stage, NEW back \in {"mark_failed", "ev_failed"}
    PROVE  \/ Handler(pc, back) \notin Telling
           \/ /\ Handler(pc, back) = "sync_task"
              /\ pc \in {"s_completed", "mark_failed", "s_failed"}
           \/ /\ Handler(pc, back) = "sync_session"
              /\ pc \in {"sync_task", "sync_failed"}
BY DEF Handler, Telling, Stage, TaskStage, EventStage, SessionStage, ReadStage

\* An exception: where the status could not be saved, either it was terminal
\* already or a call has failed.
LEMMA RaiseTold ==
    ASSUME TypeOK, Grows, NEW w \in Workers, WorkerTold(w), worker[w].pc # "idle", Raise(w),
           \/ worker[w].pc \notin {"mark_failed", "sync_task", "sync_failed"}
           \/ Settled(worker[w].task)
           \/ faults' = faults + 1
    PROVE  WorkerTold(w)'
<1> DEFINE pc == worker[w].pc
           handler == Handler(pc, worker[w].back)
<1>0. PICK t \in Tasks : t = worker[w].task
    BY DEF TypeOK, WorkersOK
<1>1. /\ pc \in Stage /\ worker[w].back \in {"mark_failed", "ev_failed"}
      /\ faults \in Nat /\ faults' \in Nat /\ faults <= faults'
    BY DEF TypeOK, WorkersOK, WorkerState, HistoryOK, Grows
<1>2. /\ "completed" \in reached[t] => Settled(t)
      /\ Settled(t) => Settled(t)'
    BY <1>0 DEF Settled, Terminal, Grows
<1>3. CASE handler = "idle"
    <2>1. worker'[w].pc = "idle"
        BY <1>3 DEF Raise, Idle, TypeOK, WorkersOK
    <2> QED
        BY <2>1, SilentTold DEF Telling
<1>4. CASE handler # "idle"
    <2>1. worker'[w].pc = handler /\ worker'[w].task = t
        BY <1>0, <1>4 DEF Raise, TypeOK, WorkersOK, WorkerState
    <2>2. CASE handler \notin Telling
        BY <2>1, <2>2, SilentTold
    <2>3. CASE handler = "sync_task" /\ pc \in {"s_completed", "mark_failed", "s_failed"}
        <3>1. Settled(t) \/ faults' >= 1
            BY <1>0, <1>1, <1>2, <2>3 DEF WorkerTold
        <3>2. Settled(t)' \/ faults' >= 1
            BY <1>2, <3>1
        <3> QED
            BY <2>1, <2>3, <3>2 DEF WorkerTold, Settled
    <2>4. CASE handler = "sync_session" /\ pc \in {"sync_task", "sync_failed"}
        <3>1. Settled(t) \/ faults' >= 2
            BY <1>0, <1>1, <2>4 DEF WorkerTold
        <3>2. Settled(t)' \/ faults' >= 2
            BY <1>2, <3>1
        <3> QED
            BY <2>1, <2>4, <3>2 DEF WorkerTold, Settled
    <2> QED
        BY <1>1, <2>2, <2>3, <2>4, HandlerTells
<1> QED
    BY <1>3, <1>4

\* The end of a status change or of an event: the stage that follows says
\* what was written, or what the last one said.
LEMMA AfterTold ==
    ASSUME TypeOK, Grows, NEW w \in Workers, WorkerTold(w), Goto(w, After(worker[w])),
           worker[w].pc \in TaskStage \cup SessionStage \cup EventStage,
           worker[w].pc \in TaskStage => Target(worker[w].pc) \in reached'[worker[w].task]
    PROVE  WorkerTold(w)'
<1> DEFINE wk == worker[w]
<1>0. PICK t \in Tasks : t = wk.task
    BY DEF TypeOK, WorkersOK, TaskStage, SessionStage, EventStage
<1>1. wk \in WorkerState
    BY DEF TypeOK, WorkersOK
<1>2. worker'[w].pc = After(wk) /\ worker'[w].task = t
    BY <1>0 DEF Goto, TypeOK, WorkersOK, WorkerState
<1>3. CASE wk.pc = "mark_completed"
    BY <1>0, <1>2, <1>3 DEF After, Target, TaskStage, WorkerTold
<1>4. CASE wk.pc \in {"mark_failed", "sync_failed", "final_failed"}
    <2>0. Target(wk.pc) = "failed" /\ wk.pc \in TaskStage
        BY <1>4 DEF Target, TaskStage
    <2>1. Settled(t)'
        <3>1. "failed" \in reached'[t]
            BY <1>0, <2>0
        <3> QED
            BY <3>1 DEF Settled, Terminal
    <2>2. After(wk) \notin {"s_completed", "ev_completed"}
        BY <1>4 DEF After
    <2> QED
        BY <1>2, <2>1, <2>2 DEF WorkerTold, Settled
<1>5. CASE wk.pc = "s_completed"
    <2>1. "completed" \in reached'[t]
        BY <1>0, <1>5 DEF WorkerTold, Grows
    <2> QED
        BY <1>2, <1>5, <2>1 DEF After, WorkerTold
<1>6. CASE wk.pc \in (TaskStage \cup SessionStage \cup EventStage)
                     \ {"mark_completed", "mark_failed", "sync_failed", "final_failed",
                        "s_completed"}
    <2>1. After(wk) \notin Telling
        BY <1>1, <1>6
        DEF After, Telling, TaskStage, SessionStage, EventStage, WorkerState
    <2> QED
        BY <1>2, <2>1, SilentTold
<1> QED
    BY <1>3, <1>4, <1>5, <1>6

\* A failed that the table refuses: the task is over, as it left the queue.
LEMMA RefusedIsSettled ==
    ASSUME TypeOK, StatusReached, NEW w \in Workers, WorkerKnows(w),
           worker[w].pc \in {"mark_failed", "sync_failed"},
           ~CanMove(task[worker[w].task].status, Target(worker[w].pc))
    PROVE  Settled(worker[w].task)
<1> DEFINE t == worker[w].task
<1>1. t \in Tasks /\ task[t].status \in Status
    BY DEF TypeOK, WorkersOK, RowsOK, TaskRow
<1>2. task[t].status # "queued"
    BY DEF WorkerKnows, Moved, Early, Stage, TaskStage
<1>3. Target(worker[w].pc) = "failed"
    BY DEF Target
<1>4. task[t].status \in Terminal
    BY <1>1, <1>2, <1>3 DEF CanMove, TASK_TRANSITIONS, Status, Terminal
<1> QED
    BY <1>1, <1>4 DEF StatusReached, Settled

-----------------------------------------------------------------------------
(* Every step of a worker, and of the others.                              *)

\* The stage a worker goes to says what it has just read or written.
LEMMA ToldStep ==
    ASSUME TypeOK, TruthInv, Grows, NEW w \in Workers, WorkerKnows(w), WorkerStep(w)
    PROVE  WorkerTold(w)'
<1> DEFINE t == worker[w].task
           pc == worker[w].pc
<1>w. /\ worker[w] \in WorkerState
      /\ pc # "idle" => t \in Tasks
      /\ WorkerTold(w)
    BY DEF TypeOK, WorkersOK, TruthInv
<1>a. CASE Receive(w) \/ TakeSnapshot(w)
    <2>1. worker'[w].pc \in {"check", "cleanup", "final_read", "session"}
        <3>1. CASE Receive(w)
            <4>1. PICK m \in Message :
                    worker' = [worker EXCEPT ![w] =
                        [Idle EXCEPT !.pc = "check", !.task = m[1], !.retries = m[2]]]
                BY <3>1 DEF Receive
            <4> QED
                BY <4>1 DEF Idle, TypeOK, WorkersOK
        <3>2. CASE TakeSnapshot(w)
            BY <3>2 DEF TakeSnapshot, TypeOK, WorkersOK, WorkerState
        <3> QED
            BY <1>a, <3>1, <3>2
    <2> QED
        BY <2>1, SilentTold DEF Telling
<1>j. CASE CheckCancelled(w) \/ LoadSession(w) \/ CreateSession(w) \/ Attach(w)
    <2>1. worker'[w].pc \notin Telling
        BY <1>j DEF CheckCancelled, LoadSession, CreateSession, Attach, Goto, Telling,
                    TypeOK, WorkersOK, WorkerState
    <2> QED
        BY <2>1, SilentTold
<1>b. CASE RunAgent(w) \/ ScheduleRetry(w) \/ FinalRead(w) \/ Cleanup(w)
    <2>1. worker'[w].pc \notin Telling
        BY <1>b DEF RunAgent, ScheduleRetry, FinalRead, Cleanup, Goto, Idle, Telling,
                    TypeOK, WorkersOK, WorkerState
    <2> QED
        BY <2>1, SilentTold
<1>c. CASE LoadInput(w)
    <2>1. CASE Goto(w, "snapshot") \/ Goto(w, "retry")
        <3>1. worker'[w].pc \notin Telling
            BY <2>1 DEF Goto, Telling, TypeOK, WorkersOK, WorkerState
        <3> QED
            BY <3>1, SilentTold
    <2>2. CASE Raise(w)
        <3>1. pc = "load"
            BY <1>c DEF LoadInput
        <3> QED
            BY <1>w, <2>2, <3>1, RaiseTold
    <2> QED
        BY <1>c, <2>1, <2>2 DEF LoadInput
<1>d. CASE EnsureTask(w)
    <2>0. pc \in TaskStage /\ pc # "idle"
        BY <1>d DEF EnsureTask, TaskStage
    <2>1. CASE CanMove(task[t].status, Target(pc))
        <3>1. worker'[w].pc = worker[w].pc /\ worker'[w].task = worker[w].task
            BY <1>d, <2>1 DEF EnsureTask, TypeOK, WorkersOK, WorkerState
        <3> QED
            BY <1>w, <3>1, SameTold
    <2>2. CASE ~CanMove(task[t].status, Target(pc))
        <3>1. Raise(w)
            BY <1>d, <2>2 DEF EnsureTask
        <3>2. pc \in {"mark_failed", "sync_failed"} => Settled(t)
            BY <2>2, RefusedIsSettled DEF TruthInv
        <3>3. pc # "sync_task"
            BY <2>0 DEF TaskStage
        <3> QED
            BY <1>w, <2>0, <3>1, <3>2, <3>3, RaiseTold
    <2> QED
        BY <2>1, <2>2
<1>e. CASE EnsureSession(w)
    <2>0. pc \in SessionStage /\ pc # "idle"
        BY <1>e DEF EnsureSession, SessionStage
    <2>1. CASE CanMove(session[t], Target(pc))
        <3>1. worker'[w].pc = worker[w].pc /\ worker'[w].task = worker[w].task
            BY <1>e, <2>1 DEF EnsureSession, TypeOK, WorkersOK, WorkerState
        <3> QED
            BY <1>w, <3>1, SameTold
    <2>2. CASE ~CanMove(session[t], Target(pc))
        <3>1. Raise(w)
            BY <1>e, <2>2 DEF EnsureSession
        <3>2. pc \notin {"mark_failed", "sync_task", "sync_failed"}
            BY <2>0 DEF SessionStage
        <3> QED
            BY <1>w, <2>0, <3>1, <3>2, RaiseTold
    <2> QED
        BY <2>1, <2>2
<1>f. CASE WriteTask(w)
    <2>0. pc \in TaskStage /\ pc # "idle"
        BY <1>f DEF WriteTask, TaskStage
    <2>1. Target(pc) \in reached'[t]
        BY <1>f, <1>w, <2>0 DEF WriteTask, TypeOK, HistoryOK
    <2>2. Goto(w, After(worker[w]))
        BY <1>f DEF WriteTask
    <2> QED
        BY <1>w, <2>0, <2>1, <2>2, AfterTold
<1>g. CASE WriteSession(w) \/ AppendEvent(w)
    <2>0. pc \in SessionStage \cup EventStage /\ pc \notin TaskStage
        BY <1>g DEF WriteSession, AppendEvent, TaskStage, SessionStage, EventStage
    <2>1. Goto(w, After(worker[w]))
        BY <1>g DEF WriteSession, AppendEvent
    <2> QED
        BY <1>w, <2>0, <2>1, AfterTold
<1>h. CASE SyncTask(w)
    <2>0. PICK u \in Tasks : u = t
        BY <1>h, <1>w DEF SyncTask
    <2>1. CASE task[u].status \in Terminal
        <3>1. worker'[w].pc = "sync_session" /\ worker'[w].task = u
            BY <1>h, <2>0, <2>1 DEF SyncTask, Goto, TypeOK, WorkersOK, WorkerState
        <3>2. Settled(u)'
            BY <2>1 DEF TruthInv, StatusReached, Settled, Grows
        <3> QED
            BY <3>1, <3>2 DEF WorkerTold, Settled
    <2>2. CASE task[u].status \notin Terminal
        <3>1. worker'[w].pc = "sync_failed" /\ worker'[w].task = u
            BY <1>h, <2>0, <2>2 DEF SyncTask, Goto, TypeOK, WorkersOK, WorkerState
        <3>2. Settled(u)' \/ faults' >= 1
            BY <1>h, <1>w, <2>0
            DEF SyncTask, WorkerTold, Settled, Grows, TypeOK, HistoryOK
        <3> QED
            BY <3>1, <3>2 DEF WorkerTold, Settled
    <2> QED
        BY <2>1, <2>2
<1>i. CASE SyncSession(w)
    <2>0. PICK u \in Tasks : u = t
        BY <1>i, <1>w DEF SyncSession
    <2>1. worker'[w].pc \in {"ev_sync", "sync_s_failed"} /\ worker'[w].task = u
        BY <1>i, <2>0 DEF SyncSession, Goto, TypeOK, WorkersOK, WorkerState
    <2>2. Settled(u)' \/ faults' >= 2
        BY <1>i, <1>w, <2>0
        DEF SyncSession, WorkerTold, Settled, Grows, TypeOK, HistoryOK
    <2> QED
        BY <2>1, <2>2 DEF WorkerTold, Settled
<1> QED
    BY <1>a, <1>b, <1>c, <1>d, <1>e, <1>f, <1>g, <1>h, <1>i, <1>j DEF WorkerStep

\* The same of the steps that a worker does not choose, and of the steps of
\* the other workers.
LEMMA WorkersToldStep ==
    ASSUME TypeOK, SafetyInv, TruthInv, Grows, [Next]_vars, NEW v \in Workers
    PROVE  WorkerTold(v)'
<1>o. ASSUME worker'[v] = worker[v] PROVE WorkerTold(v)'
    BY <1>o, SameTold DEF TruthInv
<1>1. ASSUME NEW w \in Workers, WorkerStep(w) PROVE WorkerTold(v)'
    <2>1. CASE v = w
        BY <1>1, <2>1, ToldStep DEF SafetyInv
    <2>2. CASE v # w
        <3>1. worker'[v] = worker[v]
            BY <1>1, <2>2
            DEF WorkerStep, Receive, CheckCancelled, LoadInput, TakeSnapshot,
                LoadSession, CreateSession, Attach, RunAgent, EnsureTask, WriteTask,
                EnsureSession, WriteSession, AppendEvent, SyncTask, SyncSession,
                ScheduleRetry, FinalRead, Cleanup, Goto, Raise, TypeOK, WorkersOK
        <3> QED
            BY <1>o, <3>1
    <2> QED
        BY <2>1, <2>2
<1>2. ASSUME NEW w \in Workers, Fault(w) PROVE WorkerTold(v)'
    <2>1. CASE v = w
        <3>1. worker[v].pc # "idle" /\ Raise(v) /\ faults' = faults + 1
            BY <1>2, <2>1 DEF Fault
        <3> QED
            BY <3>1, RaiseTold DEF TruthInv
    <2>2. CASE v # w
        <3>1. worker'[v] = worker[v]
            BY <1>2, <2>2 DEF Fault, Raise, TypeOK, WorkersOK
        <3> QED
            BY <1>o, <3>1
    <2> QED
        BY <2>1, <2>2
<1>3. ASSUME NEW w \in Workers, Crash(w) \/ Redeliver(w) \/ Kill(w) PROVE WorkerTold(v)'
    <2>1. CASE worker' = [worker EXCEPT ![w] = Idle] /\ v = w
        <3>1. worker'[v].pc = "idle"
            BY <2>1 DEF Idle, TypeOK, WorkersOK
        <3> QED
            BY <3>1, SilentTold DEF Telling
    <2>2. CASE worker'[v] = worker[v]
        BY <1>o, <2>2
    <2> QED
        BY <1>3, <2>1, <2>2 DEF Crash, Redeliver, Kill, TypeOK, WorkersOK
<1>4. CASE UNCHANGED worker
    BY <1>o, <1>4
<1> QED
    BY <1>1, <1>2, <1>3, <1>4
    DEF Next, vars, Publish, Discard, CancelFault, CancelStep, CancelTask, CancelBatch,
        Pick, EnsureCancelled, WriteCancelled, EnsureCancelSession, WriteCancelSession,
        AppendCancelEvent, Revoke

-----------------------------------------------------------------------------
(* What the cancel requests have behind them.                              *)

\* What a request may report it may report for good, while its records stay.
LEMMA AccountedStays ==
    ASSUME Grows, NEW c \in Cancellers, NEW t \in Tasks, Accounted(c, t),
           canceller'[c].view = canceller[c].view
    PROVE  Accounted(c, t)'
BY DEF Accounted, Grows

\* A request that makes no step.
LEMMA SameCancelTold ==
    ASSUME TypeOK, Grows, NEW c \in Cancellers, CancelTold(c),
           canceller'[c].pc = canceller[c].pc,
           canceller'[c].task = canceller[c].task,
           canceller'[c].asked = canceller[c].asked,
           canceller'[c].todo = canceller[c].todo,
           canceller'[c].view = canceller[c].view
    PROVE  CancelTold(c)'
<1> DEFINE cl == canceller[c]
<1>1. /\ cl.asked \subseteq Tasks
      /\ cl.pc \in CancelStage \ {"pick"} => cl.task \in Tasks
    BY DEF TypeOK, CancellersOK, CancellerState
<1>2. \A t \in Tasks : Accounted(c, t) => Accounted(c, t)'
    BY DEF Accounted, Grows
<1>3. cl.pc \in CancelStage \ {"pick", "cancel"} => "cancelled" \in reached'[canceller'[c].task]
    BY <1>1 DEF CancelTold, Grows
<1>4. \A t \in Tasks : canceller'[c].view[t].status \in reached'[t]
    BY DEF CancelTold, Grows
<1> QED
    BY <1>1, <1>2, <1>3, <1>4 DEF CancelTold

\* A request that has ended with an error reports nothing.
LEMMA ErrorTold ==
    ASSUME TypeOK, Grows, NEW c \in Cancellers, CancelTold(c), Step(c, "error")
    PROVE  CancelTold(c)'
<1>1. canceller'[c].pc = "error" /\ canceller'[c].view = canceller[c].view
    BY DEF Step, TypeOK, CancellersOK, CancellerState
<1>2. \A t \in Tasks : canceller'[c].view[t].status \in reached'[t]
    BY <1>1 DEF CancelTold, Grows
<1> QED
    BY <1>1, <1>2 DEF CancelTold, CancelStage

\* A request that goes to a stage after the write has made the write.
LEMMA StepTold ==
    ASSUME TypeOK, Grows, NEW c \in Cancellers, CancelTold(c),
           canceller[c].pc \in CancelStage \ {"pick"},
           NEW pc \in CancelStage \ {"pick", "cancel"}, Step(c, pc),
           "cancelled" \in reached'[canceller[c].task]
    PROVE  CancelTold(c)'
<1> DEFINE cl == canceller[c]
<1>1. /\ canceller'[c].pc = pc
      /\ canceller'[c].task = cl.task
      /\ canceller'[c].asked = cl.asked
      /\ canceller'[c].todo = cl.todo
      /\ canceller'[c].view = cl.view
    BY DEF Step, TypeOK, CancellersOK, CancellerState
<1>2. cl.asked \subseteq Tasks
    BY DEF TypeOK, CancellersOK, CancellerState
<1>3. \A t \in Tasks : Accounted(c, t) => Accounted(c, t)'
    BY <1>1 DEF Accounted, Grows
<1>4. \A t \in Tasks : canceller'[c].view[t].status \in reached'[t]
    BY <1>1 DEF CancelTold, Grows
<1>5. \A t \in cl.asked \ cl.todo : Accounted(c, t)' \/ t = cl.task
    BY <1>2, <1>3 DEF CancelTold
<1> QED
    BY <1>1, <1>4, <1>5 DEF CancelTold, CancelStage

\* The steps of a request.
LEMMA CancelToldStep ==
    ASSUME TypeOK, TruthInv, Grows, NEW c \in Cancellers, CancelStep(c)
    PROVE  CancelTold(c)'
<1> DEFINE cl == canceller[c]
<1>c. /\ cl \in CancellerState
      /\ cl.pc \in CancelStage \ {"pick"} => cl.task \in Tasks
      /\ CancelTold(c)
    BY DEF TypeOK, CancellersOK, TruthInv
<1>t. task \in [Tasks -> TaskRow] /\ \A t \in Tasks : task[t].status \in reached'[t]
    BY DEF TypeOK, RowsOK, TruthInv, StatusReached, Grows
<1>a. CASE CancelTask(c)
    <2>1. PICK t \in Tasks :
            canceller' = [canceller EXCEPT
                ![c].asked = {t},
                ![c].view = task,
                ![c].task = t,
                ![c].pc = CASE task[t].status = "cancelled" -> "done"
                            [] task[t].status \in {"completed", "failed"} -> "error"
                            [] OTHER -> "cancel"]
        BY <1>a DEF CancelTask
    <2>2. /\ canceller'[c].asked = {t}
          /\ canceller'[c].view = task
          /\ canceller'[c].task = t
          /\ canceller'[c].pc \in {"done", "error", "cancel"}
          /\ canceller'[c].pc = "done" => task[t].status = "cancelled"
        BY <1>c, <2>1 DEF TypeOK, CancellersOK, CancellerState
    <2> QED
        BY <1>t, <2>2 DEF CancelTold, CancelStage, Accounted
<1>b. CASE CancelBatch(c)
    <2>1. /\ canceller'[c].asked = Batch
          /\ canceller'[c].todo = Batch
          /\ canceller'[c].view = task
          /\ canceller'[c].pc = "pick"
        BY <1>b, <1>c DEF CancelBatch, TypeOK, CancellersOK, CancellerState
    <2> QED
        BY <1>t, <2>1 DEF CancelTold, CancelStage
<1>d. CASE Pick(c)
    <2>0. /\ cl.pc = "pick"
          /\ \A t \in cl.asked \ cl.todo : Accounted(c, t)
          /\ cl.asked \subseteq Tasks /\ cl.todo \subseteq Tasks
        BY <1>c, <1>d DEF Pick, CancelTold, CancelStage, CancellerState
    <2>1. CASE cl.todo = {} /\ Step(c, "done")
        <3>1. /\ canceller'[c].pc = "done"
              /\ canceller'[c].asked = cl.asked
              /\ canceller'[c].view = cl.view
            BY <2>1 DEF Step, TypeOK, CancellersOK, CancellerState
        <3>2. \A t \in cl.asked : Accounted(c, t)'
            BY <2>0, <2>1, <3>1 DEF Accounted, Grows
        <3>3. \A t \in Tasks : canceller'[c].view[t].status \in reached'[t]
            BY <1>c, <3>1 DEF CancelTold, Grows
        <3> QED
            BY <3>1, <3>2, <3>3 DEF CancelTold, CancelStage
    <2>2. ASSUME NEW t \in cl.todo,
                 canceller' = [canceller EXCEPT
                    ![c].todo = @ \ {t},
                    ![c].task = t,
                    ![c].pc = IF cl.view[t].status \in Terminal THEN "pick" ELSE "cancel"]
          PROVE  CancelTold(c)'
        <3>1. /\ canceller'[c].pc = IF cl.view[t].status \in Terminal THEN "pick" ELSE "cancel"
              /\ canceller'[c].task = t
              /\ canceller'[c].asked = cl.asked
              /\ canceller'[c].todo = cl.todo \ {t}
              /\ canceller'[c].view = cl.view
            BY <1>c, <2>2 DEF TypeOK, CancellersOK, CancellerState
        <3>2. \A u \in cl.asked \ cl.todo : Accounted(c, u)'
            BY <2>0, <3>1 DEF Accounted, Grows
        <3>3. \A u \in Tasks : canceller'[c].view[u].status \in reached'[u]
            BY <1>c, <3>1 DEF CancelTold, Grows
        <3>4. cl.view[t].status \in Terminal => Accounted(c, t)'
            BY <2>0, <3>1, <3>3 DEF Accounted, Terminal
        <3> QED
            BY <3>1, <3>2, <3>3, <3>4 DEF CancelTold, CancelStage
    <2> QED
        BY <1>d, <2>1, <2>2 DEF Pick
<1>e. CASE EnsureCancelled(c)
    <2>1. CASE CanMove(task[cl.task].status, "cancelled")
        <3>1. canceller' = [canceller EXCEPT ![c].checked = TRUE]
            BY <1>e, <2>1 DEF EnsureCancelled
        <3>2. /\ canceller'[c].pc = cl.pc
              /\ canceller'[c].task = cl.task
              /\ canceller'[c].asked = cl.asked
              /\ canceller'[c].todo = cl.todo
              /\ canceller'[c].view = cl.view
            BY <1>c, <3>1 DEF TypeOK, CancellersOK, CancellerState
        <3> QED
            BY <1>c, <3>2, SameCancelTold
    <2>2. CASE ~CanMove(task[cl.task].status, "cancelled")
        BY <1>c, <1>e, <2>2, ErrorTold DEF EnsureCancelled, CancelHandler
    <2> QED
        BY <2>1, <2>2
<1>f. CASE WriteCancelled(c)
    <2>0. cl.pc \in CancelStage \ {"pick"}
        BY <1>f DEF WriteCancelled, CancelStage
    <2>1. "cancelled" \in reached'[cl.task]
        BY <1>c, <1>f, <2>0 DEF WriteCancelled, TypeOK, HistoryOK
    <2>2. PICK pc \in {"s_cancel", "ev_cancelled"} : Step(c, pc)
        BY <1>f DEF WriteCancelled
    <2>3. pc \in CancelStage \ {"pick", "cancel"}
        BY <2>2 DEF CancelStage
    <2> QED
        BY <1>c, <2>0, <2>1, <2>2, <2>3, StepTold
<1>g. CASE EnsureCancelSession(c)
    <2>0. cl.pc \in CancelStage \ {"pick", "cancel"}
        BY <1>g DEF EnsureCancelSession, CancelStage
    <2>1. CASE CanMove(session[cl.task], SessionTarget(cl.pc))
        <3>1. canceller' = [canceller EXCEPT ![c].checked = TRUE]
            BY <1>g, <2>1 DEF EnsureCancelSession
        <3>2. /\ canceller'[c].pc = cl.pc
              /\ canceller'[c].task = cl.task
              /\ canceller'[c].asked = cl.asked
              /\ canceller'[c].todo = cl.todo
              /\ canceller'[c].view = cl.view
            BY <1>c, <3>1 DEF TypeOK, CancellersOK, CancellerState
        <3> QED
            BY <1>c, <3>2, SameCancelTold
    <2>2. CASE ~CanMove(session[cl.task], SessionTarget(cl.pc))
        <3>1. PICK pc \in {"s_recover", "ev_recover"} : Step(c, pc)
            BY <1>g, <2>2 DEF EnsureCancelSession, CancelHandler
        <3>2. pc \in CancelStage \ {"pick", "cancel"}
            BY <3>1 DEF CancelStage
        <3>3. "cancelled" \in reached'[cl.task]
            BY <1>c, <2>0 DEF CancelTold, Grows
        <3> QED
            BY <1>c, <2>0, <3>1, <3>2, <3>3, StepTold
    <2> QED
        BY <2>1, <2>2
<1>h. CASE WriteCancelSession(c) \/ AppendCancelEvent(c)
    <2>0. cl.pc \in CancelStage \ {"pick", "cancel"}
        BY <1>h DEF WriteCancelSession, AppendCancelEvent, CancelStage
    <2>1. "cancelled" \in reached'[cl.task]
        BY <1>c, <2>0 DEF CancelTold, Grows
    <2>2. PICK pc \in {"ev_cancelled", "ev_recover", "revoke", "error"} : Step(c, pc)
        BY <1>h DEF WriteCancelSession, AppendCancelEvent
    <2>3. CASE pc = "error"
        BY <1>c, <2>2, <2>3, ErrorTold
    <2>4. CASE pc # "error"
        <3>1. pc \in CancelStage \ {"pick", "cancel"}
            BY <2>2, <2>4 DEF CancelStage
        <3> QED
            BY <1>c, <2>0, <2>1, <2>2, <3>1, StepTold
    <2> QED
        BY <2>3, <2>4
<1>i. CASE Revoke(c)
    <2>0. cl.pc = "revoke" /\ cl.task \in Tasks
        BY <1>i, <1>c DEF Revoke, CancelStage
    <2>1. /\ canceller'[c].pc = "pick"
          /\ canceller'[c].asked = cl.asked
          /\ canceller'[c].todo = cl.todo
          /\ canceller'[c].view = cl.view
        BY <1>i DEF Revoke, Step, TypeOK, CancellersOK, CancellerState
    <2>2. "cancelled" \in reached[cl.task]
        BY <1>c, <2>0 DEF CancelTold, CancelStage
    <2>3. \A t \in cl.asked \ cl.todo : t \in Tasks /\ Accounted(c, t)
        BY <1>c, <2>0, <2>2 DEF CancelTold, CancelStage, Accounted, CancellerState
    <2>4. \A t \in cl.asked \ cl.todo : Accounted(c, t)'
        BY <2>1, <2>3 DEF Accounted, Grows
    <2>5. \A t \in Tasks : canceller'[c].view[t].status \in reached'[t]
        BY <1>c, <2>1 DEF CancelTold, Grows
    <2> QED
        BY <2>1, <2>4, <2>5 DEF CancelTold, CancelStage
<1> QED
    BY <1>a, <1>b, <1>d, <1>e, <1>f, <1>g, <1>h, <1>i DEF CancelStep

\* The failing calls of a request, and the steps of everybody else.
LEMMA CancellersToldStep ==
    ASSUME TypeOK, TruthInv, Grows, [Next]_vars, NEW d \in Cancellers
    PROVE  CancelTold(d)'
<1>o. ASSUME canceller'[d] = canceller[d] PROVE CancelTold(d)'
    BY <1>o, SameCancelTold DEF TruthInv
<1>1. ASSUME NEW c \in Cancellers, CancelStep(c) PROVE CancelTold(d)'
    <2>1. CASE d = c
        BY <1>1, <2>1, CancelToldStep
    <2>2. CASE d # c
        <3>1. canceller'[d] = canceller[d]
            BY <1>1, <2>2
            DEF CancelStep, CancelTask, CancelBatch, Pick, EnsureCancelled, WriteCancelled,
                EnsureCancelSession, WriteCancelSession, AppendCancelEvent, Revoke, Step,
                TypeOK, CancellersOK
        <3> QED
            BY <1>o, <3>1
    <2> QED
        BY <2>1, <2>2
<1>2. ASSUME NEW c \in Cancellers, CancelFault(c) PROVE CancelTold(d)'
    <2>1. PICK pc \in {CancelHandler(canceller[c].pc), "error"} : Step(c, pc)
        BY <1>2 DEF CancelFault
    <2>2. CASE d # c
        <3>1. canceller'[d] = canceller[d]
            BY <2>1, <2>2 DEF Step, TypeOK, CancellersOK
        <3> QED
            BY <1>o, <3>1
    <2>3. CASE d = c /\ pc = "error"
        BY <2>1, <2>3, ErrorTold DEF TruthInv
    <2>4. CASE d = c /\ pc # "error"
        <3>1. /\ canceller[c].pc \in {"s_cancel", "s_recover"}
              /\ pc \in {"s_recover", "ev_recover"}
            BY <2>1, <2>4 DEF CancelHandler
        <3>2. /\ canceller[c].pc \in CancelStage \ {"pick", "cancel"}
              /\ pc \in CancelStage \ {"pick", "cancel"}
            BY <3>1 DEF CancelStage
        <3>3. canceller[c].task \in Tasks
            BY <3>2 DEF TypeOK, CancellersOK
        <3>4. "cancelled" \in reached'[canceller[c].task]
            BY <3>2, <3>3 DEF TruthInv, CancelTold, Grows
        <3> QED
            BY <2>1, <2>4, <3>2, <3>4, StepTold DEF TruthInv
    <2> QED
        BY <2>2, <2>3, <2>4
<1>3. CASE UNCHANGED canceller
    BY <1>o, <1>3
<1> QED
    BY <1>1, <1>2, <1>3, StepKinds, WorkerFrame
    DEF vars, Publish, Discard, Fault, Crash, Redeliver, Kill

-----------------------------------------------------------------------------
(* What is written into the log and into the sessions.                     *)

\* An event that claims a result follows the write of that result.
LEMMA LogStep ==
    ASSUME TypeOK, TruthInv, Grows, [Next]_vars
    PROVE  LogTruthful'
<1> SUFFICES ASSUME NEW t \in Tasks
             PROVE  /\ "TASK_COMPLETED" \in log'[t] => "completed" \in reached'[t]
                    /\ "TASK_CANCELLED" \in log'[t] => "cancelled" \in reached'[t]
    BY DEF LogTruthful
<1>0. ASSUME "TASK_COMPLETED" \in log'[t] => "TASK_COMPLETED" \in log[t],
             "TASK_CANCELLED" \in log'[t] => "TASK_CANCELLED" \in log[t]
      PROVE  /\ "TASK_COMPLETED" \in log'[t] => "completed" \in reached'[t]
             /\ "TASK_CANCELLED" \in log'[t] => "cancelled" \in reached'[t]
    BY <1>0 DEF TruthInv, LogTruthful, Grows
<1>1. ASSUME NEW w \in Workers, WorkerStep(w)
      PROVE  /\ "TASK_COMPLETED" \in log'[t] => "completed" \in reached'[t]
             /\ "TASK_CANCELLED" \in log'[t] => "cancelled" \in reached'[t]
    <2>1. CASE AppendEvent(w)
        <3> DEFINE u == worker[w].task
        <3>1. u \in Tasks /\ log' = [log EXCEPT ![u] = @ \cup {Event(worker[w].pc)}]
            BY <2>1 DEF AppendEvent, EventStage, TypeOK, WorkersOK
        <3>2. Event(worker[w].pc) # "TASK_CANCELLED"
            BY DEF Event
        <3>3. CASE worker[w].pc = "ev_completed"
            <4>1. "completed" \in reached[u]
                BY <3>3 DEF TruthInv, WorkerTold
            <4> QED
                BY <3>1, <3>2, <4>1 DEF TruthInv, LogTruthful, Grows, TypeOK, RowsOK
        <3>4. CASE worker[w].pc # "ev_completed"
            <4>1. Event(worker[w].pc) # "TASK_COMPLETED"
                BY <3>4 DEF Event
            <4> QED
                BY <1>0, <3>1, <3>2, <4>1 DEF TypeOK, RowsOK
        <3> QED
            BY <3>3, <3>4
    <2>2. CASE ScheduleRetry(w)
        BY <1>0, <2>2 DEF ScheduleRetry, TypeOK, RowsOK
    <2>3. CASE UNCHANGED log
        BY <1>0, <2>3
    <2> QED
        BY <1>1, <2>1, <2>2, <2>3
        DEF WorkerStep, Receive, CheckCancelled, LoadInput, TakeSnapshot, LoadSession,
            CreateSession, Attach, RunAgent, EnsureTask, WriteTask, EnsureSession,
            WriteSession, SyncTask, SyncSession, FinalRead, Cleanup
<1>2. ASSUME NEW c \in Cancellers, CancelStep(c)
      PROVE  /\ "TASK_COMPLETED" \in log'[t] => "completed" \in reached'[t]
             /\ "TASK_CANCELLED" \in log'[t] => "cancelled" \in reached'[t]
    <2>1. CASE AppendCancelEvent(c)
        <3> DEFINE u == canceller[c].task
        <3>1. canceller[c].pc \in CancelStage \ {"pick", "cancel"}
            BY <2>1 DEF AppendCancelEvent, CancelStage
        <3>2. u \in Tasks /\ "cancelled" \in reached[u]
            BY <3>1 DEF TypeOK, CancellersOK, TruthInv, CancelTold
        <3>3. PICK e \in {"TASK_CANCELLED", "TASK_FAILED"} : log' = [log EXCEPT ![u] = @ \cup {e}]
            BY <2>1 DEF AppendCancelEvent
        <3> QED
            BY <3>2, <3>3 DEF TruthInv, LogTruthful, Grows, TypeOK, RowsOK
    <2>2. CASE UNCHANGED log
        BY <1>0, <2>2
    <2> QED
        BY <1>2, <2>1, <2>2
        DEF CancelStep, CancelTask, CancelBatch, Pick, EnsureCancelled, WriteCancelled,
            EnsureCancelSession, WriteCancelSession, Revoke
<1>3. CASE UNCHANGED log
    BY <1>0, <1>3
<1> QED
    BY <1>1, <1>2, <1>3 DEF Next, vars, Publish, Discard, Fault, Crash, Redeliver, Kill, CancelFault

\* Whoever ends a session comes after the end of its task, or after two
\* failing calls.
LEMMA SessionStep ==
    ASSUME TypeOK, TruthInv, Grows, [Next]_vars
    PROVE  SessionSettlesAfterTask'
<1> SUFFICES ASSUME faults' < 2, NEW t \in Tasks, session'[t] \in Terminal
             PROVE  Settled(t)'
    BY DEF SessionSettlesAfterTask, Settled
<1>f. faults < 2 /\ faults \in Nat /\ faults' \in Nat
    BY DEF Grows, TypeOK, HistoryOK
<1>s. Settled(t) => Settled(t)'
    BY DEF Settled, Grows
<1>0. CASE session'[t] = session[t]
    BY <1>0, <1>f, <1>s DEF TruthInv, SessionSettlesAfterTask, Settled
<1>1. ASSUME NEW w \in Workers, WorkerStep(w) PROVE Settled(t)'
    <2>1. CASE WriteSession(w) /\ worker[w].task = t
        <3>1. worker[w].pc \in SessionStage /\ session'[t] = Target(worker[w].pc)
            BY <2>1 DEF WriteSession, TypeOK, RowsOK
        <3>2. worker[w].pc # "s_running"
            BY <3>1 DEF Target, Terminal
        <3>3. Settled(t)
            BY <1>f, <2>1, <3>1, <3>2
            DEF TruthInv, WorkerTold, SessionStage, Settled, Terminal
        <3> QED
            BY <1>s, <3>3
    <2>2. CASE WriteSession(w) /\ worker[w].task # t
        <3>1. session'[t] = session[t]
            BY <2>2 DEF WriteSession, TypeOK, RowsOK
        <3> QED
            BY <1>0, <3>1
    <2>3. CASE CreateSession(w)
        <3>1. session'[t] \in {session[t], "queued"}
            BY <2>3 DEF CreateSession, TypeOK, RowsOK
        <3> QED
            BY <1>0, <3>1 DEF Terminal
    <2>4. CASE UNCHANGED session
        BY <1>0, <2>4
    <2> QED
        BY <1>1, <2>1, <2>2, <2>3, <2>4
        DEF WorkerStep, rows, Receive, CheckCancelled, LoadInput, TakeSnapshot, LoadSession,
            Attach, RunAgent, EnsureTask, WriteTask, EnsureSession, AppendEvent, SyncTask,
            SyncSession, ScheduleRetry, FinalRead, Cleanup
<1>2. ASSUME NEW c \in Cancellers, CancelStep(c) PROVE Settled(t)'
    <2>1. CASE WriteCancelSession(c) /\ canceller[c].task = t
        <3>1. canceller[c].pc \in CancelStage \ {"pick", "cancel"}
            BY <2>1 DEF WriteCancelSession, CancelStage
        <3>2. Settled(t)
            BY <2>1, <3>1 DEF TruthInv, CancelTold, Settled, Terminal
        <3> QED
            BY <1>s, <3>2
    <2>2. CASE WriteCancelSession(c) /\ canceller[c].task # t
        <3>1. session'[t] = session[t]
            BY <2>2 DEF WriteCancelSession, TypeOK, RowsOK
        <3> QED
            BY <1>0, <3>1
    <2>3. CASE UNCHANGED session
        BY <1>0, <2>3
    <2> QED
        BY <1>2, <2>1, <2>2, <2>3
        DEF CancelStep, rows, CancelTask, CancelBatch, Pick, EnsureCancelled,
            WriteCancelled, EnsureCancelSession, AppendCancelEvent, Revoke
<1>3. CASE UNCHANGED session
    BY <1>0, <1>3
<1> QED
    BY <1>1, <1>2, <1>3, StepKinds, BrokerFrame

-----------------------------------------------------------------------------
(* The theorems.                                                           *)

LEMMA InitTruth == Init => TruthInv
BY DEF Init, TruthInv, WorkerTold, CancelTold, CancelStage, StatusReached, LogTruthful,
       SessionSettlesAfterTask, Idle, Terminal

LEMMA TruthStep == TypeOK /\ SafetyInv /\ TruthInv /\ [Next]_vars => TruthInv'
<1> SUFFICES ASSUME TypeOK, SafetyInv, TruthInv, [Next]_vars PROVE TruthInv'
    OBVIOUS
<1>1. Grows /\ StatusReached'
    BY GrowsStep DEF TruthInv
<1>2. \A w \in Workers : WorkerTold(w)'
    BY <1>1, WorkersToldStep
<1>3. \A c \in Cancellers : CancelTold(c)'
    BY <1>1, CancellersToldStep
<1>4. LogTruthful' /\ SessionSettlesAfterTask'
    BY <1>1, LogStep, SessionStep
<1> QED
    BY <1>1, <1>2, <1>3, <1>4 DEF TruthInv

LEMMA TruthInvariant == Spec => []TruthInv
<1>1. TypeOK /\ SafetyInv /\ TruthInv /\ [Next]_vars => TruthInv'
    BY TruthStep
<1> QED
    BY <1>1, InitTruth, SafetyInvariant, PTL DEF Spec

\* TASK_COMPLETED and TASK_CANCELLED are in the log only of tasks that were
\* completed or cancelled, for any number of workers and requests that
\* overwrite each other's statuses.
THEOREM TheLogIsTruthful == Spec => []LogTruthful
<1>1. TruthInv => LogTruthful
    BY DEF TruthInv
<1> QED
    BY <1>1, TruthInvariant, PTL

\* A cancel request that answers without an error has cancelled each of its
\* tasks, or found it over when it began, for a batch of any size.
THEOREM CancelAnswersAreTrue == Spec => []CancelReportsTruth
<1>1. TruthInv => CancelReportsTruth
    BY DEF TruthInv, CancelTold, Accounted, CancelReportsTruth
<1> QED
    BY <1>1, TruthInvariant, PTL

\* Before a second call fails, no session ends ahead of its task.
THEOREM SessionsSettleAfterTheirTasks == Spec => []SessionSettlesAfterTask
<1>1. TruthInv => SessionSettlesAfterTask
    BY DEF TruthInv
<1> QED
    BY <1>1, TruthInvariant, PTL

-----------------------------------------------------------------------------
(* What Submission says of the workers.  It has them end a task, and drop  *)
(* the input of one that has ended and whose message is out: its actions   *)
(* EndTask and DropInput.  That is what a delivery does, by the end of     *)
(* whichever of its paths it takes.                                        *)

\* The stages after which a delivery deletes the input; the events that come
\* just before it have no task status of their own.
Ending == {"ev_final", "cleanup"}

EndTold(w) == worker[w].pc \in Ending => Settled(worker[w].task)

\* A message in the broker or with a worker is one that was published.
OnlyPublished ==
    /\ \A w \in Workers : worker[w].pc # "idle" => published[worker[w].task] > 0
    /\ \A m \in Message : queue[m] > 0 => published[m[1]] > 0

InputsOutlive == \A t \in Tasks : t \in staged \/ Settled(t)

EndInv ==
    /\ \A w \in Workers : EndTold(w)
    /\ OnlyPublished
    /\ InputsOutlive

\* A delivery comes to its end over a task that it has read as terminal, or
\* has just made so.
LEMMA EndToldStep ==
    ASSUME TypeOK, TruthInv, Grows, NEW w \in Workers, EndTold(w),
           WorkerStep(w) \/ Fault(w), worker'[w].pc \in Ending
    PROVE  Settled(worker[w].task)'
<1> DEFINE wk == worker[w]
           pc == worker[w].pc
<1>w. /\ wk \in WorkerState
      /\ WorkerTold(w)
    BY DEF TypeOK, WorkersOK, TruthInv
<1>a. ~Receive(w) /\ pc # "idle"
    <2>1. ~Receive(w)
        <3>1. SUFFICES ASSUME NEW m \in Message,
                        worker' = [worker EXCEPT ![w] =
                            [Idle EXCEPT !.pc = "check", !.task = m[1], !.retries = m[2]]]
                       PROVE FALSE
            BY DEF Receive
        <3> QED
            BY <3>1 DEF Idle, Ending, TypeOK, WorkersOK
    <2>2. Cleanup(w) \/ ScheduleRetry(w) => pc # "idle"
        BY DEF Cleanup, ScheduleRetry
    <2> QED
        BY <2>1, <2>2
        DEF WorkerStep, CheckCancelled, LoadInput, TakeSnapshot, LoadSession, CreateSession,
            Attach, RunAgent, EnsureTask, WriteTask, EnsureSession, WriteSession, AppendEvent,
            SyncTask, SyncSession, ScheduleRetry, FinalRead, Cleanup, Fault, TaskStage,
            SessionStage, EventStage
<1>t. PICK t \in Tasks : t = wk.task
    BY <1>a DEF TypeOK, WorkersOK
<1>s. SUFFICES worker'[w].task = t /\ Settled(t)'
    BY DEF Settled
<1>g. Settled(t) => Settled(t)'
    BY SettledStays
<1>r. task[t].status \in Terminal => Settled(t)'
    BY <1>g DEF TruthInv, StatusReached, Settled
<1>e. Settled(t)' \/ pc \notin {"ev_final", "cleanup", "ev_completed", "final_s_failed"}
    <2>1. "completed" \in reached[t] => Settled(t)
        BY DEF Settled, Terminal
    <2> QED
        BY <1>w, <1>t, <1>g, <2>1 DEF EndTold, Ending, WorkerTold
<1>1. ASSUME NEW to, Goto(w, to) PROVE worker'[w].pc = to /\ worker'[w].task = t
    BY <1>1, <1>t DEF Goto, TypeOK, WorkersOK, WorkerState
<1>2. CASE CheckCancelled(w) \/ TakeSnapshot(w) \/ FinalRead(w)
    <2>1. CASE CheckCancelled(w)
        <3>1. Goto(w, IF task[t].status = "cancelled" THEN "cleanup" ELSE "load")
            BY <2>1, <1>t DEF CheckCancelled
        <3>2. task[t].status = "cancelled"
            BY <3>1, <1>1 DEF Ending
        <3> QED
            BY <1>1, <1>r, <3>1, <3>2 DEF Terminal
    <2>2. CASE TakeSnapshot(w) \/ FinalRead(w)
        <3>1. /\ worker'[w].task = t
              /\ worker'[w].pc = "cleanup" => task[t].status \in Terminal
              /\ worker'[w].pc # "ev_final"
            BY <2>2, <1>t DEF TakeSnapshot, FinalRead, TypeOK, WorkersOK, WorkerState
        <3> QED
            BY <1>r, <3>1 DEF Ending
    <2> QED
        BY <1>2, <2>1, <2>2
<1>3. CASE WriteTask(w) \/ WriteSession(w) \/ AppendEvent(w)
    <2>1. Goto(w, After(wk)) /\ pc \in TaskStage \cup SessionStage \cup EventStage
        BY <1>3 DEF WriteTask, WriteSession, AppendEvent
    <2>2. After(wk) \in Ending /\ worker'[w].task = t
        BY <1>1, <2>1
    <2>3. pc \in {"final_failed", "ev_final", "ev_completed", "final_s_failed"}
        BY <1>w, <2>1, <2>2
        DEF After, Ending, TaskStage, SessionStage, EventStage, WorkerState
    <2>4. CASE pc = "final_failed"
        <3>1. WriteTask(w) /\ Target(pc) = "failed"
            BY <1>3, <2>4 DEF Target, WriteSession, AppendEvent, SessionStage, EventStage
        <3>2. "failed" \in reached'[t]
            BY <3>1, <1>t DEF WriteTask, TypeOK, HistoryOK
        <3> QED
            BY <2>2, <3>2 DEF Settled, Terminal
    <2> QED
        BY <1>e, <2>2, <2>3, <2>4
<1>4. CASE Raise(w)
    <2>1. pc \in Stage /\ wk.back \in {"mark_failed", "ev_failed"}
        BY <1>w, <1>a DEF WorkerState
    <2>2. Handler(pc, wk.back) \in Ending => pc = "final_s_failed"
        BY <2>1 DEF Handler, Ending, Stage, TaskStage, SessionStage, EventStage, ReadStage
    <2>3. Handler(pc, wk.back) # "idle"
        BY <1>4 DEF Raise, Idle, Ending, TypeOK, WorkersOK
    <2>4. worker'[w].pc = Handler(pc, wk.back) /\ worker'[w].task = t
        BY <1>4, <1>t, <2>3 DEF Raise, TypeOK, WorkersOK, WorkerState
    <2> QED
        BY <1>e, <2>2, <2>4
<1>5. CASE Cleanup(w) \/ ScheduleRetry(w)
    <2>1. worker'[w].pc \in {"idle", "final_read"}
        BY <1>5 DEF Cleanup, ScheduleRetry, Goto, Idle, TypeOK, WorkersOK, WorkerState
    <2> QED
        BY <2>1 DEF Ending
<1>6. CASE EnsureTask(w) \/ EnsureSession(w)
    <2>1. CASE worker' = [worker EXCEPT ![w].checked = TRUE]
        <3>1. worker'[w].pc = pc /\ pc \in TaskStage \cup SessionStage
            BY <1>6, <2>1 DEF EnsureTask, EnsureSession, TypeOK, WorkersOK, WorkerState
        <3> QED
            BY <3>1 DEF Ending, TaskStage, SessionStage
    <2> QED
        BY <1>4, <1>6, <2>1 DEF EnsureTask, EnsureSession
<1>7. CASE LoadSession(w) \/ CreateSession(w) \/ Attach(w) \/ RunAgent(w)
    <2>1. \E to \in Stage \ Ending : Goto(w, to)
        BY <1>7 DEF LoadSession, CreateSession, Attach, RunAgent, Stage, TaskStage,
                    ReadStage, Ending
    <2> QED
        BY <1>1, <2>1
<1>8. CASE SyncTask(w) \/ SyncSession(w)
    <2>1. \E to \in Stage \ Ending : Goto(w, to)
        BY <1>8 DEF SyncTask, SyncSession, Stage, TaskStage, SessionStage, EventStage,
                    ReadStage, Ending
    <2> QED
        BY <1>1, <2>1
<1>9. CASE LoadInput(w)
    <2>1. CASE Goto(w, "snapshot") \/ Goto(w, "retry")
        BY <1>1, <2>1 DEF Ending
    <2> QED
        BY <1>4, <1>9, <2>1 DEF LoadInput
<1> QED
    BY <1>a, <1>2, <1>3, <1>4, <1>5, <1>6, <1>7, <1>8, <1>9 DEF WorkerStep, Fault

\* The same of every step, and of every worker.
LEMMA EndsToldStep ==
    ASSUME TypeOK, TruthInv, Grows, [Next]_vars, NEW v \in Workers, EndTold(v)
    PROVE  EndTold(v)'
<1>s. SUFFICES ASSUME worker'[v].pc \in Ending PROVE Settled(worker[v].task)'
    BY DEF EndTold, Settled
<1>o. ASSUME worker'[v] = worker[v] PROVE Settled(worker[v].task)'
    <2>1. PICK t \in Tasks : t = worker[v].task
        BY <1>s, <1>o DEF TypeOK, WorkersOK, Ending
    <2>2. Settled(t)'
        BY <1>s, <1>o, <2>1, SettledStays DEF EndTold
    <2> QED
        BY <1>o, <2>1, <2>2 DEF Settled
<1>1. ASSUME NEW w \in Workers, WorkerStep(w) \/ Fault(w) \/ Crash(w) \/ Redeliver(w) \/ Kill(w)
      PROVE Settled(worker[v].task)'
    <2>1. CASE v # w
        BY <1>o, <1>1, <2>1, WorkersApart
    <2>2. CASE v = w /\ (WorkerStep(w) \/ Fault(w))
        BY <1>s, <2>2, EndToldStep
    <2>3. CASE v = w /\ (Crash(w) \/ Kill(w))
        BY <1>s, <2>3 DEF Crash, Kill, Idle, Ending, TypeOK, WorkersOK
    <2>4. CASE Redeliver(w)
        BY <1>o, <2>4 DEF Redeliver
    <2> QED
        BY <1>1, <2>1, <2>2, <2>3, <2>4
<1>2. CASE UNCHANGED worker
    BY <1>o, <1>2
<1>3. ASSUME NEW c \in Cancellers, CancelStep(c) PROVE UNCHANGED worker
    BY <1>3, CancelFrame
<1> QED
    BY <1>1, <1>2, <1>3, StepKinds DEF Publish, Discard, CancelFault, vars

\* Only what was published is delivered, however often it comes again.
LEMMA PublishedStep ==
    ASSUME TypeOK, OnlyPublished, [Next]_vars
    PROVE  OnlyPublished'
<1> USE DEF TypeOK
<1>p. \A t \in Tasks : published[t] > 0 => published'[t] > 0
    <2>1. \A t \in Tasks : published[t] \in Nat
        BY DEF BrokerOK
    <2>2. ASSUME NEW u \in Tasks, Publish(u), NEW t \in Tasks, published[t] > 0
          PROVE  published'[t] > 0
        BY <2>1, <2>2 DEF Publish, BrokerOK
    <2>3. ASSUME NEW w \in Workers, WorkerStep(w) PROVE published' = published
        BY <2>3, WorkerFrame
    <2>4. ASSUME NEW c \in Cancellers, CancelStep(c) PROVE published' = published
        BY <2>4, CancelFrame
    <2> QED
        BY <2>2, <2>3, <2>4, StepKinds, BrokerFrame
<1>q. \A m \in Message : queue[m] \in Nat /\ m[1] \in Tasks
    BY DEF BrokerOK, Message
<1>w. ASSUME NEW v \in Workers, worker'[v].pc # "idle",
             \/ worker[v].pc # "idle" /\ worker'[v].task = worker[v].task
             \/ \E m \in Message : queue[m] > 0 /\ worker'[v].task = m[1]
      PROVE  published'[worker'[v].task] > 0
    <2>1. CASE worker[v].pc # "idle" /\ worker'[v].task = worker[v].task
        <3>1. worker[v].task \in Tasks
            BY <2>1 DEF WorkersOK
        <3> QED
            BY <1>p, <2>1, <3>1 DEF OnlyPublished
    <2>2. CASE \E m \in Message : queue[m] > 0 /\ worker'[v].task = m[1]
        BY <1>p, <1>q, <2>2 DEF OnlyPublished
    <2> QED
        BY <1>w, <2>1, <2>2
<1>m. ASSUME NEW m \in Message, queue'[m] > 0,
             \/ queue[m] > 0
             \/ published'[m[1]] > 0
             \/ \E w \in Workers : worker[w].pc # "idle" /\ worker[w].task = m[1]
      PROVE  published'[m[1]] > 0
    BY <1>p, <1>q, <1>m DEF OnlyPublished
<1>1. ASSUME NEW v \in Workers, worker'[v].pc # "idle"
      PROVE  published'[worker'[v].task] > 0
    <2>1. ASSUME NEW w \in Workers,
                 WorkerStep(w) \/ Fault(w) \/ Crash(w) \/ Redeliver(w) \/ Kill(w)
          PROVE  published'[worker'[v].task] > 0
        <3>1. CASE v # w
            BY <1>w, <1>1, <2>1, <3>1, WorkersApart
        <3>2. CASE v = w /\ Receive(w)
            <4>1. PICK m \in Message :
                    /\ queue[m] > 0
                    /\ worker' = [worker EXCEPT ![w] =
                        [Idle EXCEPT !.pc = "check", !.task = m[1], !.retries = m[2]]]
                BY <3>2 DEF Receive
            <4>2. worker'[v].task = m[1]
                BY <3>2, <4>1 DEF Idle, WorkersOK
            <4> QED
                BY <1>w, <1>1, <4>1, <4>2
        <3>3. CASE v = w /\ ~Receive(w)
            <4>1. worker[v].pc # "idle" /\ worker'[v].task = worker[v].task
                BY <1>1, <2>1, <3>3, TaskKept
            <4> QED
                BY <1>w, <1>1, <4>1
        <3> QED
            BY <3>1, <3>2, <3>3
    <2>2. CASE UNCHANGED worker
        BY <1>w, <1>1, <2>2
    <2>3. ASSUME NEW c \in Cancellers, CancelStep(c) PROVE UNCHANGED worker
        BY <2>3, CancelFrame
    <2> QED
        BY <2>1, <2>2, <2>3, StepKinds DEF Publish, Discard, CancelFault, vars
<1>2. ASSUME NEW m \in Message, queue'[m] > 0
      PROVE  published'[m[1]] > 0
    <2>1. CASE queue' = queue
        BY <1>m, <1>2, <2>1
    <2>2. ASSUME NEW t \in Tasks, Publish(t) PROVE published'[m[1]] > 0
        <3>1. published'[t] > 0 /\ queue' = [queue EXCEPT ![<<t, 0>>] = @ + 1]
            BY <2>2 DEF Publish, BrokerOK
        <3>2. m # <<t, 0>> => queue'[m] = queue[m]
            BY <3>1 DEF BrokerOK
        <3> QED
            BY <1>m, <1>2, <3>1, <3>2
    <2>3. ASSUME NEW n \in Message, queue' = [queue EXCEPT ![n] = @ - 1], queue[n] > 0
          PROVE  published'[m[1]] > 0
        BY <1>m, <1>q, <1>2, <2>3 DEF BrokerOK
    <2>4. ASSUME NEW w \in Workers, NEW k, worker[w].pc # "idle",
                 queue' = [queue EXCEPT ![<<worker[w].task, k>>] = @ + 1]
          PROVE  published'[m[1]] > 0
        <3>1. m # <<worker[w].task, k>> => queue'[m] = queue[m]
            BY <2>4 DEF BrokerOK
        <3>2. m = <<worker[w].task, k>> => worker[w].task = m[1]
            OBVIOUS
        <3> QED
            BY <1>m, <1>2, <2>4, <3>1, <3>2
    <2>5. ASSUME NEW w \in Workers, WorkerStep(w) PROVE published'[m[1]] > 0
        <3>1. CASE Receive(w)
            BY <2>3, <3>1 DEF Receive
        <3>2. CASE ScheduleRetry(w)
            <4>1. worker[w].pc # "idle"
                BY <3>2 DEF ScheduleRetry
            <4> QED
                BY <2>1, <2>4, <3>2, <4>1 DEF ScheduleRetry
        <3> QED
            BY <2>1, <2>5, <3>1, <3>2, WorkerFrame
    <2>6. ASSUME NEW c \in Cancellers, CancelStep(c) PROVE queue' = queue
        BY <2>6, CancelFrame
    <2>7. ASSUME NEW w \in Workers, Fault(w) \/ Crash(w) \/ Redeliver(w) \/ Kill(w)
          PROVE  published'[m[1]] > 0
        BY <2>1, <2>4, <2>7 DEF Fault, Crash, Redeliver, Kill, broker
    <2>8. CASE \/ \E n \in Message : Discard(n)
               \/ \E c \in Cancellers : CancelFault(c)
               \/ UNCHANGED vars
        BY <2>1, <2>3, <2>8 DEF Discard, CancelFault, vars, broker
    <2> QED
        BY <2>1, <2>2, <2>5, <2>6, <2>7, <2>8, StepKinds
<1> QED
    BY <1>1, <1>2 DEF OnlyPublished

\* A file goes with the end of a delivery, and that is after its task's.
LEMMA OutliveStep ==
    ASSUME TypeOK, Grows, \A w \in Workers : EndTold(w), InputsOutlive, [Next]_vars
    PROVE  InputsOutlive'
<1> SUFFICES ASSUME NEW t \in Tasks PROVE t \in staged' \/ Settled(t)'
    BY DEF InputsOutlive, Settled
<1>1. Settled(t) => Settled(t)'
    BY SettledStays
<1>2. ASSUME NEW w \in Workers, Cleanup(w) PROVE t \in staged' \/ Settled(t)'
    <2>1. Settled(worker[w].task) /\ staged' = staged \ {worker[w].task}
        BY <1>2 DEF Cleanup, EndTold, Ending
    <2> QED
        BY <1>1, <2>1 DEF InputsOutlive
<1> QED
    BY <1>1, <1>2, FileWriters DEF InputsOutlive

LEMMA EndInvariant == Spec => [](TypeOK /\ TruthInv /\ EndInv)
<1>1. Init => EndInv
    BY DEF Init, EndInv, EndTold, Ending, OnlyPublished, InputsOutlive, Idle
<1>2. TypeOK /\ TruthInv /\ EndInv /\ [Next]_vars => EndInv'
    <2> SUFFICES ASSUME TypeOK, TruthInv, EndInv, [Next]_vars PROVE EndInv'
        OBVIOUS
    <2>1. Grows
        BY GrowsStep
    <2>2. \A v \in Workers : EndTold(v)'
        BY <2>1, EndsToldStep DEF EndInv
    <2>3. OnlyPublished' /\ InputsOutlive'
        BY <2>1, PublishedStep, OutliveStep DEF EndInv
    <2> QED
        BY <2>2, <2>3 DEF EndInv
<1> QED
    BY <1>1, <1>2, TypeCorrect, TruthInvariant, PTL DEF Spec

\* The input of a task is there until a status that ends the task has been
\* written, however its deliveries and its cancellation interleave: no
\* delivery deletes what another has yet to need.
THEOREM InputsOutliveTheirTasks == Spec => []InputsOutlive
<1>1. EndInv => InputsOutlive
    BY DEF EndInv
<1> QED
    BY <1>1, EndInvariant, PTL

\* A task as Submission has it.
AsSubmitted(t) ==
    IF ~Settled(t) THEN "open" ELSE IF t \in staged THEN "ended" ELSE "dropped"

\* EndTask and DropInput of Submission, DropInput with its guard that the
\* message of the task has been sent.
Ends(t) == AsSubmitted(t) = "open" /\ AsSubmitted(t)' = "ended"
Drops(t) ==
    /\ AsSubmitted(t) = "ended" /\ AsSubmitted(t)' = "dropped"
    /\ published[t] > 0
    /\ staged' = staged \ {t}

Works == \A t \in Tasks : UNCHANGED AsSubmitted(t) \/ Ends(t) \/ Drops(t)

\* Workers and cancel requests are to a submission what Submission takes them
\* for: whatever they do, a task ends once, and its input goes after that and
\* only once a message for it was out.  (Its StrandTask is about a file
\* that was not there when the message came, which TaskExecution leaves out.)
THEOREM WorkersAsSubmitted == Spec => [][Works]_vars
<1>1. TypeOK /\ TruthInv /\ EndInv /\ [Next]_vars => Works
    <2> SUFFICES ASSUME TypeOK, TruthInv, EndInv, [Next]_vars, NEW t \in Tasks
                 PROVE  UNCHANGED AsSubmitted(t) \/ Ends(t) \/ Drops(t)
        BY DEF Works
    <2>1. Settled(t) => Settled(t)'
        BY GrowsStep, SettledStays
    <2>2. t \in staged \/ Settled(t)
        BY DEF EndInv, InputsOutlive
    <2>3. CASE staged' = staged
        BY <2>1, <2>2, <2>3 DEF AsSubmitted, Ends
    <2>4. ASSUME NEW w \in Workers, Cleanup(w)
          PROVE  UNCHANGED AsSubmitted(t) \/ Ends(t) \/ Drops(t)
        <3> DEFINE u == worker[w].task
        <3>1. Settled(u) /\ published[u] > 0 /\ staged' = staged \ {u} /\ reached' = reached
            BY <2>4 DEF Cleanup, EndInv, EndTold, Ending, OnlyPublished, history
        <3>2. Settled(t)' <=> Settled(t)
            BY <3>1 DEF Settled
        <3> HIDE DEF u
        <3>3. CASE t = u /\ t \in staged
            BY <3>1, <3>2, <3>3 DEF AsSubmitted, Drops
        <3>4. CASE t # u \/ t \notin staged
            <4>1. t \in staged' <=> t \in staged
                BY <3>1, <3>4
            <4> QED
                BY <3>2, <4>1 DEF AsSubmitted
        <3> QED
            BY <3>3, <3>4
    <2> QED
        BY <2>3, <2>4, FileWriters
<1> QED
    BY <1>1, EndInvariant, PTL DEF Spec

=============================================================================
