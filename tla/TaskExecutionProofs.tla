------------------------- MODULE TaskExecutionProofs -------------------------
(***************************************************************************)
(* Theorems about TaskExecution, for every set of tasks, workers and       *)
(* cancel requests and for every value of the bounds.                      *)
(***************************************************************************)
EXTENDS TaskExecution, TLAPS

-----------------------------------------------------------------------------
(* How the helpers move a worker or a cancel request.                      *)

\* A worker in a stage that goes to another stage keeps its task.
LEMMA GotoOK ==
    ASSUME WorkersOK, NEW w \in Workers, worker[w].pc # "idle",
           NEW pc \in Stage, Goto(w, pc)
    PROVE  WorkersOK'
<1>1. worker[w] \in WorkerState /\ worker[w].task \in Tasks
    BY DEF WorkersOK
<1>2. [worker[w] EXCEPT !.pc = pc, !.checked = FALSE] \in WorkerState
    BY <1>1 DEF WorkerState
<1>3. worker' = [worker EXCEPT ![w] = [worker[w] EXCEPT !.pc = pc, !.checked = FALSE]]
    BY DEF Goto, WorkersOK
<1> QED
    BY <1>1, <1>2, <1>3 DEF WorkersOK

\* The transition check changes nothing else.
LEMMA CheckedOK ==
    ASSUME WorkersOK, NEW w \in Workers,
           worker' = [worker EXCEPT ![w].checked = TRUE]
    PROVE  WorkersOK'
<1>1. worker[w] \in WorkerState
    BY DEF WorkersOK
<1>2. [worker[w] EXCEPT !.checked = TRUE] \in WorkerState
    BY <1>1 DEF WorkerState
<1> QED
    BY <1>1, <1>2 DEF WorkersOK

\* A worker that becomes idle holds no task.
LEMMA IdleOK ==
    ASSUME WorkersOK, ConstantsAssumption, NEW w \in Workers,
           worker' = [worker EXCEPT ![w] = Idle]
    PROVE  WorkersOK'
<1>1. Idle \in WorkerState
    BY DEF Idle, WorkerState, Status, ConstantsAssumption
<1> QED
    BY <1>1 DEF WorkersOK, Idle

\* Every stage has a handler, or none.
LEMMA HandlerOK ==
    ASSUME NEW pc \in Stage, NEW back \in {"mark_failed", "ev_failed"}
    PROVE  Handler(pc, back) \in Stage \cup {"idle"}
BY DEF Handler, Stage, TaskStage, EventStage, SessionStage, ReadStage

\* An exception leaves a worker in its handler or idle.
LEMMA RaiseOK ==
    ASSUME WorkersOK, ConstantsAssumption, abandoned \in SUBSET Tasks,
           NEW w \in Workers, worker[w].pc # "idle", Raise(w)
    PROVE  WorkersOK' /\ abandoned' \in SUBSET Tasks
<1> DEFINE pc == worker[w].pc
           handler == Handler(pc, worker[w].back)
<1>1. worker[w] \in WorkerState /\ worker[w].task \in Tasks
    BY DEF WorkersOK
<1>2. pc \in Stage /\ worker[w].back \in {"mark_failed", "ev_failed"}
    BY <1>1 DEF WorkerState
<1>3. handler \in Stage \cup {"idle"}
    BY <1>2, HandlerOK
<1>4. CASE handler = "idle"
    BY <1>1, <1>4, IdleOK DEF Raise
<1>5. CASE handler # "idle"
    <2> HIDE DEF handler
    <2>1. WorkersOK'
        BY <1>1, <1>2, <1>3, <1>5 DEF Raise, WorkersOK, WorkerState, handler
    <2> QED
        BY <2>1, <1>5 DEF Raise, handler
<1> QED
    BY <1>4, <1>5

\* What a status change, an event or an INSERT is followed by.
LEMMA AfterOK ==
    ASSUME NEW wk \in WorkerState,
           wk.pc \in TaskStage \cup SessionStage \cup EventStage
    PROVE  After(wk) \in Stage
BY DEF After, WorkerState, Stage, TaskStage, SessionStage, EventStage, ReadStage

LEMMA TargetOK == \A pc : Target(pc) \in Status
BY DEF Target, Status

\* The transition check of a cancel request changes nothing else.
LEMMA CancelCheckedOK ==
    ASSUME CancellersOK, NEW c \in Cancellers,
           canceller' = [canceller EXCEPT ![c].checked = TRUE]
    PROVE  CancellersOK'
<1>1. canceller[c] \in CancellerState
    BY DEF CancellersOK
<1>2. [canceller[c] EXCEPT !.checked = TRUE] \in CancellerState
    BY <1>1 DEF CancellerState
<1> QED
    BY <1>1, <1>2 DEF CancellersOK

\* A cancel request that goes to another stage keeps its task.
LEMMA StepOK ==
    ASSUME CancellersOK, NEW c \in Cancellers,
           NEW pc \in CancelStage \cup {"idle", "done", "error"},
           pc \in CancelStage \ {"pick"} => canceller[c].task \in Tasks,
           Step(c, pc)
    PROVE  CancellersOK'
<1>1. canceller[c] \in CancellerState
    BY DEF CancellersOK
<1>2. [canceller[c] EXCEPT !.pc = pc, !.checked = FALSE] \in CancellerState
    BY <1>1 DEF CancellerState
<1>3. canceller' = [canceller EXCEPT ![c] = [canceller[c] EXCEPT !.pc = pc, !.checked = FALSE]]
    BY DEF Step, CancellersOK
<1> QED
    BY <1>1, <1>2, <1>3 DEF CancellersOK, CancellerState

-----------------------------------------------------------------------------
(* Who changes what.                                                       *)

LEMMA WorkerFrame ==
    ASSUME NEW w \in Workers, WorkerStep(w)
    PROVE  /\ UNCHANGED <<published, revoked, canceller, bounds>>
           /\ task' = task \/ Attach(w) \/ WriteTask(w)
           /\ staged' = staged \/ Cleanup(w)
           /\ queue' = queue \/ Receive(w) \/ ScheduleRetry(w)
           /\ abandoned' = abandoned \/ LoadInput(w) \/ EnsureTask(w) \/ EnsureSession(w)
<1> USE DEF WorkerStep, rows, broker, history, bounds
<1>1. CASE \/ Receive(w) \/ CheckCancelled(w) \/ TakeSnapshot(w) \/ LoadSession(w)
           \/ CreateSession(w) \/ RunAgent(w) \/ WriteSession(w) \/ AppendEvent(w)
    BY <1>1 DEF Receive, CheckCancelled, TakeSnapshot, LoadSession, CreateSession,
                RunAgent, WriteSession, AppendEvent
<1>2. CASE Attach(w) \/ WriteTask(w)
    BY <1>2 DEF Attach, WriteTask
<1>3. CASE LoadInput(w) \/ EnsureTask(w) \/ EnsureSession(w)
    BY <1>3 DEF LoadInput, EnsureTask, EnsureSession
<1>4. CASE SyncTask(w) \/ SyncSession(w) \/ ScheduleRetry(w) \/ FinalRead(w) \/ Cleanup(w)
    BY <1>4 DEF SyncTask, SyncSession, ScheduleRetry, FinalRead, Cleanup
<1> QED
    BY <1>1, <1>2, <1>3, <1>4

LEMMA CancelFrame ==
    ASSUME NEW c \in Cancellers, CancelStep(c)
    PROVE  /\ UNCHANGED <<staged, queue, published, worker, abandoned, bounds>>
           /\ task' = task \/ WriteCancelled(c)
           /\ revoked' = revoked \/ Revoke(c)
<1> USE DEF CancelStep, rows, broker, history, bounds
<1>1. CASE CancelTask(c) \/ CancelBatch(c) \/ Pick(c)
    BY <1>1 DEF CancelTask, CancelBatch, Pick
<1>2. CASE \/ EnsureCancelled(c) \/ WriteCancelled(c) \/ EnsureCancelSession(c)
           \/ WriteCancelSession(c)
    BY <1>2 DEF EnsureCancelled, WriteCancelled, EnsureCancelSession, WriteCancelSession
<1>3. CASE AppendCancelEvent(c) \/ Revoke(c)
    BY <1>3 DEF AppendCancelEvent, Revoke
<1> QED
    BY <1>1, <1>2, <1>3

\* The broker's steps and the failures leave the rows and files alone.
LEMMA BrokerFrame ==
    ASSUME \/ \E t \in Tasks : Publish(t)
           \/ \E m \in Message : Discard(m)
           \/ \E w \in Workers : Fault(w) \/ Crash(w) \/ Redeliver(w) \/ Kill(w)
           \/ \E c \in Cancellers : CancelFault(c)
           \/ UNCHANGED vars
    PROVE  /\ UNCHANGED <<task, session, staged, revoked>>
           /\ published' = published \/ \E t \in Tasks : Publish(t)
           /\ abandoned' = abandoned \/ \E w \in Workers : Fault(w)
           /\ \/ faults' = faults
              \/ \E w \in Workers : Fault(w)
              \/ \E c \in Cancellers : CancelFault(c)
           /\ \/ queue' = queue
              \/ \E t \in Tasks : Publish(t)
              \/ \E m \in Message : Discard(m)
              \/ \E w \in Workers : Crash(w) \/ Redeliver(w)
<1> USE DEF rows, broker, history, bounds
<1>1. CASE (\E t \in Tasks : Publish(t)) \/ (\E m \in Message : Discard(m))
    BY <1>1 DEF Publish, Discard
<1>2. CASE \E w \in Workers : Fault(w) \/ Crash(w) \/ Redeliver(w) \/ Kill(w)
    BY <1>2 DEF Fault, Crash, Redeliver, Kill
<1>3. CASE (\E c \in Cancellers : CancelFault(c)) \/ UNCHANGED vars
    BY <1>3 DEF CancelFault, vars
<1> QED
    BY <1>1, <1>2, <1>3

\* A step is one of a worker, of a cancel request, or one of the others.
LEMMA StepKinds ==
    ASSUME [Next]_vars
    PROVE  \/ \E w \in Workers : WorkerStep(w)
           \/ \E c \in Cancellers : CancelStep(c)
           \/ \E t \in Tasks : Publish(t)
           \/ \E m \in Message : Discard(m)
           \/ \E w \in Workers : Fault(w) \/ Crash(w) \/ Redeliver(w) \/ Kill(w)
           \/ \E c \in Cancellers : CancelFault(c)
           \/ UNCHANGED vars
BY DEF Next

\* The steps that write a task.
LEMMA TaskWriters ==
    ASSUME [Next]_vars
    PROVE  \/ task' = task
           \/ \E w \in Workers : Attach(w) \/ WriteTask(w)
           \/ \E c \in Cancellers : WriteCancelled(c)
<1>1. ASSUME NEW w \in Workers, WorkerStep(w) PROVE task' = task \/ Attach(w) \/ WriteTask(w)
    BY <1>1, WorkerFrame
<1>2. ASSUME NEW c \in Cancellers, CancelStep(c) PROVE task' = task \/ WriteCancelled(c)
    BY <1>2, CancelFrame
<1> QED
    BY <1>1, <1>2, StepKinds, BrokerFrame

\* The steps that delete a file.
LEMMA FileWriters ==
    ASSUME [Next]_vars
    PROVE  staged' = staged \/ \E w \in Workers : Cleanup(w)
<1>1. ASSUME NEW w \in Workers, WorkerStep(w) PROVE staged' = staged \/ Cleanup(w)
    BY <1>1, WorkerFrame
<1>2. ASSUME NEW c \in Cancellers, CancelStep(c) PROVE staged' = staged
    BY <1>2, CancelFrame
<1> QED
    BY <1>1, <1>2, StepKinds, BrokerFrame

\* A worker is left alone by the steps of the others.
LEMMA WorkersApart ==
    ASSUME TypeOK, NEW v \in Workers, NEW w \in Workers, v # w,
           WorkerStep(w) \/ Fault(w) \/ Crash(w) \/ Redeliver(w) \/ Kill(w)
    PROVE  worker'[v] = worker[v]
BY DEF TypeOK, WorkersOK, WorkerStep, Receive, CheckCancelled, LoadInput, TakeSnapshot,
       LoadSession, CreateSession, Attach, RunAgent, EnsureTask, WriteTask,
       EnsureSession, WriteSession, AppendEvent, SyncTask, SyncSession, ScheduleRetry,
       FinalRead, Cleanup, Fault, Crash, Redeliver, Kill, Goto, Raise

\* A worker that is at work keeps its task, whatever it does but receive one.
LEMMA TaskKept ==
    ASSUME TypeOK, NEW w \in Workers, ~Receive(w), worker'[w].pc # "idle",
           WorkerStep(w) \/ Fault(w) \/ Crash(w) \/ Redeliver(w) \/ Kill(w)
    PROVE  worker[w].pc # "idle" /\ worker'[w].task = worker[w].task
<1> USE DEF TypeOK, WorkersOK, WorkerState
<1>1. CASE CheckCancelled(w) \/ LoadSession(w) \/ CreateSession(w) \/ Attach(w) \/ RunAgent(w)
    BY <1>1 DEF CheckCancelled, LoadSession, CreateSession, Attach, RunAgent, Goto
<1>2. CASE WriteTask(w) \/ WriteSession(w) \/ AppendEvent(w) \/ SyncTask(w) \/ SyncSession(w)
    BY <1>2 DEF WriteTask, WriteSession, AppendEvent, SyncTask, SyncSession, Goto,
                TaskStage, SessionStage, EventStage
<1>3. CASE TakeSnapshot(w) \/ FinalRead(w)
    BY <1>3 DEF TakeSnapshot, FinalRead
<1>4. CASE ScheduleRetry(w) \/ Cleanup(w) \/ Crash(w) \/ Redeliver(w) \/ Kill(w)
    <2>1. "idle" = Idle.pc
        BY DEF Idle
    <2> QED
        BY <1>4, <2>1 DEF ScheduleRetry, Cleanup, Crash, Redeliver, Kill, Goto
<1>5. CASE Raise(w) /\ worker[w].pc # "idle"
    BY <1>5 DEF Raise, Idle
<1>6. CASE LoadInput(w) \/ EnsureTask(w) \/ EnsureSession(w) \/ Fault(w)
    BY <1>5, <1>6 DEF LoadInput, EnsureTask, EnsureSession, Fault, Goto, TaskStage, SessionStage
<1> QED
    BY <1>1, <1>2, <1>3, <1>4, <1>6 DEF WorkerStep

\* A cancel request is left alone by the others, too.
LEMMA CancellersApart ==
    ASSUME TypeOK, NEW d \in Cancellers, NEW c \in Cancellers, c # d,
           CancelStep(c) \/ CancelFault(c)
    PROVE  canceller'[d] = canceller[d]
BY DEF TypeOK, CancellersOK, CancelStep, CancelTask, CancelBatch, Pick, EnsureCancelled,
       WriteCancelled, EnsureCancelSession, WriteCancelSession, AppendCancelEvent, Revoke,
       CancelFault, Step

-----------------------------------------------------------------------------
(* Type correctness.                                                       *)

LEMMA InitTypeOK == ConstantsAssumption /\ Init => TypeOK
<1> SUFFICES ASSUME ConstantsAssumption, Init PROVE TypeOK
    OBVIOUS
<1>1. RowsOK /\ BrokerOK /\ HistoryOK
    BY DEF Init, RowsOK, BrokerOK, HistoryOK, TaskRow, Status
<1>2. WorkersOK
    BY DEF Init, WorkersOK, WorkerState, Idle, Status, ConstantsAssumption
<1>3. task \in [Tasks -> TaskRow]
    BY <1>1 DEF RowsOK
<1>4. CancellersOK
    BY <1>3 DEF Init, CancellersOK, CancellerState, CancelStage
<1> QED
    BY <1>1, <1>2, <1>4 DEF TypeOK

LEMMA TypeStep == TypeOK /\ [Next]_vars => TypeOK'
<1> SUFFICES ASSUME TypeOK, [Next]_vars PROVE TypeOK'
    OBVIOUS
<1> USE ConstantsAssumption DEF TypeOK, rows, broker, history, bounds
<1>1. ASSUME NEW t \in Tasks, Publish(t) PROVE TypeOK'
    <2>1. BrokerOK'
        BY <1>1 DEF Publish, BrokerOK, Message
    <2> QED
        BY <1>1, <2>1 DEF Publish, RowsOK, WorkersOK, CancellersOK, HistoryOK
<1>2. ASSUME NEW m \in Message, Discard(m) PROVE TypeOK'
    <2>1. BrokerOK'
        BY <1>2 DEF Discard, BrokerOK
    <2> QED
        BY <1>2, <2>1 DEF Discard, RowsOK, WorkersOK, CancellersOK, HistoryOK
<1>3. ASSUME NEW w \in Workers, WorkerStep(w) PROVE TypeOK'
    <2>w. worker[w] \in WorkerState /\ (worker[w].pc # "idle" => worker[w].task \in Tasks)
        BY DEF WorkersOK
    <2>a. CASE Receive(w)
        <3>1. PICK m \in Message :
                /\ queue[m] > 0
                /\ queue' = [queue EXCEPT ![m] = @ - 1]
                /\ worker' = [worker EXCEPT ![w] =
                        [Idle EXCEPT !.pc = "check", !.task = m[1], !.retries = m[2]]]
            BY <2>a DEF Receive
        <3>2. BrokerOK'
            BY <2>a, <3>1 DEF Receive, BrokerOK
        <3>3. m[1] \in Tasks /\ m[2] \in 0 .. MaxRetries
            BY DEF Message
        <3>4. [Idle EXCEPT !.pc = "check", !.task = m[1], !.retries = m[2]] \in WorkerState
            BY <3>3 DEF Idle, WorkerState, Stage, ReadStage, Status
        <3>5. WorkersOK'
            BY <3>1, <3>3, <3>4 DEF WorkersOK, Idle
        <3> QED
            BY <2>a, <3>2, <3>5 DEF Receive, RowsOK, CancellersOK, HistoryOK
    <2>b. CASE CheckCancelled(w)
        <3>1. WorkersOK'
            BY <2>b, GotoOK DEF CheckCancelled, Stage, ReadStage
        <3> QED
            BY <2>b, <3>1 DEF CheckCancelled, RowsOK, BrokerOK, CancellersOK, HistoryOK
    <2>c. CASE LoadInput(w)
        <3>1. WorkersOK' /\ abandoned' \in SUBSET Tasks
            BY <2>c, GotoOK, RaiseOK DEF LoadInput, Stage, ReadStage, HistoryOK
        <3> QED
            BY <2>c, <3>1 DEF LoadInput, RowsOK, BrokerOK, CancellersOK, HistoryOK
    <2>d. CASE TakeSnapshot(w)
        <3>1. task[worker[w].task] \in TaskRow
            BY <2>d, <2>w DEF TakeSnapshot, RowsOK
        <3>2. WorkersOK'
            BY <2>d, <2>w, <3>1 DEF TakeSnapshot, TaskRow, WorkersOK, WorkerState, Stage, ReadStage
        <3> QED
            BY <2>d, <3>2 DEF TakeSnapshot, RowsOK, BrokerOK, CancellersOK, HistoryOK
    <2>e. CASE LoadSession(w)
        <3>1. WorkersOK'
            BY <2>e, GotoOK DEF LoadSession, Stage, ReadStage
        <3> QED
            BY <2>e, <3>1 DEF LoadSession, RowsOK, BrokerOK, CancellersOK, HistoryOK
    <2>f. CASE CreateSession(w)
        <3>1. WorkersOK'
            BY <2>f, GotoOK DEF CreateSession, Stage, ReadStage
        <3>2. RowsOK'
            BY <2>f, <2>w DEF CreateSession, RowsOK, Status
        <3> QED
            BY <2>f, <3>1, <3>2 DEF CreateSession, BrokerOK, CancellersOK, HistoryOK
    <2>g. CASE Attach(w)
        <3>1. WorkersOK'
            BY <2>g, GotoOK DEF Attach, Stage, ReadStage, TaskStage
        <3>2. RowsOK'
            <4> DEFINE row == [task[worker[w].task] EXCEPT !.linked = TRUE]
            <4>1. worker[w].task \in Tasks /\ task[worker[w].task] \in TaskRow
                BY <2>g, <2>w DEF Attach, RowsOK
            <4>2. row \in TaskRow
                BY <4>1 DEF TaskRow
            <4>3. task' = [task EXCEPT ![worker[w].task] = row]
                BY <2>g, <4>1 DEF Attach, RowsOK
            <4>4. task' \in [Tasks -> TaskRow]
                BY <4>1, <4>2, <4>3 DEF RowsOK
            <4> HIDE DEF row
            <4> QED
                BY <2>g, <4>4 DEF Attach, RowsOK
        <3> QED
            BY <2>g, <3>1, <3>2 DEF Attach, BrokerOK, CancellersOK, HistoryOK
    <2>h. CASE RunAgent(w)
        <3>1. WorkersOK'
            BY <2>h, GotoOK DEF RunAgent, Stage, ReadStage, TaskStage
        <3> QED
            BY <2>h, <3>1 DEF RunAgent, RowsOK, BrokerOK, CancellersOK, HistoryOK
    <2>i. CASE EnsureTask(w)
        <3>0. worker[w].pc # "idle"
            BY <2>i DEF EnsureTask, TaskStage
        <3>1. WorkersOK' /\ abandoned' \in SUBSET Tasks
            <4>1. CASE CanMove(task[worker[w].task].status, Target(worker[w].pc))
                <5>1. worker' = [worker EXCEPT ![w].checked = TRUE] /\ abandoned' = abandoned
                    BY <2>i, <4>1 DEF EnsureTask
                <5> QED
                    BY <5>1, CheckedOK DEF HistoryOK
            <4>2. CASE ~CanMove(task[worker[w].task].status, Target(worker[w].pc))
                BY <2>i, <3>0, <4>2, RaiseOK DEF EnsureTask, HistoryOK
            <4> QED
                BY <4>1, <4>2
        <3> QED
            BY <2>i, <3>1 DEF EnsureTask, RowsOK, BrokerOK, CancellersOK, HistoryOK
    <2>j. CASE WriteTask(w)
        <3>0. worker[w].pc # "idle"
            BY <2>j DEF WriteTask, TaskStage
        <3>1. WorkersOK'
            BY <2>j, <2>w, <3>0, GotoOK, AfterOK DEF WriteTask
        <3>2. Target(worker[w].pc) \in Status
            BY TargetOK
        <3>3. RowsOK'
            BY <2>j, <2>w, <3>0, <3>2 DEF WriteTask, RowsOK, TaskRow
        <3>4. HistoryOK'
            BY <2>j, <2>w, <3>0, <3>2 DEF WriteTask, HistoryOK
        <3> QED
            BY <2>j, <3>1, <3>3, <3>4 DEF WriteTask, BrokerOK, CancellersOK
    <2>k. CASE EnsureSession(w)
        <3>0. worker[w].pc # "idle"
            BY <2>k DEF EnsureSession, SessionStage
        <3>1. WorkersOK' /\ abandoned' \in SUBSET Tasks
            <4>1. CASE CanMove(session[worker[w].task], Target(worker[w].pc))
                <5>1. worker' = [worker EXCEPT ![w].checked = TRUE] /\ abandoned' = abandoned
                    BY <2>k, <4>1 DEF EnsureSession
                <5> QED
                    BY <5>1, CheckedOK DEF HistoryOK
            <4>2. CASE ~CanMove(session[worker[w].task], Target(worker[w].pc))
                BY <2>k, <3>0, <4>2, RaiseOK DEF EnsureSession, HistoryOK
            <4> QED
                BY <4>1, <4>2
        <3> QED
            BY <2>k, <3>1 DEF EnsureSession, RowsOK, BrokerOK, CancellersOK, HistoryOK
    <2>l. CASE WriteSession(w)
        <3>0. worker[w].pc # "idle"
            BY <2>l DEF WriteSession, SessionStage
        <3>1. WorkersOK'
            BY <2>l, <2>w, <3>0, GotoOK, AfterOK DEF WriteSession
        <3>2. RowsOK'
            BY <2>l, <2>w, <3>0, TargetOK DEF WriteSession, RowsOK
        <3> QED
            BY <2>l, <3>1, <3>2 DEF WriteSession, BrokerOK, CancellersOK, HistoryOK
    <2>m. CASE AppendEvent(w)
        <3>0. worker[w].pc # "idle"
            BY <2>m DEF AppendEvent, EventStage
        <3>1. WorkersOK'
            BY <2>m, <2>w, <3>0, GotoOK, AfterOK DEF AppendEvent
        <3>2. Event(worker[w].pc) \in {"TASK_STARTED", "TASK_COMPLETED", "TASK_FAILED"}
            BY DEF Event
        <3>3. RowsOK'
            BY <2>m, <2>w, <3>0, <3>2 DEF AppendEvent, RowsOK
        <3> QED
            BY <2>m, <3>1, <3>3 DEF AppendEvent, BrokerOK, CancellersOK, HistoryOK
    <2>n. CASE SyncTask(w)
        <3>1. WorkersOK'
            BY <2>n, GotoOK DEF SyncTask, Stage, ReadStage, TaskStage
        <3> QED
            BY <2>n, <3>1 DEF SyncTask, RowsOK, BrokerOK, CancellersOK, HistoryOK
    <2>o. CASE SyncSession(w)
        <3>1. WorkersOK'
            BY <2>o, GotoOK DEF SyncSession, Stage, SessionStage, EventStage
        <3> QED
            BY <2>o, <3>1 DEF SyncSession, RowsOK, BrokerOK, CancellersOK, HistoryOK
    <2>p. CASE ScheduleRetry(w)
        <3>1. CASE worker[w].retries + 1 > MaxRetries
            <4>1. WorkersOK'
                BY <2>p, <3>1, GotoOK DEF ScheduleRetry, Stage, ReadStage
            <4> QED
                BY <2>p, <3>1, <4>1 DEF ScheduleRetry, RowsOK, BrokerOK, CancellersOK, HistoryOK
        <3>2. CASE ~(worker[w].retries + 1 > MaxRetries)
            <4>1. WorkersOK'
                BY <2>p, <3>2, IdleOK DEF ScheduleRetry
            <4>2. <<worker[w].task, worker[w].retries + 1>> \in Message
                BY <2>p, <2>w, <3>2 DEF ScheduleRetry, Message, WorkerState, ConstantsAssumption
            <4>3. BrokerOK'
                BY <2>p, <3>2, <4>2 DEF ScheduleRetry, BrokerOK
            <4>4. RowsOK'
                BY <2>p, <2>w, <3>2 DEF ScheduleRetry, RowsOK
            <4> QED
                BY <2>p, <3>2, <4>1, <4>3, <4>4 DEF ScheduleRetry, CancellersOK, HistoryOK
        <3> QED
            BY <3>1, <3>2
    <2>q. CASE FinalRead(w)
        <3>1. task[worker[w].task] \in TaskRow
            BY <2>q, <2>w DEF FinalRead, RowsOK
        <3>2. WorkersOK'
            <4> DEFINE pc == IF task[worker[w].task].status \in Terminal
                             THEN "cleanup" ELSE "final_failed"
                       next == [worker[w] EXCEPT !.linked = task[worker[w].task].linked,
                                                 !.checked = FALSE, !.pc = pc]
            <4>1. pc \in Stage /\ task[worker[w].task].linked \in BOOLEAN
                BY <3>1 DEF TaskRow, Stage, ReadStage, TaskStage
            <4>2. worker[w] \in WorkerState /\ worker[w].task \in Tasks
                BY <2>q, <2>w DEF FinalRead
            <4>3. worker' = [worker EXCEPT ![w] = next]
                BY <2>q DEF FinalRead, WorkersOK
            <4> HIDE DEF pc
            <4>4. next \in WorkerState /\ next.task \in Tasks
                BY <4>1, <4>2 DEF WorkerState
            <4> HIDE DEF next
            <4> QED
                BY <4>3, <4>4 DEF WorkersOK
        <3> QED
            BY <2>q, <3>2 DEF FinalRead, RowsOK, BrokerOK, CancellersOK, HistoryOK
    <2>r. CASE Cleanup(w)
        <3>1. WorkersOK'
            BY <2>r, IdleOK DEF Cleanup
        <3> QED
            BY <2>r, <3>1 DEF Cleanup, RowsOK, BrokerOK, CancellersOK, HistoryOK
    <2> QED
        BY <1>3, <2>a, <2>b, <2>c, <2>d, <2>e, <2>f, <2>g, <2>h, <2>i, <2>j, <2>k,
           <2>l, <2>m, <2>n, <2>o, <2>p, <2>q, <2>r DEF WorkerStep
<1>4. ASSUME NEW w \in Workers, Fault(w) PROVE TypeOK'
    <2>1. WorkersOK' /\ abandoned' \in SUBSET Tasks
        BY <1>4, RaiseOK DEF Fault, HistoryOK
    <2> QED
        BY <1>4, <2>1 DEF Fault, RowsOK, BrokerOK, CancellersOK, HistoryOK
<1>5. ASSUME NEW w \in Workers, Crash(w) \/ Redeliver(w) PROVE TypeOK'
    <2>1. WorkersOK'
        BY <1>5, IdleOK DEF Crash, Redeliver, WorkersOK
    <2>2. <<worker[w].task, worker[w].retries>> \in Message
        BY <1>5 DEF Crash, Redeliver, WorkersOK, WorkerState, Message
    <2>3. BrokerOK'
        BY <1>5, <2>2 DEF Crash, Redeliver, BrokerOK
    <2> QED
        BY <1>5, <2>1, <2>3 DEF Crash, Redeliver, RowsOK, CancellersOK, HistoryOK
<1>6. ASSUME NEW w \in Workers, Kill(w) PROVE TypeOK'
    <2>1. WorkersOK'
        BY <1>6, IdleOK DEF Kill
    <2> QED
        BY <1>6, <2>1 DEF Kill, RowsOK, BrokerOK, CancellersOK, HistoryOK
<1>7. ASSUME NEW c \in Cancellers, CancelStep(c) PROVE TypeOK'
    <2>c. canceller[c] \in CancellerState
          /\ (canceller[c].pc \in CancelStage \ {"pick"} => canceller[c].task \in Tasks)
        BY DEF CancellersOK
    <2>t. task \in [Tasks -> TaskRow]
        BY DEF RowsOK
    <2>a. CASE CancelTask(c)
        <3>1. CancellersOK'
            BY <2>a, <2>c, <2>t DEF CancelTask, CancellersOK, CancellerState, CancelStage
        <3> QED
            BY <2>a, <3>1 DEF CancelTask, RowsOK, BrokerOK, WorkersOK, HistoryOK
    <2>b. CASE CancelBatch(c)
        <3>1. CancellersOK'
            BY <2>b, <2>c, <2>t
            DEF CancelBatch, CancellersOK, CancellerState, CancelStage, ConstantsAssumption
        <3> QED
            BY <2>b, <3>1 DEF CancelBatch, RowsOK, BrokerOK, WorkersOK, HistoryOK
    <2>d. CASE Pick(c)
        <3>1. CancellersOK'
            <4>1. CASE canceller[c].todo = {} /\ Step(c, "done")
                BY <4>1, <2>d, StepOK DEF Pick, CancelStage
            <4>2. ASSUME NEW t \in canceller[c].todo,
                         canceller' = [canceller EXCEPT
                            ![c].todo = @ \ {t},
                            ![c].task = t,
                            ![c].pc = IF canceller[c].view[t].status \in Terminal
                                      THEN "pick" ELSE "cancel"]
                  PROVE  CancellersOK'
                <5> DEFINE next == [canceller[c] EXCEPT
                            !.todo = @ \ {t}, !.task = t,
                            !.pc = IF canceller[c].view[t].status \in Terminal
                                   THEN "pick" ELSE "cancel"]
                <5>1. t \in Tasks /\ canceller[c].todo \ {t} \in SUBSET Tasks
                    BY <2>c DEF CancellerState
                <5>2. next \in CancellerState /\ next.task \in Tasks
                    BY <5>1, <2>c DEF CancellerState, CancelStage
                <5>3. canceller' = [canceller EXCEPT ![c] = next]
                    BY <4>2 DEF CancellersOK
                <5> HIDE DEF next
                <5> QED
                    BY <5>2, <5>3 DEF CancellersOK
            <4> QED
                BY <2>d, <4>1, <4>2 DEF Pick
        <3> QED
            BY <2>d, <3>1 DEF Pick, RowsOK, BrokerOK, WorkersOK, HistoryOK
    <2>e. CASE EnsureCancelled(c)
        <3>1. CancellersOK'
            <4>1. CASE CanMove(task[canceller[c].task].status, "cancelled")
                BY <2>e, <4>1, CancelCheckedOK DEF EnsureCancelled
            <4>2. CASE ~CanMove(task[canceller[c].task].status, "cancelled")
                BY <2>e, <4>2, StepOK DEF EnsureCancelled, CancelHandler, CancelStage
            <4> QED
                BY <4>1, <4>2
        <3> QED
            BY <2>e, <3>1 DEF EnsureCancelled, RowsOK, BrokerOK, WorkersOK, HistoryOK
    <2>f. CASE WriteCancelled(c)
        <3>0. canceller[c].task \in Tasks
            BY <2>f, <2>c DEF WriteCancelled, CancelStage
        <3>1. CancellersOK'
            BY <2>f, <3>0, StepOK DEF WriteCancelled, CancelStage
        <3>2. RowsOK'
            BY <2>f, <3>0 DEF WriteCancelled, RowsOK, TaskRow, Status
        <3>3. HistoryOK'
            BY <2>f, <3>0 DEF WriteCancelled, HistoryOK, Status
        <3> QED
            BY <2>f, <3>1, <3>2, <3>3 DEF WriteCancelled, BrokerOK, WorkersOK
    <2>g. CASE EnsureCancelSession(c)
        <3>1. CancellersOK'
            <4>0. canceller[c].task \in Tasks
                BY <2>g, <2>c DEF EnsureCancelSession, CancelStage
            <4>1. CASE CanMove(session[canceller[c].task], SessionTarget(canceller[c].pc))
                BY <2>g, <4>1, CancelCheckedOK DEF EnsureCancelSession
            <4>2. CASE ~CanMove(session[canceller[c].task], SessionTarget(canceller[c].pc))
                BY <2>g, <4>0, <4>2, StepOK DEF EnsureCancelSession, CancelHandler, CancelStage
            <4> QED
                BY <4>1, <4>2
        <3> QED
            BY <2>g, <3>1 DEF EnsureCancelSession, RowsOK, BrokerOK, WorkersOK, HistoryOK
    <2>h. CASE WriteCancelSession(c)
        <3>0. canceller[c].task \in Tasks
            BY <2>h, <2>c DEF WriteCancelSession, CancelStage
        <3>1. CancellersOK'
            BY <2>h, <3>0, StepOK DEF WriteCancelSession, CancelStage
        <3>2. RowsOK'
            BY <2>h, <3>0 DEF WriteCancelSession, RowsOK, SessionTarget, Status
        <3> QED
            BY <2>h, <3>1, <3>2 DEF WriteCancelSession, BrokerOK, WorkersOK, HistoryOK
    <2>i. CASE AppendCancelEvent(c)
        <3>0. canceller[c].task \in Tasks
            BY <2>i, <2>c DEF AppendCancelEvent, CancelStage
        <3>1. CancellersOK'
            BY <2>i, <3>0, StepOK DEF AppendCancelEvent, CancelStage
        <3>2. RowsOK'
            BY <2>i, <3>0 DEF AppendCancelEvent, RowsOK
        <3> QED
            BY <2>i, <3>1, <3>2 DEF AppendCancelEvent, BrokerOK, WorkersOK, HistoryOK
    <2>j. CASE Revoke(c)
        <3>0. canceller[c].task \in Tasks
            BY <2>j, <2>c DEF Revoke, CancelStage
        <3>1. CancellersOK'
            BY <2>j, StepOK DEF Revoke, CancelStage
        <3> QED
            BY <2>j, <3>0, <3>1 DEF Revoke, RowsOK, BrokerOK, WorkersOK, HistoryOK
    <2> QED
        BY <1>7, <2>a, <2>b, <2>d, <2>e, <2>f, <2>g, <2>h, <2>i, <2>j DEF CancelStep
<1>8. ASSUME NEW c \in Cancellers, CancelFault(c) PROVE TypeOK'
    <2>1. PICK pc \in {CancelHandler(canceller[c].pc), "error"} : Step(c, pc)
        BY <1>8 DEF CancelFault
    <2>2. /\ pc \in CancelStage \cup {"idle", "done", "error"}
          /\ pc \in CancelStage \ {"pick"} => canceller[c].task \in Tasks
        BY <1>8 DEF CancelFault, CancelHandler, CancelStage, CancellersOK
    <2>3. CancellersOK'
        BY <2>1, <2>2, StepOK
    <2> QED
        BY <1>8, <2>3 DEF CancelFault, RowsOK, BrokerOK, WorkersOK, HistoryOK
<1>9. CASE UNCHANGED vars
    BY <1>9 DEF vars, RowsOK, BrokerOK, WorkersOK, CancellersOK, HistoryOK
<1> QED
    BY <1>1, <1>2, <1>3, <1>4, <1>5, <1>6, <1>7, <1>8, <1>9 DEF Next

\* Every reachable state has the types the code gives it, for any number of
\* tasks, workers and cancel requests.
THEOREM TypeCorrect == Spec => []TypeOK
BY InitTypeOK, TypeStep, ConstantsAssumption, PTL DEF Spec

-----------------------------------------------------------------------------
(* The safety invariant: what a worker has done before it reached its      *)
(* stage.  A session it attached stays attached, a task that left the      *)
(* queue never returns to it.                                              *)

\* The stages a delivery can be in before it has moved or settled its task.
Early == {"idle", "check", "load", "snapshot", "session", "create", "attach",
          "retry", "final_read"}

\* The stages after attach_execution_context.
Attached == Stage \ (Early \cup {"final_failed", "final_s_failed", "ev_final", "cleanup"})

\* The stages in which the task has left the queue.
Moved == Stage \ (Early \cup {"mark_running", "final_failed"})

\* final_failed once its transition check has passed.
FailingLegally(wk) == wk.pc = "final_failed" /\ wk.checked

WorkerKnows(w) ==
    LET wk == worker[w]
    IN  /\ wk.pc = "attach" => session[wk.task] # "none"
        /\ wk.pc \in Attached \/ FailingLegally(wk) => task[wk.task].linked
        /\ \/ wk.pc \in Moved
           \/ FailingLegally(wk)
           \/ wk.pc # "idle" /\ wk.seen # "queued"
           => task[wk.task].status # "queued"

LinkedHasSession == \A t \in Tasks : task[t].linked => session[t] # "none"

StartedIsLinked ==
    \A t \in Tasks :
        task[t].status \in {"running", "completed", "failed"} => task[t].linked

SafetyInv ==
    /\ LinkedHasSession
    /\ StartedIsLinked
    /\ QueuedInputStaged
    /\ \A w \in Workers : WorkerKnows(w)

-----------------------------------------------------------------------------
(* Rows only move forward.                                                 *)

Monotone ==
    \A t \in Tasks :
        /\ task[t].linked => task'[t].linked
        /\ session[t] # "none" => session'[t] # "none"
        /\ task[t].status # "queued" => task'[t].status # "queued"

LEMMA TargetMoves == \A pc : Target(pc) \in {"running", "completed", "failed"}
BY DEF Target

LEMMA MonotoneStep == TypeOK /\ [Next]_vars => Monotone
<1> SUFFICES ASSUME TypeOK, [Next]_vars PROVE Monotone
    OBVIOUS
<1> USE DEF TypeOK, rows, broker, history, bounds
<1>0. CASE UNCHANGED rows
    BY <1>0 DEF Monotone
<1>1. ASSUME NEW w \in Workers, WorkerStep(w) PROVE Monotone
    <2>w. worker[w].pc # "idle" => worker[w].task \in Tasks
        BY DEF WorkersOK
    <2>a. CASE Attach(w)
        BY <2>a, <2>w DEF Attach, Monotone, RowsOK, TaskRow
    <2>b. CASE CreateSession(w)
        BY <2>b, <2>w DEF CreateSession, Monotone, RowsOK
    <2>c. CASE WriteTask(w)
        <3>1. worker[w].task \in Tasks
            BY <2>c, <2>w DEF WriteTask, TaskStage
        <3>2. Target(worker[w].pc) # "queued"
            BY TargetMoves
        <3> QED
            BY <2>c, <3>1, <3>2 DEF WriteTask, Monotone, RowsOK, TaskRow
    <2>d. CASE WriteSession(w)
        <3>1. worker[w].task \in Tasks
            BY <2>d, <2>w DEF WriteSession, SessionStage
        <3>2. Target(worker[w].pc) # "none"
            BY TargetMoves
        <3> QED
            BY <2>d, <3>1, <3>2 DEF WriteSession, Monotone, RowsOK
    <2>e. CASE UNCHANGED rows
        BY <2>e, <1>0
    <2> QED
        BY <1>1, <2>a, <2>b, <2>c, <2>d, <2>e
        DEF WorkerStep, Receive, CheckCancelled, LoadInput, TakeSnapshot, LoadSession,
            RunAgent, EnsureTask, EnsureSession, AppendEvent, SyncTask, SyncSession,
            ScheduleRetry, FinalRead, Cleanup
<1>2. ASSUME NEW c \in Cancellers, CancelStep(c) PROVE Monotone
    <2>c. canceller[c].pc \in CancelStage \ {"pick"} => canceller[c].task \in Tasks
        BY DEF CancellersOK
    <2>a. CASE WriteCancelled(c)
        BY <2>a, <2>c DEF WriteCancelled, CancelStage, Monotone, RowsOK, TaskRow
    <2>b. CASE WriteCancelSession(c)
        BY <2>b, <2>c DEF WriteCancelSession, CancelStage, SessionTarget, Monotone, RowsOK
    <2>d. CASE UNCHANGED rows
        BY <2>d, <1>0
    <2> QED
        BY <1>2, <2>a, <2>b, <2>d
        DEF CancelStep, CancelTask, CancelBatch, Pick, EnsureCancelled,
            EnsureCancelSession, AppendCancelEvent, Revoke
<1>3. CASE \/ \E t \in Tasks : Publish(t)
           \/ \E m \in Message : Discard(m)
           \/ \E w \in Workers : Fault(w) \/ Crash(w) \/ Redeliver(w) \/ Kill(w)
           \/ \E c \in Cancellers : CancelFault(c)
    BY <1>0, <1>3 DEF Publish, Discard, Fault, Crash, Redeliver, Kill, CancelFault
<1>4. CASE UNCHANGED vars
    BY <1>0, <1>4 DEF vars
<1> QED
    BY <1>1, <1>2, <1>3, <1>4 DEF Next

-----------------------------------------------------------------------------
(* What a worker knows stays true, and is true of the stage it goes to.    *)

LEMMA OthersKnow ==
    ASSUME TypeOK, Monotone, NEW v \in Workers, WorkerKnows(v), worker'[v] = worker[v]
    PROVE  WorkerKnows(v)'
<1>1. worker[v].pc # "idle" => worker[v].task \in Tasks
    BY DEF TypeOK, WorkersOK
<1>2. "idle" \notin Attached /\ "idle" \notin Moved
    BY DEF Attached, Moved, Early
<1>3. CASE worker[v].pc = "idle"
    BY <1>2, <1>3 DEF WorkerKnows, FailingLegally
<1>4. CASE worker[v].pc # "idle"
    BY <1>1, <1>4 DEF WorkerKnows, FailingLegally, Monotone
<1> QED
    BY <1>3, <1>4

LEMMA IdleKnows ==
    ASSUME TypeOK, NEW w \in Workers, worker' = [worker EXCEPT ![w] = Idle]
    PROVE  WorkerKnows(w)'
BY DEF TypeOK, WorkersOK, WorkerKnows, FailingLegally, Idle, Attached, Moved, Early

LEMMA GotoKnows ==
    ASSUME TypeOK, Monotone, NEW w \in Workers, WorkerKnows(w), worker[w].pc # "idle",
           NEW pc \in Stage, Goto(w, pc),
           pc = "attach" => session'[worker[w].task] # "none",
           pc \in Attached => task'[worker[w].task].linked,
           pc \in Moved => task'[worker[w].task].status # "queued"
    PROVE  WorkerKnows(w)'
<1>1. worker[w].task \in Tasks
    BY DEF TypeOK, WorkersOK
<1>2. /\ worker'[w].pc = pc
      /\ worker'[w].checked = FALSE
      /\ worker'[w].task = worker[w].task
      /\ worker'[w].seen = worker[w].seen
    BY DEF Goto, TypeOK, WorkersOK, WorkerState
<1>3. worker[w].seen # "queued" => task'[worker[w].task].status # "queued"
    BY <1>1 DEF WorkerKnows, Monotone
<1> QED
    BY <1>2, <1>3 DEF WorkerKnows, FailingLegally

LEMMA HandlerKnows ==
    ASSUME NEW pc \in Stage, NEW back \in {"mark_failed", "ev_failed"}
    PROVE  /\ Handler(pc, back) \notin {"attach", "final_failed"}
           /\ Handler(pc, back) \in Attached => pc \in Attached
           /\ Handler(pc, back) \in Moved => pc \in Moved
BY DEF Handler, Attached, Moved, Early, Stage, TaskStage, EventStage, SessionStage, ReadStage

LEMMA RaiseKnows ==
    ASSUME TypeOK, Monotone, NEW w \in Workers, WorkerKnows(w), worker[w].pc # "idle",
           Raise(w)
    PROVE  WorkerKnows(w)'
<1> DEFINE pc == worker[w].pc
           handler == Handler(pc, worker[w].back)
<1>1. worker[w] \in WorkerState /\ worker[w].task \in Tasks
    BY DEF TypeOK, WorkersOK
<1>2. pc \in Stage /\ worker[w].back \in {"mark_failed", "ev_failed"}
    BY <1>1 DEF WorkerState
<1>3. /\ handler \notin {"attach", "final_failed"}
      /\ handler \in Attached => pc \in Attached
      /\ handler \in Moved => pc \in Moved
    BY <1>2, HandlerKnows
<1>4. CASE handler = "idle"
    BY <1>4, IdleKnows DEF Raise
<1>5. CASE handler # "idle"
    <2> HIDE DEF handler
    <2>1. /\ worker'[w].pc = handler
          /\ worker'[w].task = worker[w].task
          /\ worker'[w].seen = worker[w].seen
        BY <1>5 DEF Raise, TypeOK, WorkersOK, WorkerState, handler
    <2>2. /\ pc \in Attached => task'[worker[w].task].linked
          /\ pc \in Moved => task'[worker[w].task].status # "queued"
          /\ worker[w].seen # "queued" => task'[worker[w].task].status # "queued"
        BY <1>1 DEF WorkerKnows, Monotone
    <2> QED
        BY <1>3, <2>1, <2>2 DEF WorkerKnows, FailingLegally
<1> QED
    BY <1>4, <1>5

LEMMA AfterKnows ==
    ASSUME NEW wk \in WorkerState,
           wk.pc \in TaskStage \cup SessionStage \cup EventStage
    PROVE  /\ After(wk) # "attach"
           /\ After(wk) \in Attached => wk.pc \in Attached
           /\ After(wk) \in Moved => wk.pc \in Moved \cup TaskStage
<1> DEFINE pc == wk.pc
           next == After(wk)
<1>1. pc \in TaskStage \cup SessionStage \cup EventStage /\ wk.back \in {"mark_failed", "ev_failed"}
    BY DEF WorkerState
<1>2. CASE pc = "final_failed"
    BY <1>2 DEF After, Attached, Moved, Early, Stage, TaskStage
<1>3. CASE pc = "ev_sync"
    BY <1>1, <1>3
    DEF After, Attached, Moved, Early, Stage, TaskStage, EventStage, SessionStage
<1>4. CASE pc \in TaskStage \ {"final_failed"}
    BY <1>1, <1>4 DEF After, Attached, Moved, Early, Stage, TaskStage, EventStage, SessionStage
<1>5. CASE pc \in SessionStage
    BY <1>1, <1>5 DEF After, Attached, Moved, Early, Stage, EventStage, SessionStage
<1>6. CASE pc \in EventStage \ {"ev_sync"}
    BY <1>1, <1>6 DEF After, Attached, Moved, Early, Stage, EventStage, ReadStage
<1> QED
    BY <1>1, <1>2, <1>3, <1>4, <1>5, <1>6

\* Only a started task may be failed.
LEMMA MayFail == \A s \in Status : CanMove(s, "failed") => s \in {"running", "failed"}
BY DEF CanMove, TASK_TRANSITIONS, Status

-----------------------------------------------------------------------------
(* Every step keeps what the workers know.                                 *)

LEMMA KnowStep ==
    ASSUME TypeOK, SafetyInv, Monotone, NEW w \in Workers, WorkerStep(w)
    PROVE  WorkerKnows(w)'
<1> DEFINE t == worker[w].task
<1>w. /\ worker[w] \in WorkerState
      /\ worker[w].pc # "idle" => t \in Tasks
      /\ WorkerKnows(w)
    BY DEF TypeOK, WorkersOK, SafetyInv
<1>s. /\ worker[w].pc \in Moved => task[t].status # "queued"
      /\ worker[w].pc \in Attached => task[t].linked
      /\ worker[w].seen # "queued" /\ worker[w].pc # "idle" => task[t].status # "queued"
    BY <1>w DEF WorkerKnows
<1>m. worker[w].pc # "idle" =>
        /\ task[t].linked => task'[t].linked
        /\ task[t].status # "queued" => task'[t].status # "queued"
    BY <1>w DEF Monotone
<1>a. CASE Receive(w)
    <2>1. PICK m \in Message :
            worker' = [worker EXCEPT ![w] =
                [Idle EXCEPT !.pc = "check", !.task = m[1], !.retries = m[2]]]
        BY <1>a DEF Receive
    <2>2. worker'[w].pc = "check" /\ worker'[w].seen = "queued"
        BY <2>1 DEF TypeOK, WorkersOK, Idle
    <2> QED
        BY <2>2 DEF WorkerKnows, FailingLegally, Attached, Moved, Early
<1>b. CASE CheckCancelled(w)
    <2>1. CASE task[t].status = "cancelled"
        <3>1. Goto(w, "cleanup") /\ worker[w].pc # "idle"
            BY <1>b, <2>1 DEF CheckCancelled
        <3> QED
            BY <1>w, <1>m, <2>1, <3>1, GotoKnows
            DEF Stage, ReadStage, Attached, Moved, Early
    <2>2. CASE task[t].status # "cancelled"
        <3>1. Goto(w, "load") /\ worker[w].pc # "idle"
            BY <1>b, <2>2 DEF CheckCancelled
        <3> QED
            BY <1>w, <3>1, GotoKnows DEF Stage, ReadStage, Attached, Moved, Early
    <2> QED
        BY <2>1, <2>2
<1>c. CASE LoadInput(w)
    <2>0. worker[w].pc # "idle"
        BY <1>c DEF LoadInput
    <2>1. CASE Goto(w, "snapshot")
        BY <1>w, <2>0, <2>1, GotoKnows DEF Stage, ReadStage, Attached, Moved, Early
    <2>2. CASE Goto(w, "retry")
        BY <1>w, <2>0, <2>2, GotoKnows DEF Stage, ReadStage, Attached, Moved, Early
    <2>3. CASE Raise(w)
        BY <1>w, <2>0, <2>3, RaiseKnows
    <2> QED
        BY <1>c, <2>1, <2>2, <2>3 DEF LoadInput
<1>d. CASE TakeSnapshot(w)
    <2>1. /\ worker'[w].pc \in {"cleanup", "final_read", "session"}
          /\ worker'[w].pc = "cleanup" => task[t].status \in Terminal
          /\ worker'[w].task = t
          /\ worker'[w].seen = task[t].status
        BY <1>d, <1>w DEF TakeSnapshot, WorkerState, TypeOK, WorkersOK
    <2>2. task'[t] = task[t]
        BY <1>d DEF TakeSnapshot, rows
    <2> QED
        BY <2>1, <2>2 DEF WorkerKnows, FailingLegally, Attached, Moved, Early, Terminal
<1>e. CASE LoadSession(w)
    <2>0. worker[w].pc # "idle" /\ session' = session
        BY <1>e DEF LoadSession, rows
    <2>1. CASE session[t] = "none"
        <3>1. Goto(w, "create")
            BY <1>e, <2>1 DEF LoadSession
        <3> QED
            BY <1>w, <2>0, <3>1, GotoKnows DEF Stage, ReadStage, Attached, Moved, Early
    <2>2. CASE session[t] # "none" /\ worker[w].linked
        <3>1. Goto(w, "final_read")
            BY <1>e, <2>2 DEF LoadSession
        <3> QED
            BY <1>w, <2>0, <3>1, GotoKnows DEF Stage, ReadStage, Attached, Moved, Early
    <2>3. CASE session[t] # "none" /\ ~worker[w].linked
        <3>1. Goto(w, "attach")
            BY <1>e, <2>3 DEF LoadSession
        <3> QED
            BY <1>w, <2>0, <2>3, <3>1, GotoKnows DEF Stage, ReadStage, Attached, Moved, Early
    <2> QED
        BY <2>1, <2>2, <2>3
<1>f. CASE CreateSession(w)
    <2>1. worker[w].pc # "idle" /\ Goto(w, "attach") /\ session'[t] # "none"
        BY <1>f, <1>w DEF CreateSession, TypeOK, RowsOK
    <2> QED
        BY <1>w, <2>1, GotoKnows DEF Stage, ReadStage, Attached, Moved, Early
<1>g. CASE Attach(w)
    <2>1. worker[w].pc # "idle" /\ task'[t].linked /\ task'[t].status = task[t].status
        BY <1>g, <1>w DEF Attach, TypeOK, RowsOK, TaskRow
    <2>2. CASE worker[w].seen = "queued"
        <3>1. Goto(w, "mark_running")
            BY <1>g, <2>2 DEF Attach
        <3> QED
            BY <1>w, <2>1, <3>1, GotoKnows DEF Stage, TaskStage, Attached, Moved, Early
    <2>3. CASE worker[w].seen # "queued"
        <3>1. Goto(w, "agent")
            BY <1>g, <2>3 DEF Attach
        <3> QED
            BY <1>w, <1>s, <2>1, <2>3, <3>1, GotoKnows DEF Stage, ReadStage, Attached, Moved, Early
    <2> QED
        BY <2>2, <2>3
<1>h. CASE RunAgent(w)
    <2>1. PICK pc \in {"mark_completed", "mark_failed", "retry"} : Goto(w, pc)
        BY <1>h DEF RunAgent
    <2>2. worker[w].pc \in Attached /\ worker[w].pc \in Moved /\ worker[w].pc # "idle"
        BY <1>h DEF RunAgent, Attached, Moved, Early, Stage, ReadStage
    <2>3. pc \in Stage /\ pc # "attach"
        BY <2>1 DEF Stage, TaskStage, ReadStage
    <2> QED
        BY <1>w, <1>s, <1>m, <2>1, <2>2, <2>3, GotoKnows
<1>i. CASE EnsureTask(w)
    <2>0. worker[w].pc # "idle" /\ worker[w].pc \in TaskStage /\ task' = task
        BY <1>i DEF EnsureTask, TaskStage, rows
    <2>1. CASE CanMove(task[t].status, Target(worker[w].pc))
        <3>1. worker' = [worker EXCEPT ![w].checked = TRUE]
            BY <1>i, <2>1 DEF EnsureTask
        <3>2. /\ worker'[w].pc = worker[w].pc
              /\ worker'[w].task = t
              /\ worker'[w].seen = worker[w].seen
            BY <3>1 DEF TypeOK, WorkersOK, WorkerState
        <3>3. worker[w].pc = "final_failed" =>
                task[t].linked /\ task[t].status # "queued"
            <4>1. SUFFICES ASSUME worker[w].pc = "final_failed"
                  PROVE  task[t].linked /\ task[t].status # "queued"
                OBVIOUS
            <4>2. task[t].status \in Status
                BY <1>w, <2>0 DEF TypeOK, RowsOK, TaskRow
            <4>3. Target(worker[w].pc) = "failed"
                BY <4>1 DEF Target
            <4>4. task[t].status \in {"running", "failed"}
                BY <2>1, <4>2, <4>3, MayFail
            <4> QED
                BY <1>w, <2>0, <4>4 DEF SafetyInv, StartedIsLinked
        <3>4. worker[w].pc # "attach"
            BY <2>0 DEF TaskStage
        <3> QED
            BY <1>s, <2>0, <3>2, <3>3, <3>4 DEF WorkerKnows, FailingLegally
    <2>2. CASE ~CanMove(task[t].status, Target(worker[w].pc))
        BY <1>i, <1>w, <2>0, <2>2, RaiseKnows DEF EnsureTask
    <2> QED
        BY <2>1, <2>2
<1>j. CASE WriteTask(w)
    <2>0. worker[w].pc # "idle" /\ worker[w].pc \in TaskStage
        BY <1>j DEF WriteTask, TaskStage
    <2>1. task'[t].status # "queued"
        BY <1>j, <1>w, <2>0, TargetMoves DEF WriteTask, TypeOK, RowsOK, TaskRow
    <2>2. Goto(w, After(worker[w])) /\ After(worker[w]) \in Stage
        BY <1>j, <1>w, <2>0, AfterOK DEF WriteTask
    <2>3. After(worker[w]) # "attach"
          /\ (After(worker[w]) \in Attached => worker[w].pc \in Attached)
        BY <1>w, <2>0, AfterKnows
    <2> QED
        BY <1>w, <1>s, <1>m, <2>0, <2>1, <2>2, <2>3, GotoKnows
<1>k. CASE EnsureSession(w)
    <2>0. worker[w].pc # "idle" /\ worker[w].pc \in SessionStage /\ task' = task
        BY <1>k DEF EnsureSession, SessionStage, rows
    <2>1. CASE CanMove(session[t], Target(worker[w].pc))
        <3>1. worker' = [worker EXCEPT ![w].checked = TRUE]
            BY <1>k, <2>1 DEF EnsureSession
        <3>2. /\ worker'[w].pc = worker[w].pc
              /\ worker'[w].task = t
              /\ worker'[w].seen = worker[w].seen
            BY <3>1 DEF TypeOK, WorkersOK, WorkerState
        <3>3. worker[w].pc \notin {"attach", "final_failed"}
            BY <2>0 DEF SessionStage
        <3> QED
            BY <1>s, <2>0, <3>2, <3>3 DEF WorkerKnows, FailingLegally
    <2>2. CASE ~CanMove(session[t], Target(worker[w].pc))
        BY <1>k, <1>w, <2>0, <2>2, RaiseKnows DEF EnsureSession
    <2> QED
        BY <2>1, <2>2
<1>l. CASE WriteSession(w) \/ AppendEvent(w)
    <2>0. worker[w].pc # "idle" /\ worker[w].pc \in SessionStage \cup EventStage
        BY <1>l DEF WriteSession, AppendEvent, SessionStage, EventStage
    <2>1. Goto(w, After(worker[w])) /\ After(worker[w]) \in Stage
        BY <1>l, <1>w, <2>0, AfterOK DEF WriteSession, AppendEvent
    <2>2. worker[w].pc \notin TaskStage
        BY <2>0 DEF TaskStage, SessionStage, EventStage
    <2>3. /\ After(worker[w]) # "attach"
          /\ After(worker[w]) \in Attached => worker[w].pc \in Attached
          /\ After(worker[w]) \in Moved => worker[w].pc \in Moved
        BY <1>w, <2>0, <2>2, AfterKnows
    <2> QED
        BY <1>w, <1>s, <1>m, <2>0, <2>1, <2>3, GotoKnows
<1>n. CASE SyncTask(w) \/ SyncSession(w)
    <2>1. PICK pc \in {"sync_session", "sync_failed", "ev_sync", "sync_s_failed"} : Goto(w, pc)
        BY <1>n DEF SyncTask, SyncSession
    <2>2. worker[w].pc \in Attached /\ worker[w].pc \in Moved /\ worker[w].pc # "idle"
        BY <1>n DEF SyncTask, SyncSession, Attached, Moved, Early, Stage, ReadStage
    <2>3. pc \in Stage /\ pc # "attach"
        BY <2>1 DEF Stage, TaskStage, SessionStage, EventStage, ReadStage
    <2> QED
        BY <1>w, <1>s, <1>m, <2>1, <2>2, <2>3, GotoKnows
<1>p. CASE ScheduleRetry(w)
    <2>1. CASE worker[w].retries + 1 > MaxRetries
        <3>1. worker[w].pc # "idle" /\ Goto(w, "final_read")
            BY <1>p, <2>1 DEF ScheduleRetry
        <3> QED
            BY <1>w, <3>1, GotoKnows DEF Stage, ReadStage, Attached, Moved, Early
    <2>2. CASE ~(worker[w].retries + 1 > MaxRetries)
        BY <1>p, <2>2, IdleKnows DEF ScheduleRetry
    <2> QED
        BY <2>1, <2>2
<1>q. CASE FinalRead(w)
    <2>1. /\ worker'[w].pc \in {"cleanup", "final_failed"}
          /\ worker'[w].pc = "cleanup" => task[t].status \in Terminal
          /\ worker'[w].pc = "final_failed" => ~worker'[w].checked
          /\ worker'[w].task = t
          /\ worker'[w].seen = worker[w].seen
          /\ worker[w].pc # "idle"
        BY <1>q, <1>w DEF FinalRead, WorkerState, TypeOK, WorkersOK
    <2>2. task'[t] = task[t]
        BY <1>q DEF FinalRead, rows
    <2> QED
        BY <1>s, <2>1, <2>2 DEF WorkerKnows, FailingLegally, Attached, Moved, Early, Terminal
<1>r. CASE Cleanup(w)
    BY <1>r, IdleKnows DEF Cleanup
<1> QED
    BY <1>a, <1>b, <1>c, <1>d, <1>e, <1>f, <1>g, <1>h, <1>i, <1>j, <1>k, <1>l, <1>n,
       <1>p, <1>q, <1>r DEF WorkerStep

LEMMA SafetyStep == TypeOK /\ SafetyInv /\ [Next]_vars => SafetyInv'
<1> SUFFICES ASSUME TypeOK, SafetyInv, [Next]_vars PROVE SafetyInv'
    OBVIOUS
<1>m. Monotone
    BY MonotoneStep
<1>t. TypeOK'
    BY TypeStep
<1>o. ASSUME NEW v \in Workers, worker'[v] = worker[v] PROVE WorkerKnows(v)'
    BY <1>m, <1>o, OthersKnow DEF SafetyInv
<1>1. ASSUME NEW v \in Workers PROVE WorkerKnows(v)'
    <2>1. ASSUME NEW w \in Workers, WorkerStep(w) PROVE WorkerKnows(v)'
        <3>1. CASE v = w
            BY <1>m, <2>1, <3>1, KnowStep
        <3>2. CASE v # w
            <4>1. worker'[v] = worker[v]
                BY <2>1, <3>2
                DEF WorkerStep, Receive, CheckCancelled, LoadInput, TakeSnapshot,
                    LoadSession, CreateSession, Attach, RunAgent, EnsureTask, WriteTask,
                    EnsureSession, WriteSession, AppendEvent, SyncTask, SyncSession,
                    ScheduleRetry, FinalRead, Cleanup, Goto, Raise, TypeOK, WorkersOK
            <4> QED
                BY <1>o, <4>1
        <3> QED
            BY <3>1, <3>2
    <2>2. ASSUME NEW w \in Workers, Fault(w) PROVE WorkerKnows(v)'
        <3>1. CASE v = w
            BY <1>m, <2>2, <3>1, RaiseKnows DEF Fault, SafetyInv
        <3>2. CASE v # w
            <4>1. worker'[v] = worker[v]
                BY <2>2, <3>2 DEF Fault, Raise, TypeOK, WorkersOK
            <4> QED
                BY <1>o, <4>1
        <3> QED
            BY <3>1, <3>2
    <2>3. ASSUME NEW w \in Workers, Crash(w) \/ Redeliver(w) \/ Kill(w) PROVE WorkerKnows(v)'
        <3>1. CASE worker' = [worker EXCEPT ![w] = Idle] /\ v = w
            BY <3>1, IdleKnows
        <3>2. CASE worker'[v] = worker[v]
            BY <1>o, <3>2
        <3> QED
            BY <2>3, <3>1, <3>2 DEF Crash, Redeliver, Kill, TypeOK, WorkersOK
    <2>4. CASE UNCHANGED worker
        BY <1>o, <2>4
    <2> QED
        BY <2>1, <2>2, <2>3, <2>4
        DEF Next, vars, Publish, Discard, CancelFault, CancelStep, CancelTask, CancelBatch,
            Pick, EnsureCancelled, WriteCancelled, EnsureCancelSession, WriteCancelSession,
            AppendCancelEvent, Revoke
<1>2. LinkedHasSession' /\ StartedIsLinked'
    <2> SUFFICES ASSUME NEW t \in Tasks
                 PROVE  /\ task'[t].linked => session'[t] # "none"
                        /\ task'[t].status \in {"running", "completed", "failed"} =>
                               task'[t].linked
        BY DEF LinkedHasSession, StartedIsLinked
    <2>0. /\ task[t].linked => task'[t].linked /\ session'[t] # "none"
          /\ task[t].status \in {"running", "completed", "failed"} => task[t].linked
        BY <1>m DEF Monotone, SafetyInv, LinkedHasSession, StartedIsLinked
    <2>1. CASE task'[t] = task[t]
        BY <2>0, <2>1
    <2>2. ASSUME NEW w \in Workers, Attach(w), task'[t] # task[t]
          PROVE  task'[t].linked /\ session'[t] # "none"
        <3>1. worker[w].task = t /\ task'[t].linked
            BY <2>2 DEF Attach, TypeOK, RowsOK, TaskRow
        <3>2. session[t] # "none"
            BY <2>2, <3>1 DEF Attach, SafetyInv, WorkerKnows
        <3> QED
            BY <1>m, <3>1, <3>2 DEF Monotone
    <2>3. ASSUME NEW w \in Workers, WriteTask(w), task'[t] # task[t]
          PROVE  task'[t].linked /\ session'[t] # "none"
        <3>1. worker[w].task = t /\ worker[w].pc \in TaskStage /\ worker[w].checked
            BY <2>3 DEF WriteTask, TypeOK, RowsOK
        <3>2. worker[w].pc \in Attached \/ FailingLegally(worker[w])
            BY <3>1 DEF FailingLegally, Attached, Early, Stage, TaskStage
        <3>3. task[t].linked
            BY <3>1, <3>2 DEF SafetyInv, WorkerKnows
        <3> QED
            BY <2>0, <3>3
    <2>4. ASSUME NEW c \in Cancellers, WriteCancelled(c), task'[t] # task[t]
          PROVE  task'[t].status = "cancelled" /\ task'[t].linked = task[t].linked
        BY <2>4 DEF WriteCancelled, TypeOK, RowsOK, TaskRow
    <2> QED
        BY <2>0, <2>1, <2>2, <2>3, <2>4, TaskWriters
<1>3. QueuedInputStaged'
    <2> SUFFICES ASSUME NEW t \in Tasks, task'[t].status = "queued" PROVE t \in staged'
        BY DEF QueuedInputStaged
    <2>1. task[t].status = "queued" /\ t \in staged
        BY <1>m DEF Monotone, SafetyInv, QueuedInputStaged
    <2>2. ASSUME NEW w \in Workers, Cleanup(w) PROVE t \in staged'
        <3>1. worker[w].pc \in Moved
            BY <2>2 DEF Cleanup, Moved, Early, Stage, ReadStage
        <3>2. task[worker[w].task].status # "queued"
            BY <3>1 DEF SafetyInv, WorkerKnows
        <3> QED
            BY <2>1, <2>2, <3>2 DEF Cleanup
    <2>3. CASE UNCHANGED staged
        BY <2>1, <2>3
    <2> QED
        BY <2>2, <2>3, FileWriters
<1> QED
    BY <1>1, <1>2, <1>3 DEF SafetyInv

LEMMA InitSafety == Init => SafetyInv
BY DEF Init, SafetyInv, LinkedHasSession, StartedIsLinked, QueuedInputStaged,
       WorkerKnows, FailingLegally, Idle, Attached, Moved, Early

LEMMA SafetyInvariant == Spec => [](TypeOK /\ SafetyInv)
<1>1. Init => TypeOK /\ SafetyInv
    BY InitTypeOK, InitSafety, ConstantsAssumption
<1>2. TypeOK /\ SafetyInv /\ [Next]_vars => (TypeOK /\ SafetyInv)'
    BY TypeStep, SafetyStep
<1> QED
    BY <1>1, <1>2, PTL DEF Spec

-----------------------------------------------------------------------------
(* The safety theorems.                                                    *)

\* Whoever finds a task running, completed or failed can load its session,
\* for any number of racing workers, crashes and cancel requests.
THEOREM StartedTasksHaveSessions == Spec => []StartedHasSession
<1>1. SafetyInv => StartedHasSession
    BY DEF SafetyInv, LinkedHasSession, StartedIsLinked, StartedHasSession
<1> QED
    BY <1>1, SafetyInvariant, PTL

\* No delivery deletes the staged input of a task that is still queued.
THEOREM QueuedInputsStayStaged == Spec => []QueuedInputStaged
<1>1. SafetyInv => QueuedInputStaged
    BY DEF SafetyInv
<1> QED
    BY <1>1, SafetyInvariant, PTL

=============================================================================
