---------------------------- MODULE TaskOwedProofs ----------------------------
(***************************************************************************)
(* No published task is forgotten and no delivery goes on for ever: the    *)
(* theorems about TaskExecution that follow the message of a task from the *)
(* broker through a worker and back, and a cancel request to its answer.   *)
(***************************************************************************)
EXTENDS TaskExecutionProofs, FiniteSetTheorems

-----------------------------------------------------------------------------
(* A delivery stops owing a look at its task only when it has seen or made *)
(* it terminal, when it was revoked or when its failure handling raised.   *)

Excused(t) ==
    \/ task'[t].status \in Terminal
    \/ t \in revoked'
    \/ t \in abandoned' /\ (faults' # 0 \/ task'[t].status # "running")

Holds(w, t) == worker[w].task = t /\ worker[w].pc \in Owing

LEMMA OwedAgain ==
    ASSUME NEW t \in Tasks,
           \/ \E n \in 0 .. MaxRetries : queue'[<<t, n>>] > 0
           \/ \E w \in Workers : worker'[w].task = t /\ worker'[w].pc \in Owing
    PROVE  Owed(t)'
BY DEF Owed

LEMMA HeldAgain ==
    ASSUME TypeOK, NEW t \in Tasks, NEW w \in Workers, worker[w].task = t,
           NEW pc \in Owing, Goto(w, pc)
    PROVE  Owed(t)'
<1>1. worker'[w].task = t /\ worker'[w].pc = pc
    BY DEF Goto, TypeOK, WorkersOK, WorkerState
<1> QED
    BY <1>1, OwedAgain

\* The handler of an exception still owes, or there is none.
LEMMA HandlerOwes ==
    ASSUME NEW pc \in Owing, NEW back \in {"mark_failed", "ev_failed"}
    PROVE  Handler(pc, back) \in Owing \cup {"idle"}
BY DEF Handler, Owing, Stage, TaskStage, EventStage, SessionStage, ReadStage

LEMMA RaiseOwes ==
    ASSUME TypeOK, NEW t \in Tasks, NEW w \in Workers, Holds(w, t), Raise(w)
    PROVE  Owed(t)' \/ (/\ t \in abandoned'
                        /\ Handler(worker[w].pc, worker[w].back) = "idle")
<1> DEFINE handler == Handler(worker[w].pc, worker[w].back)
<1>1. worker[w].pc \in Owing /\ worker[w].task = t /\ worker[w].back \in {"mark_failed", "ev_failed"}
    BY DEF Holds, TypeOK, WorkersOK, WorkerState
<1>2. handler \in Owing \cup {"idle"}
    BY <1>1, HandlerOwes
<1>3. CASE handler = "idle"
    <2>1. worker[w].pc # "cleanup"
        BY <1>1 DEF Owing
    <2> QED
        BY <1>1, <1>3, <2>1 DEF Raise
<1>4. CASE handler # "idle"
    <2> HIDE DEF handler
    <2>1. worker'[w].task = t /\ worker'[w].pc = handler
        BY <1>1, <1>4 DEF Raise, handler, TypeOK, WorkersOK, WorkerState
    <2> QED
        BY <1>2, <1>4, <2>1, OwedAgain
<1> QED
    BY <1>3, <1>4

\* After a status change or an event a delivery owes on, or it has just made
\* the task completed or failed.
LEMMA AfterOwes ==
    ASSUME NEW wk \in WorkerState, wk.pc \in Owing,
           wk.pc \in TaskStage \cup SessionStage \cup EventStage
    PROVE  \/ After(wk) \in Owing
           \/ wk.pc \in {"mark_completed", "final_failed"}
<1>1. wk.back \in {"mark_failed", "ev_failed"}
    BY DEF WorkerState
<1> QED
    BY <1>1 DEF After, Owing, Stage, TaskStage, EventStage, SessionStage, ReadStage

\* An abandoned transition check without a fault: the task was not running.
LEMMA CannotFail ==
    ASSUME NEW s \in Status, ~CanMove(s, "failed")
    PROVE  s # "running"
BY DEF CanMove, TASK_TRANSITIONS, Status

LEMMA WorkerOwes ==
    ASSUME TypeOK, NEW t \in Tasks, NEW w \in Workers, Holds(w, t), WorkerStep(w)
    PROVE  Owed(t)' \/ Excused(t)
<1>w. /\ worker[w] \in WorkerState
      /\ worker[w].task = t
      /\ worker[w].pc \in Owing
      /\ worker[w].pc \in Stage
      /\ worker[w].pc \notin {"idle", "cleanup"}
      /\ task[t] \in TaskRow
    BY DEF Holds, TypeOK, WorkersOK, RowsOK, Owing, Stage, TaskStage, SessionStage,
           EventStage, ReadStage
<1>a. CASE CheckCancelled(w)
    <2>1. CASE task[t].status = "cancelled"
        BY <1>a, <2>1 DEF CheckCancelled, Excused, Terminal, rows
    <2>2. CASE task[t].status # "cancelled"
        BY <1>a, <1>w, <2>2, HeldAgain DEF CheckCancelled, Owing, Stage, ReadStage
    <2> QED
        BY <2>1, <2>2
<1>b. CASE LoadInput(w)
    <2>1. CASE Goto(w, "snapshot") \/ Goto(w, "retry")
        BY <1>w, <2>1, HeldAgain DEF Owing, Stage, ReadStage
    <2>2. CASE Raise(w)
        <3>1. Handler(worker[w].pc, worker[w].back) = "final_read"
            BY <1>b DEF LoadInput, Handler
        <3> QED
            BY <2>2, <3>1, RaiseOwes
    <2> QED
        BY <1>b, <2>1, <2>2 DEF LoadInput
<1>c. CASE TakeSnapshot(w) \/ FinalRead(w)
    <2>1. CASE task[t].status \in Terminal
        BY <1>c, <2>1 DEF TakeSnapshot, FinalRead, Excused, rows
    <2>2. CASE task[t].status \notin Terminal
        <3>1. /\ worker'[w].task = t
              /\ worker'[w].pc \in {"final_read", "session", "final_failed"}
            BY <1>c, <1>w, <2>2 DEF TakeSnapshot, FinalRead, TypeOK, WorkersOK, WorkerState
        <3> QED
            BY <3>1, OwedAgain DEF Owing, Stage, ReadStage, TaskStage
    <2> QED
        BY <2>1, <2>2
<1>d. CASE LoadSession(w) \/ CreateSession(w) \/ Attach(w) \/ RunAgent(w)
           \/ SyncTask(w) \/ SyncSession(w)
    <2>1. PICK pc \in {"create", "final_read", "attach", "mark_running", "agent",
                       "mark_completed", "mark_failed", "retry", "sync_session",
                       "sync_failed", "ev_sync", "sync_s_failed"} : Goto(w, pc)
        BY <1>d DEF LoadSession, CreateSession, Attach, RunAgent, SyncTask, SyncSession
    <2>2. pc \in Owing
        BY <2>1 DEF Owing, Stage, ReadStage, TaskStage, SessionStage, EventStage
    <2> QED
        BY <1>w, <2>1, <2>2, HeldAgain
<1>e. CASE EnsureTask(w)
    <2>1. CASE CanMove(task[t].status, Target(worker[w].pc))
        <3>1. worker' = [worker EXCEPT ![w].checked = TRUE]
            BY <1>e, <1>w, <2>1 DEF EnsureTask
        <3>2. worker'[w].task = t /\ worker'[w].pc = worker[w].pc
            BY <1>w, <3>1 DEF TypeOK, WorkersOK, WorkerState
        <3> QED
            BY <1>w, <3>2, OwedAgain
    <2>2. CASE ~CanMove(task[t].status, Target(worker[w].pc))
        <3>1. Raise(w) /\ task' = task
            BY <1>e, <1>w, <2>2 DEF EnsureTask, rows
        <3>2. CASE worker[w].pc = "final_failed"
            <4>1. Target(worker[w].pc) = "failed"
                BY <3>2 DEF Target
            <4>2. task[t].status # "running"
                BY <1>w, <2>2, <4>1, CannotFail DEF TaskRow
            <4> QED
                BY <3>1, <4>2, RaiseOwes DEF Excused
        <3>3. CASE worker[w].pc # "final_failed"
            <4>1. Handler(worker[w].pc, worker[w].back) # "idle"
                BY <1>e, <3>3 DEF EnsureTask, TaskStage, Handler
            <4> QED
                BY <3>1, <4>1, RaiseOwes
        <3> QED
            BY <3>2, <3>3
    <2> QED
        BY <2>1, <2>2
<1>f. CASE WriteTask(w)
    <2>1. Goto(w, After(worker[w])) /\ worker[w].pc \in TaskStage
        BY <1>f DEF WriteTask
    <2>2. CASE After(worker[w]) \in Owing
        BY <1>w, <2>1, <2>2, HeldAgain
    <2>3. CASE worker[w].pc \in {"mark_completed", "final_failed"}
        <3>1. task'[t].status = Target(worker[w].pc)
            BY <1>f, <1>w DEF WriteTask, TypeOK, RowsOK
        <3> QED
            BY <2>3, <3>1 DEF Target, Excused, Terminal
    <2> QED
        BY <1>w, <2>1, <2>2, <2>3, AfterOwes
<1>g. CASE EnsureSession(w)
    <2>1. CASE CanMove(session[t], Target(worker[w].pc))
        <3>1. worker' = [worker EXCEPT ![w].checked = TRUE]
            BY <1>g, <1>w, <2>1 DEF EnsureSession
        <3>2. worker'[w].task = t /\ worker'[w].pc = worker[w].pc
            BY <1>w, <3>1 DEF TypeOK, WorkersOK, WorkerState
        <3> QED
            BY <1>w, <3>2, OwedAgain
    <2>2. CASE ~CanMove(session[t], Target(worker[w].pc))
        <3>1. Raise(w)
            BY <1>g, <1>w, <2>2 DEF EnsureSession
        <3>2. Handler(worker[w].pc, worker[w].back) # "idle"
            BY <1>g DEF EnsureSession, SessionStage, Handler
        <3> QED
            BY <3>1, <3>2, RaiseOwes
    <2> QED
        BY <2>1, <2>2
<1>h. CASE WriteSession(w) \/ AppendEvent(w)
    <2>1. /\ Goto(w, After(worker[w]))
          /\ worker[w].pc \in SessionStage \cup EventStage
        BY <1>h DEF WriteSession, AppendEvent
    <2>2. After(worker[w]) \in Owing
        BY <1>w, <2>1, AfterOwes DEF SessionStage, EventStage
    <2> QED
        BY <1>w, <2>1, <2>2, HeldAgain
<1>i. CASE ScheduleRetry(w)
    <2>1. CASE worker[w].retries + 1 > MaxRetries
        BY <1>i, <1>w, <2>1, HeldAgain DEF ScheduleRetry, Owing, Stage, ReadStage
    <2>2. CASE ~(worker[w].retries + 1 > MaxRetries)
        <3>1. worker[w].retries + 1 \in 0 .. MaxRetries
            BY <1>w, <2>2, ConstantsAssumption DEF WorkerState, ConstantsAssumption
        <3>2. <<t, worker[w].retries + 1>> \in Message
            BY <3>1 DEF Message
        <3>3. queue'[<<t, worker[w].retries + 1>>] > 0
            BY <1>i, <1>w, <2>2, <3>2 DEF ScheduleRetry, TypeOK, BrokerOK
        <3> QED
            BY <3>1, <3>3, OwedAgain
    <2> QED
        BY <2>1, <2>2
<1> QED
    BY <1>w, <1>a, <1>b, <1>c, <1>d, <1>e, <1>f, <1>g, <1>h, <1>i
    DEF WorkerStep, Receive, Cleanup

-----------------------------------------------------------------------------
(* One step of the system.                                                 *)

\* A waiting message waits on, is received or is dropped after a revoke.
LEMMA MessageOwes ==
    ASSUME TypeOK, [Next]_vars, NEW t \in Tasks, NEW n \in 0 .. MaxRetries,
           queue[<<t, n>>] > 0
    PROVE  Owed(t)' \/ Excused(t)
<1>q. <<t, n>> \in Message /\ queue \in [Message -> Nat]
    BY DEF Message, TypeOK, BrokerOK
<1>1. CASE queue'[<<t, n>>] > 0
    BY <1>1, OwedAgain
<1>2. ASSUME NEW w \in Workers, Receive(w) PROVE Owed(t)' \/ Excused(t)
    <2>1. PICK m \in Message :
            /\ queue[m] > 0
            /\ queue' = [queue EXCEPT ![m] = @ - 1]
            /\ worker' = [worker EXCEPT ![w] =
                    [Idle EXCEPT !.pc = "check", !.task = m[1], !.retries = m[2]]]
        BY <1>2 DEF Receive
    <2>2. CASE m = <<t, n>>
        <3>1. worker'[w].task = t /\ worker'[w].pc = "check"
            BY <2>1, <2>2 DEF TypeOK, WorkersOK, Idle
        <3> QED
            BY <3>1, OwedAgain DEF Owing, Stage, ReadStage
    <2>3. CASE m # <<t, n>>
        <3>1. queue'[<<t, n>>] > 0
            BY <1>q, <2>1, <2>3
        <3> QED
            BY <3>1, OwedAgain
    <2> QED
        BY <2>2, <2>3
<1>3. ASSUME NEW m \in Message, Discard(m) PROVE Owed(t)' \/ Excused(t)
    <2>1. CASE m = <<t, n>>
        BY <1>3, <2>1 DEF Discard, Excused
    <2>2. CASE m # <<t, n>>
        <3>1. queue'[<<t, n>>] > 0
            BY <1>3, <1>q, <2>2 DEF Discard
        <3> QED
            BY <3>1, OwedAgain
    <2> QED
        BY <2>1, <2>2
<1>4. ASSUME NEW w \in Workers, Crash(w) \/ Redeliver(w) PROVE queue'[<<t, n>>] > 0
    BY <1>4, <1>q DEF Crash, Redeliver
<1>5. ASSUME NEW w \in Workers, ScheduleRetry(w) PROVE queue'[<<t, n>>] > 0 \/ queue' = queue
    BY <1>5, <1>q DEF ScheduleRetry
<1>6. ASSUME NEW u \in Tasks, Publish(u) PROVE queue'[<<t, n>>] > 0
    BY <1>6, <1>q DEF Publish
<1>7. CASE queue' = queue
    BY <1>1, <1>7
<1>8. ASSUME NEW w \in Workers, WorkerStep(w) PROVE Owed(t)' \/ Excused(t)
    BY <1>1, <1>2, <1>5, <1>7, <1>8, WorkerFrame
<1>9. ASSUME NEW c \in Cancellers, CancelStep(c) PROVE queue' = queue
    BY <1>9, CancelFrame
<1> QED
    BY <1>1, <1>3, <1>4, <1>6, <1>7, <1>8, <1>9, StepKinds, BrokerFrame

\* A delivery in a stage that owes owes on, puts its message back, or has a
\* reason to stop.
LEMMA DeliveryOwes ==
    ASSUME TypeOK, [Next]_vars, NEW t \in Tasks, NEW v \in Workers, Holds(v, t)
    PROVE  Owed(t)' \/ Excused(t)
<1>w. /\ worker[v] \in WorkerState
      /\ worker[v].task = t
      /\ worker[v].pc \in Owing
    BY DEF Holds, TypeOK, WorkersOK
<1>1. CASE worker'[v] = worker[v]
    BY <1>w, <1>1, OwedAgain
<1>2. CASE WorkerStep(v)
    BY <1>2, WorkerOwes
<1>3. CASE Fault(v)
    <2>1. Raise(v) /\ faults' # 0
        BY <1>3 DEF Fault, TypeOK, HistoryOK
    <2> QED
        BY <2>1, RaiseOwes DEF Excused
<1>4. CASE Crash(v)
    <2>1. worker[v].retries \in 0 .. MaxRetries
        BY <1>w DEF WorkerState
    <2>2. <<t, worker[v].retries>> \in Message
        BY <2>1 DEF Message
    <2>3. queue'[<<t, worker[v].retries>>] > 0
        BY <1>4, <1>w, <2>2 DEF Crash, TypeOK, BrokerOK
    <2> QED
        BY <2>1, <2>3, OwedAgain
<1>5. CASE Redeliver(v)
    BY <1>1, <1>5 DEF Redeliver
<1>6. CASE Kill(v)
    BY <1>6, <1>w DEF Kill, Excused, broker
<1>7. ASSUME NEW w \in Workers, w # v,
             WorkerStep(w) \/ Fault(w) \/ Crash(w) \/ Redeliver(w) \/ Kill(w)
      PROVE  worker'[v] = worker[v]
    BY <1>7, WorkersApart
<1>8. ASSUME NEW u \in Tasks, Publish(u) PROVE worker'[v] = worker[v]
    BY <1>8 DEF Publish
<1>9. ASSUME NEW m \in Message, Discard(m) PROVE worker'[v] = worker[v]
    BY <1>9 DEF Discard
<1>10. ASSUME NEW c \in Cancellers, CancelStep(c) \/ CancelFault(c)
       PROVE  worker'[v] = worker[v]
    BY <1>10, CancelFrame DEF CancelFault
<1>11. ASSUME UNCHANGED vars PROVE worker'[v] = worker[v]
    BY <1>11 DEF vars
<1> QED
    BY <1>1, <1>2, <1>3, <1>4, <1>5, <1>6, <1>7, <1>8, <1>9, <1>10, <1>11 DEF Next

LEMMA OwedStep ==
    ASSUME TypeOK, [Next]_vars, NEW t \in Tasks, Owed(t)
    PROVE  Owed(t)' \/ Excused(t)
BY MessageOwes, DeliveryOwes DEF Owed, Holds

\* What nobody takes back.
LEMMA RevokedKept ==
    ASSUME [Next]_vars
    PROVE  revoked \subseteq revoked'
<1>1. ASSUME NEW w \in Workers, WorkerStep(w) PROVE revoked' = revoked
    BY <1>1, WorkerFrame
<1>2. ASSUME NEW c \in Cancellers, CancelStep(c) PROVE revoked \subseteq revoked'
    BY <1>2, CancelFrame DEF Revoke
<1> QED
    BY <1>1, <1>2, StepKinds, BrokerFrame

LEMMA AbandonedKept ==
    ASSUME [Next]_vars
    PROVE  abandoned \subseteq abandoned'
<1>1. ASSUME NEW w \in Workers, Raise(w) PROVE abandoned \subseteq abandoned'
    BY <1>1 DEF Raise
<1>2. ASSUME NEW w \in Workers, LoadInput(w) \/ EnsureTask(w) \/ EnsureSession(w)
      PROVE  abandoned \subseteq abandoned'
    BY <1>1, <1>2 DEF LoadInput, EnsureTask, EnsureSession
<1>3. ASSUME NEW w \in Workers, Fault(w) PROVE abandoned \subseteq abandoned'
    BY <1>1, <1>3 DEF Fault
<1>4. ASSUME NEW w \in Workers, WorkerStep(w) PROVE abandoned \subseteq abandoned'
    BY <1>2, <1>4, WorkerFrame
<1>5. ASSUME NEW c \in Cancellers, CancelStep(c) PROVE abandoned' = abandoned
    BY <1>5, CancelFrame
<1> QED
    BY <1>3, <1>4, <1>5, StepKinds, BrokerFrame

LEMMA FaultsKept ==
    ASSUME TypeOK, [Next]_vars, faults' = 0
    PROVE  faults = 0
<1>1. faults \in Nat
    BY DEF TypeOK, HistoryOK
<1>2. ASSUME NEW w \in Workers, Fault(w) PROVE faults' # 0
    BY <1>1, <1>2 DEF Fault
<1>3. ASSUME NEW c \in Cancellers, CancelFault(c) PROVE faults' # 0
    BY <1>1, <1>3 DEF CancelFault
<1>4. ASSUME NEW w \in Workers, WorkerStep(w) PROVE faults' = faults
    BY <1>4, WorkerFrame DEF bounds
<1>5. ASSUME NEW c \in Cancellers, CancelStep(c) PROVE faults' = faults
    BY <1>5, CancelFrame DEF bounds
<1> QED
    BY <1>2, <1>3, <1>4, <1>5, StepKinds, BrokerFrame

\* A task is taken out of a terminal status, or made running, only by a
\* delivery that still owes it an end.
LEMMA RunningStep ==
    ASSUME TypeOK, [Next]_vars, NEW t \in Tasks, task'[t].status \notin Terminal,
           task[t].status \in Terminal \/ task'[t].status = "running",
           task'[t].status # task[t].status
    PROVE  Owed(t)'
<1>1. ASSUME NEW w \in Workers, WriteTask(w) PROVE Owed(t)'
    <2>1. /\ worker[w].task = t
          /\ worker[w].pc \in TaskStage
          /\ task'[t].status = Target(worker[w].pc)
          /\ Goto(w, After(worker[w]))
        BY <1>1 DEF WriteTask, TypeOK, RowsOK
    <2>2. worker[w].pc = "mark_running"
        BY <2>1 DEF TaskStage, Target, Terminal
    <2>3. Goto(w, "s_running")
        BY <2>1, <2>2 DEF After
    <2> QED
        BY <2>1, <2>3, HeldAgain DEF Owing, Stage, SessionStage
<1>2. ASSUME NEW c \in Cancellers, WriteCancelled(c) PROVE FALSE
    BY <1>2 DEF WriteCancelled, TypeOK, RowsOK, TaskRow, Terminal
<1>3. ASSUME NEW w \in Workers, Attach(w) PROVE FALSE
    BY <1>3 DEF Attach, TypeOK, RowsOK, TaskRow
<1>4. CASE task' = task
    BY <1>4
<1> QED
    BY <1>1, <1>2, <1>3, <1>4, TaskWriters

-----------------------------------------------------------------------------
(* The theorems.                                                           *)

\* A published task that is not settled is never forgotten in silence,
\* whatever crashes, races, redeliveries, retries and failing calls do.
THEOREM NoTaskIsLostSilently == Spec => []NoSilentLoss
<1>1. Init => NoSilentLoss
    BY DEF Init, NoSilentLoss
<1>2. TypeOK /\ NoSilentLoss /\ [Next]_vars => NoSilentLoss'
    <2> SUFFICES ASSUME TypeOK, NoSilentLoss, [Next]_vars, NEW t \in Tasks,
                        published'[t] > 0, task'[t].status \notin Terminal
                 PROVE  Owed(t)' \/ t \in revoked' \/ t \in abandoned'
        BY DEF NoSilentLoss
    <2>1. CASE task[t].status \in Terminal
        BY <2>1, RunningStep
    <2>2. CASE Publish(t)
        <3>1. 0 \in 0 .. MaxRetries
            BY ConstantsAssumption DEF ConstantsAssumption
        <3>2. <<t, 0>> \in Message
            BY <3>1 DEF Message
        <3>3. queue'[<<t, 0>>] > 0
            BY <2>2, <3>2 DEF Publish, TypeOK, BrokerOK
        <3> QED
            BY <3>1, <3>3, OwedAgain
    <2>3. CASE task[t].status \notin Terminal /\ ~Publish(t)
        <3>1. ASSUME NEW u \in Tasks, Publish(u) PROVE published[t] > 0
            BY <2>3, <3>1 DEF Publish, TypeOK, BrokerOK
        <3>2. ASSUME published' = published PROVE published[t] > 0
            BY <3>2
        <3>3. ASSUME NEW w \in Workers, WorkerStep(w) PROVE published' = published
            BY <3>3, WorkerFrame
        <3>4. ASSUME NEW c \in Cancellers, CancelStep(c) PROVE published' = published
            BY <3>4, CancelFrame
        <3>5. published[t] > 0
            BY <3>1, <3>2, <3>3, <3>4, StepKinds, BrokerFrame
        <3>6. Owed(t) \/ t \in revoked \/ t \in abandoned
            BY <2>3, <3>5 DEF NoSilentLoss
        <3> QED
            BY <3>6, OwedStep, RevokedKept, AbandonedKept DEF Excused
    <2> QED
        BY <2>1, <2>2, <2>3
<1> QED
    BY <1>1, <1>2, TypeCorrect, PTL DEF Spec

\* As long as no call fails, every task seen running is being worked on or
\* will be.
THEOREM RunningTasksAreOwed == Spec => []RunningIsOwed
<1>1. Init => RunningIsOwed
    BY DEF Init, RunningIsOwed
<1>2. TypeOK /\ RunningIsOwed /\ [Next]_vars => RunningIsOwed'
    <2> SUFFICES ASSUME TypeOK, RunningIsOwed, [Next]_vars, faults' = 0,
                        NEW t \in Tasks, task'[t].status = "running"
                 PROVE  Owed(t)' \/ t \in revoked'
        BY DEF RunningIsOwed
    <2>1. CASE task[t].status = "running"
        <3>1. Owed(t) \/ t \in revoked
            BY <2>1, FaultsKept DEF RunningIsOwed
        <3> QED
            BY <3>1, OwedStep, RevokedKept DEF Excused, Terminal
    <2>2. CASE task[t].status # "running"
        BY <2>2, RunningStep DEF Terminal
    <2> QED
        BY <2>1, <2>2
<1> QED
    BY <1>1, <1>2, TypeCorrect, PTL DEF Spec

\* A message of t waits, or a worker is at one.
Engaged(w, t) == worker[w].task = t /\ worker[w].pc # "idle"

InHand(t) ==
    \/ \E n \in 0 .. MaxRetries : queue[<<t, n>>] > 0
    \/ \E w \in Workers : Engaged(w, t)

LEMMA InHandAgain ==
    ASSUME NEW t \in Tasks,
           \/ \E n \in 0 .. MaxRetries : queue'[<<t, n>>] > 0
           \/ \E w \in Workers : worker'[w].task = t /\ worker'[w].pc # "idle"
    PROVE  InHand(t)'
BY DEF InHand, Engaged

\* How a delivery ends by a step of its own.
LEMMA HowItEnds ==
    ASSUME TypeOK, NEW w \in Workers, WorkerStep(w),
           worker[w].pc # "idle", worker'[w].pc = "idle"
    PROVE  \/ Cleanup(w)
           \/ ScheduleRetry(w) /\ ~(worker[w].retries + 1 > MaxRetries)
           \/ /\ worker[w].pc # "cleanup" /\ Raise(w)
              /\ Handler(worker[w].pc, worker[w].back) = "idle"
<1>w. worker[w] \in WorkerState
    BY DEF TypeOK, WorkersOK
<1>1. ASSUME NEW pc, Goto(w, pc) PROVE pc = "idle"
    BY <1>1 DEF Goto, TypeOK, WorkersOK, WorkerState
<1>2. CASE CheckCancelled(w) \/ LoadSession(w) \/ CreateSession(w) \/ Attach(w) \/ RunAgent(w)
           \/ SyncTask(w) \/ SyncSession(w)
    BY <1>1, <1>2 DEF CheckCancelled, LoadSession, CreateSession, Attach, RunAgent,
                      SyncTask, SyncSession
<1>3. CASE TakeSnapshot(w) \/ FinalRead(w)
    BY <1>3 DEF TakeSnapshot, FinalRead, TypeOK, WorkersOK, WorkerState
<1>4. CASE WriteTask(w) \/ WriteSession(w) \/ AppendEvent(w)
    <2>1. Goto(w, After(worker[w]))
          /\ worker[w].pc \in TaskStage \cup SessionStage \cup EventStage
        BY <1>4 DEF WriteTask, WriteSession, AppendEvent
    <2>2. After(worker[w]) # "idle"
        BY <1>w, <2>1 DEF After, WorkerState, TaskStage, SessionStage, EventStage
    <2> QED
        BY <1>1, <2>1, <2>2
<1>5. worker' # [worker EXCEPT ![w].checked = TRUE]
    BY DEF TypeOK, WorkersOK, WorkerState
<1>6. ASSUME Raise(w) PROVE Handler(worker[w].pc, worker[w].back) = "idle"
    BY <1>6 DEF Raise, TypeOK, WorkersOK, WorkerState
<1>7. CASE LoadInput(w)
    <2>1. Raise(w) /\ worker[w].pc = "load"
        BY <1>1, <1>7 DEF LoadInput
    <2> QED
        BY <1>6, <2>1
<1>8. CASE EnsureTask(w)
    <2>1. Raise(w) /\ worker[w].pc # "cleanup"
        BY <1>5, <1>8 DEF EnsureTask, TaskStage
    <2> QED
        BY <1>6, <2>1
<1>10. CASE EnsureSession(w)
    <2>1. Raise(w) /\ worker[w].pc # "cleanup"
        BY <1>5, <1>10 DEF EnsureSession, SessionStage
    <2> QED
        BY <1>6, <2>1
<1>9. CASE ScheduleRetry(w)
    BY <1>1, <1>9 DEF ScheduleRetry
<1> QED
    BY <1>2, <1>3, <1>4, <1>7, <1>8, <1>9, <1>10 DEF WorkerStep, Receive

\* Whatever a worker does by itself, its task stays in hand, or its input is
\* deleted, or the delivery ended by an exception.
LEMMA WorkerInHand ==
    ASSUME TypeOK, NEW t \in Tasks, NEW w \in Workers, Engaged(w, t), WorkerStep(w)
    PROVE  InHand(t)' \/ t \notin staged' \/ t \in abandoned'
<1>w. worker[w] \in WorkerState /\ worker[w].task = t /\ worker[w].pc # "idle"
    BY DEF Engaged, TypeOK, WorkersOK
<1>1. CASE worker'[w].pc # "idle"
    <2>1. worker'[w].task = t
        BY <1>w, <1>1, TaskKept DEF Receive
    <2> QED
        BY <1>1, <2>1, InHandAgain
<1>2. CASE Cleanup(w)
    BY <1>w, <1>2 DEF Cleanup
<1>3. CASE ScheduleRetry(w) /\ ~(worker[w].retries + 1 > MaxRetries)
    <2>1. worker[w].retries + 1 \in 0 .. MaxRetries
        BY <1>w, <1>3, ConstantsAssumption DEF WorkerState, ConstantsAssumption
    <2>2. <<t, worker[w].retries + 1>> \in Message
        BY <2>1 DEF Message
    <2>3. queue'[<<t, worker[w].retries + 1>>] > 0
        BY <1>w, <1>3, <2>2 DEF ScheduleRetry, TypeOK, BrokerOK
    <2> QED
        BY <2>1, <2>3, InHandAgain
<1>4. CASE /\ worker[w].pc # "cleanup" /\ Raise(w)
           /\ Handler(worker[w].pc, worker[w].back) = "idle"
    BY <1>w, <1>4 DEF Raise
<1> QED
    BY <1>w, <1>1, <1>2, <1>3, <1>4, HowItEnds

\* The same of one step of the system.
LEMMA DeliveryInHand ==
    ASSUME TypeOK, [Next]_vars, NEW t \in Tasks, NEW v \in Workers, Engaged(v, t)
    PROVE  \/ InHand(t)' \/ t \notin staged' \/ t \in abandoned' \/ t \in revoked'
           \/ faults' # 0
<1>w. worker[v] \in WorkerState /\ worker[v].task = t /\ worker[v].pc # "idle"
    BY DEF Engaged, TypeOK, WorkersOK
<1>1. CASE worker'[v] = worker[v]
    BY <1>w, <1>1, InHandAgain
<1>2. CASE WorkerStep(v)
    BY <1>2, WorkerInHand
<1>3. CASE Fault(v)
    BY <1>3 DEF Fault, TypeOK, HistoryOK
<1>4. CASE Crash(v)
    <2>1. worker[v].retries \in 0 .. MaxRetries
        BY <1>w DEF WorkerState
    <2>2. <<t, worker[v].retries>> \in Message
        BY <2>1 DEF Message
    <2>3. queue'[<<t, worker[v].retries>>] > 0
        BY <1>4, <1>w, <2>2 DEF Crash, TypeOK, BrokerOK
    <2> QED
        BY <2>1, <2>3, InHandAgain
<1>5. CASE Redeliver(v)
    BY <1>1, <1>5 DEF Redeliver
<1>6. CASE Kill(v)
    BY <1>6, <1>w DEF Kill, broker
<1>7. ASSUME NEW w \in Workers, w # v,
             WorkerStep(w) \/ Fault(w) \/ Crash(w) \/ Redeliver(w) \/ Kill(w)
      PROVE  worker'[v] = worker[v]
    BY <1>7, WorkersApart
<1>8. ASSUME NEW u \in Tasks, Publish(u) PROVE worker'[v] = worker[v]
    BY <1>8 DEF Publish
<1>9. ASSUME NEW m \in Message, Discard(m) PROVE worker'[v] = worker[v]
    BY <1>9 DEF Discard
<1>10. ASSUME NEW c \in Cancellers, CancelStep(c) \/ CancelFault(c)
       PROVE  worker'[v] = worker[v]
    BY <1>10, CancelFrame DEF CancelFault
<1>11. ASSUME UNCHANGED vars PROVE worker'[v] = worker[v]
    BY <1>11 DEF vars
<1> QED
    BY <1>1, <1>2, <1>3, <1>4, <1>5, <1>6, <1>7, <1>8, <1>9, <1>10, <1>11 DEF Next

\* And of a message that waits.
LEMMA MessageInHand ==
    ASSUME TypeOK, [Next]_vars, NEW t \in Tasks, NEW n \in 0 .. MaxRetries,
           queue[<<t, n>>] > 0
    PROVE  InHand(t)' \/ t \in revoked'
<1>q. <<t, n>> \in Message /\ queue \in [Message -> Nat]
    BY DEF Message, TypeOK, BrokerOK
<1>1. CASE queue'[<<t, n>>] > 0
    BY <1>1, InHandAgain
<1>2. ASSUME NEW w \in Workers, Receive(w) PROVE InHand(t)'
    <2>1. PICK m \in Message :
            /\ queue[m] > 0
            /\ queue' = [queue EXCEPT ![m] = @ - 1]
            /\ worker' = [worker EXCEPT ![w] =
                    [Idle EXCEPT !.pc = "check", !.task = m[1], !.retries = m[2]]]
        BY <1>2 DEF Receive
    <2>2. CASE m = <<t, n>>
        <3>1. worker'[w].task = t /\ worker'[w].pc = "check"
            BY <2>1, <2>2 DEF TypeOK, WorkersOK, Idle
        <3> QED
            BY <3>1, InHandAgain
    <2>3. CASE m # <<t, n>>
        <3>1. queue'[<<t, n>>] > 0
            BY <1>q, <2>1, <2>3
        <3> QED
            BY <3>1, InHandAgain
    <2> QED
        BY <2>2, <2>3
<1>3. ASSUME NEW m \in Message, Discard(m) PROVE InHand(t)' \/ t \in revoked'
    <2>1. CASE m = <<t, n>>
        BY <1>3, <2>1 DEF Discard
    <2>2. CASE m # <<t, n>>
        <3>1. queue'[<<t, n>>] > 0
            BY <1>3, <1>q, <2>2 DEF Discard
        <3> QED
            BY <3>1, InHandAgain
    <2> QED
        BY <2>1, <2>2
<1>4. ASSUME NEW w \in Workers, Crash(w) \/ Redeliver(w) PROVE queue'[<<t, n>>] > 0
    BY <1>4, <1>q DEF Crash, Redeliver
<1>5. ASSUME NEW w \in Workers, ScheduleRetry(w) PROVE queue'[<<t, n>>] > 0 \/ queue' = queue
    BY <1>5, <1>q DEF ScheduleRetry
<1>6. ASSUME NEW u \in Tasks, Publish(u) PROVE queue'[<<t, n>>] > 0
    BY <1>6, <1>q DEF Publish
<1>7. CASE queue' = queue
    BY <1>1, <1>7
<1>8. ASSUME NEW w \in Workers, WorkerStep(w) PROVE InHand(t)' \/ t \in revoked'
    BY <1>1, <1>2, <1>5, <1>7, <1>8, WorkerFrame
<1>9. ASSUME NEW c \in Cancellers, CancelStep(c) PROVE queue' = queue
    BY <1>9, CancelFrame
<1> QED
    BY <1>1, <1>3, <1>4, <1>6, <1>7, <1>8, <1>9, StepKinds, BrokerFrame

\* As long as no call fails, the input of a published task is not left
\* behind in silence, by any number of workers, duplicates and requests.
\* The invariant: until it is deleted, somebody has a message of its task.
THEOREM NoInputIsForgotten == Spec => []NoInputForgotten
<1> DEFINE InputOwed ==
        faults = 0 =>
            \A t \in staged :
                published[t] > 0 => InHand(t) \/ t \in revoked \/ t \in abandoned
<1>1. Init => InputOwed
    BY DEF Init
<1>2. TypeOK /\ InputOwed /\ [Next]_vars => InputOwed'
    <2> SUFFICES ASSUME TypeOK, InputOwed, [Next]_vars, faults' = 0,
                        NEW t \in staged', published'[t] > 0
                 PROVE  InHand(t)' \/ t \in revoked' \/ t \in abandoned'
        OBVIOUS
    <2>1. faults = 0 /\ t \in staged /\ t \in Tasks
        BY FaultsKept, FileWriters DEF Cleanup, TypeOK, RowsOK
    <2>2. CASE Publish(t)
        <3>1. 0 \in 0 .. MaxRetries
            BY ConstantsAssumption DEF ConstantsAssumption
        <3>2. <<t, 0>> \in Message
            BY <2>1, <3>1 DEF Message
        <3>3. queue'[<<t, 0>>] > 0
            BY <2>2, <3>2 DEF Publish, TypeOK, BrokerOK
        <3> QED
            BY <2>1, <3>1, <3>3, InHandAgain
    <2>3. CASE ~Publish(t)
        <3>1. ASSUME NEW u \in Tasks, Publish(u) PROVE published[t] > 0
            BY <2>1, <2>3, <3>1 DEF Publish, TypeOK, BrokerOK
        <3>2. ASSUME published' = published PROVE published[t] > 0
            BY <3>2
        <3>3. ASSUME NEW w \in Workers, WorkerStep(w) PROVE published' = published
            BY <3>3, WorkerFrame
        <3>4. ASSUME NEW c \in Cancellers, CancelStep(c) PROVE published' = published
            BY <3>4, CancelFrame
        <3>5. published[t] > 0
            BY <3>1, <3>2, <3>3, <3>4, StepKinds, BrokerFrame
        <3>6. InHand(t) \/ t \in revoked \/ t \in abandoned
            BY <2>1, <3>5
        <3>7. InHand(t) => InHand(t)' \/ t \in revoked' \/ t \in abandoned'
            BY <2>1, MessageInHand, DeliveryInHand DEF InHand
        <3> QED
            BY <3>6, <3>7, RevokedKept, AbandonedKept
    <2> QED
        BY <2>2, <2>3
<1>3. TypeOK /\ InputOwed => NoInputForgotten
    <2> SUFFICES ASSUME TypeOK, InputOwed, faults = 0, NEW t \in staged,
                        published[t] > 0, AtRest(t)
                 PROVE  t \in revoked \/ t \in abandoned
        BY DEF NoInputForgotten
    <2>1. \A n \in 0 .. MaxRetries : ~(queue[<<t, n>>] > 0)
        BY DEF AtRest
    <2>2. \A w \in Workers : ~Engaged(w, t)
        BY DEF AtRest, Engaged
    <2>3. ~InHand(t)
        BY <2>1, <2>2 DEF InHand
    <2> QED
        BY <2>3
<1> QED
    BY <1>1, <1>2, <1>3, TypeCorrect, PTL DEF Spec

\* Once every delivery of a published task has come to rest, the task is
\* settled, or its deliveries were revoked, or a failure handling of its own
\* raised; and unless some call failed it is not left running.
THEOREM RestIsSettled ==
    Spec => [](\A t \in Tasks : AtRest(t) =>
                  /\ published[t] > 0 =>
                         task[t].status \in Terminal \/ t \in revoked \/ t \in abandoned
                  /\ task[t].status = "running" => faults > 0 \/ t \in revoked)
<1> DEFINE Rests(t) == AtRest(t) =>
               /\ published[t] > 0 =>
                      task[t].status \in Terminal \/ t \in revoked \/ t \in abandoned
               /\ task[t].status = "running" => faults > 0 \/ t \in revoked
<1>1. ASSUME TypeOK, NoSilentLoss, RunningIsOwed, NEW t \in Tasks PROVE Rests(t)
    <2> SUFFICES ASSUME AtRest(t) PROVE Rests(t)
        OBVIOUS
    <2>1. \A n \in 0 .. MaxRetries : ~(queue[<<t, n>>] > 0)
        BY DEF AtRest
    <2>2. ~Owed(t)
        BY <2>1 DEF Owed, AtRest
    <2>3. faults = 0 \/ faults > 0
        BY <1>1 DEF TypeOK, HistoryOK
    <2>4. published[t] > 0 =>
              task[t].status \in Terminal \/ t \in revoked \/ t \in abandoned
        BY <1>1, <2>2 DEF NoSilentLoss
    <2>5. task[t].status = "running" => faults > 0 \/ t \in revoked
        BY <1>1, <2>2, <2>3 DEF RunningIsOwed
    <2> QED
        BY <2>4, <2>5
<1>2. TypeOK /\ NoSilentLoss /\ RunningIsOwed => \A t \in Tasks : Rests(t)
    BY <1>1
<1> QED
    BY <1>2, TypeCorrect, NoTaskIsLostSilently, RunningTasksAreOwed, PTL

\* A delivery that has not started its task stays in the stages before the
\* start, or ends, once the task is cancelled.
LEMMA QuietWorker ==
    ASSUME TypeOK, [Next]_vars, NEW t \in Tasks, QuietlyCancelled(t),
           NEW v \in Workers, worker'[v].task = t
    PROVE  worker'[v].pc \in {"check", "load", "snapshot", "retry", "final_read", "cleanup"}
<1> DEFINE Quiet == {"check", "load", "snapshot", "retry", "final_read", "cleanup"}
<1>w. /\ worker[v].task = t => worker[v].pc \in Quiet
      /\ task[t].status = "cancelled"
      /\ worker \in [Workers -> WorkerState]
      /\ NoTask # t
    BY ConstantsAssumption DEF QuietlyCancelled, NotStarted, TypeOK, WorkersOK,
                               ConstantsAssumption
<1>1. CASE worker'[v] = worker[v]
    BY <1>1, <1>w
<1>2. CASE Receive(v)
    BY <1>2, <1>w DEF Receive, Idle
<1>3. CASE worker' = [worker EXCEPT ![v] = Idle]
    BY <1>3, <1>w DEF Idle
<1>4. CASE Raise(v)
    <2>1. CASE Handler(worker[v].pc, worker[v].back) = "idle"
        BY <1>4, <1>3, <2>1 DEF Raise
    <2>2. CASE Handler(worker[v].pc, worker[v].back) # "idle"
        <3>1. /\ worker'[v].task = worker[v].task
              /\ worker'[v].pc = Handler(worker[v].pc, worker[v].back)
            BY <1>4, <1>w, <2>2 DEF Raise, WorkerState
        <3> QED
            BY <1>w, <2>2, <3>1 DEF Handler
    <2> QED
        BY <2>1, <2>2
<1>5. CASE CheckCancelled(v) \/ TakeSnapshot(v) \/ FinalRead(v)
    BY <1>5, <1>w DEF CheckCancelled, TakeSnapshot, FinalRead, Goto, WorkerState, Terminal
<1>6. CASE LoadInput(v) \/ ScheduleRetry(v)
    BY <1>3, <1>4, <1>6, <1>w DEF LoadInput, ScheduleRetry, Goto, WorkerState
<1>7. CASE WorkerStep(v)
    <2>2. CASE worker[v].task = t
        BY <1>2, <1>3, <1>5, <1>6, <1>7, <1>w, <2>2
        DEF WorkerStep, LoadSession, CreateSession, Attach, RunAgent, EnsureTask,
            WriteTask, EnsureSession, WriteSession, AppendEvent, SyncTask, SyncSession,
            Cleanup, TaskStage, SessionStage, EventStage
    <2>3. CASE worker[v].task # t
        <3> DEFINE Kept == worker'[v].task \in {worker[v].task, NoTask}
        <3>a. ASSUME NEW pc, Goto(v, pc) PROVE Kept
            BY <1>w, <3>a DEF Goto, WorkerState
        <3>b. ASSUME Raise(v) PROVE Kept
            BY <1>w, <3>b DEF Raise, Idle, WorkerState
        <3>c. ASSUME worker' = [worker EXCEPT ![v] = Idle] PROVE Kept
            BY <1>w, <3>c DEF Idle
        <3>d. ASSUME TakeSnapshot(v) \/ FinalRead(v) PROVE Kept
            BY <1>w, <3>d DEF TakeSnapshot, FinalRead, WorkerState
        <3>e. ASSUME EnsureTask(v) \/ EnsureSession(v) PROVE Kept
            BY <1>w, <3>b, <3>e DEF EnsureTask, EnsureSession, WorkerState
        <3>f. ASSUME LoadInput(v) \/ ScheduleRetry(v) \/ Cleanup(v) PROVE Kept
            BY <3>a, <3>b, <3>c, <3>f DEF LoadInput, ScheduleRetry, Cleanup
        <3>g. ASSUME \/ CheckCancelled(v) \/ LoadSession(v) \/ CreateSession(v) \/ Attach(v)
                     \/ RunAgent(v) \/ WriteTask(v) \/ WriteSession(v) \/ AppendEvent(v)
                     \/ SyncTask(v) \/ SyncSession(v)
              PROVE  Kept
            BY <3>a, <3>g DEF CheckCancelled, LoadSession, CreateSession, Attach, RunAgent,
                WriteTask, WriteSession, AppendEvent, SyncTask, SyncSession
        <3>1. Kept \/ Receive(v)
            BY <1>7, <3>d, <3>e, <3>f, <3>g DEF WorkerStep
        <3> QED
            BY <1>2, <1>w, <2>3, <3>1
    <2> QED
        BY <2>2, <2>3
<1>8. CASE Fault(v) \/ Crash(v) \/ Kill(v) \/ Redeliver(v)
    BY <1>1, <1>3, <1>4, <1>8 DEF Fault, Crash, Kill, Redeliver
<1>9. ASSUME NEW w \in Workers, w # v,
             WorkerStep(w) \/ Fault(w) \/ Crash(w) \/ Redeliver(w) \/ Kill(w)
      PROVE  worker'[v] = worker[v]
    BY <1>9, WorkersApart
<1>10. CASE worker' = worker
    BY <1>1, <1>10
<1>11. ASSUME NEW c \in Cancellers, CancelStep(c) \/ CancelFault(c) PROVE worker' = worker
    BY <1>11, CancelFrame DEF CancelFault
<1>12. CASE (\E u \in Tasks : Publish(u)) \/ (\E m \in Message : Discard(m))
    BY <1>10, <1>12 DEF Publish, Discard
<1>13. CASE UNCHANGED vars
    BY <1>10, <1>13 DEF vars
<1> QED
    BY <1>1, <1>7, <1>8, <1>9, <1>10, <1>11, <1>12, <1>13, StepKinds

\* A task that is cancelled before any delivery has taken its snapshot stays
\* cancelled and is never started, whatever is delivered to whom and when.
THEOREM EarlyCancellationsHold == Spec => EarlyCancelHolds
<1> DEFINE Stays == \A t \in Tasks : QuietlyCancelled(t) => QuietlyCancelled(t)'
<1>1. TypeOK /\ [Next]_vars => Stays
    <2> SUFFICES ASSUME TypeOK, [Next]_vars, NEW t \in Tasks, QuietlyCancelled(t)
                 PROVE  QuietlyCancelled(t)'
        OBVIOUS
    <2>1. NotStarted(t)'
        BY QuietWorker DEF NotStarted
    <2>2. task'[t].status = "cancelled"
        <3>0. /\ task \in [Tasks -> TaskRow]
              /\ task[t].status = "cancelled"
            BY DEF QuietlyCancelled, TypeOK, RowsOK
        <3>1. ASSUME NEW w \in Workers, Attach(w) \/ WriteTask(w)
              PROVE  task'[t] = task[t]
            BY <3>0, <3>1 DEF Attach, WriteTask, QuietlyCancelled, NotStarted, TaskStage
        <3>2. ASSUME NEW c \in Cancellers, WriteCancelled(c)
              PROVE  task'[t].status = "cancelled"
            BY <3>0, <3>2 DEF WriteCancelled, TaskRow
        <3>3. ASSUME task' = task PROVE task'[t] = task[t]
            BY <3>3
        <3> QED
            BY <3>0, <3>1, <3>2, <3>3, TaskWriters
    <2> QED
        BY <2>1, <2>2 DEF QuietlyCancelled
<1>2. TypeOK /\ [Next]_vars => [Stays]_vars
    BY <1>1
<1> QED
    BY <1>2, TypeCorrect, PTL DEF Spec, EarlyCancelHolds

-----------------------------------------------------------------------------
(* Every delivery and every cancel request comes to an end: a rank that    *)
(* each of its own steps lowers, the failing and the lost ones included.   *)

SyncStage == {"sync_task", "sync_failed", "sync_session", "sync_s_failed", "ev_sync"}

\* How far stage pc of the normal and of the failure paths is from idle.
\* The gaps after ev_failed and mark_failed hold the five stages of the sync
\* handler, which returns to one of them.
Place(pc) ==
    CASE pc = "idle" -> 0
      [] pc = "cleanup" -> 1
      [] pc = "ev_final" -> 2
      [] pc = "final_s_failed" -> 3
      [] pc = "final_failed" -> 4
      [] pc = "final_read" -> 5
      [] pc = "retry" -> 6
      [] pc = "ev_failed" -> 7
      [] pc = "s_failed" -> 13
      [] pc = "mark_failed" -> 14
      [] pc = "ev_completed" -> 20
      [] pc = "s_completed" -> 21
      [] pc = "mark_completed" -> 22
      [] pc = "agent" -> 23
      [] pc = "ev_started" -> 24
      [] pc = "s_running" -> 25
      [] pc = "mark_running" -> 26
      [] pc = "attach" -> 27
      [] pc = "create" -> 28
      [] pc = "session" -> 29
      [] pc = "snapshot" -> 30
      [] pc = "load" -> 31
      [] pc = "check" -> 32

SyncPlace(pc) ==
    CASE pc = "ev_sync" -> 1
      [] pc = "sync_s_failed" -> 2
      [] pc = "sync_session" -> 3
      [] pc = "sync_failed" -> 4
      [] pc = "sync_task" -> 5

StageRank(pc, back) ==
    IF pc \in SyncStage THEN Place(back) + SyncPlace(pc) ELSE Place(pc)

\* A status change whose check has passed has one step less to go.
Rank(wk) ==
    2 * StageRank(wk.pc, wk.back)
        - IF wk.checked /\ wk.pc \in TaskStage \cup SessionStage THEN 1 ELSE 0

LEMMA Places ==
    /\ Place("idle") = 0 /\ Place("cleanup") = 1 /\ Place("ev_final") = 2
    /\ Place("final_s_failed") = 3 /\ Place("final_failed") = 4 /\ Place("final_read") = 5
    /\ Place("retry") = 6 /\ Place("ev_failed") = 7 /\ Place("s_failed") = 13
    /\ Place("mark_failed") = 14 /\ Place("ev_completed") = 20 /\ Place("s_completed") = 21
    /\ Place("mark_completed") = 22 /\ Place("agent") = 23 /\ Place("ev_started") = 24
    /\ Place("s_running") = 25 /\ Place("mark_running") = 26 /\ Place("attach") = 27
    /\ Place("create") = 28 /\ Place("session") = 29 /\ Place("snapshot") = 30
    /\ Place("load") = 31 /\ Place("check") = 32
BY DEF Place

LEMMA SyncPlaces ==
    /\ SyncPlace("ev_sync") = 1 /\ SyncPlace("sync_s_failed") = 2
    /\ SyncPlace("sync_session") = 3 /\ SyncPlace("sync_failed") = 4
    /\ SyncPlace("sync_task") = 5
BY DEF SyncPlace

LEMMA StageRanks ==
    ASSUME NEW pc \in Stage \cup {"idle"}, NEW back \in {"mark_failed", "ev_failed"}
    PROVE  /\ StageRank(pc, back) \in 0 .. 32
           /\ StageRank(pc, back) = 0 <=> pc = "idle"
<1>1. CASE pc \in SyncStage
    <2>1. SyncPlace(pc) \in 1 .. 5
        BY <1>1, SyncPlaces DEF SyncStage
    <2>2. Place(back) \in {7, 14}
        BY Places
    <2>3. StageRank(pc, back) = Place(back) + SyncPlace(pc) /\ pc # "idle"
        BY <1>1 DEF StageRank, SyncStage
    <2> QED
        BY <2>1, <2>2, <2>3
<1>2. CASE pc \notin SyncStage
    <2>1. StageRank(pc, back) = Place(pc)
        BY <1>2 DEF StageRank
    <2>2. Place(pc) \in 0 .. 32 /\ (Place(pc) = 0 <=> pc = "idle")
        BY <1>2, Places DEF SyncStage, Stage, TaskStage, SessionStage, EventStage, ReadStage
    <2> QED
        BY <2>1, <2>2
<1> QED
    BY <1>1, <1>2

\* A move to a lower place lowers the rank, whatever the flag was.
LEMMA LowerPlace ==
    ASSUME NEW wk \in WorkerState, NEW new \in WorkerState, ~new.checked,
           StageRank(new.pc, new.back) < StageRank(wk.pc, wk.back)
    PROVE  Rank(new) < Rank(wk)
<1>1. /\ StageRank(wk.pc, wk.back) \in Int
      /\ StageRank(new.pc, new.back) \in Int
    BY StageRanks DEF WorkerState
<1> QED
    BY <1>1 DEF Rank

LEMMA OutsideSync ==
    ASSUME NEW pc, pc \notin SyncStage, NEW back
    PROVE  StageRank(pc, back) = Place(pc)
BY DEF StageRank

LEMMA InsideSync ==
    ASSUME NEW pc \in SyncStage, NEW back
    PROVE  StageRank(pc, back) = Place(back) + SyncPlace(pc)
BY DEF StageRank

\* An exception is caught further down.
LEMMA HandlerLower ==
    ASSUME NEW pc \in Stage, NEW back \in {"mark_failed", "ev_failed"}, NEW new,
           new = IF pc = "s_completed" THEN "mark_failed"
                 ELSE IF pc \in {"mark_failed", "s_failed"} THEN "ev_failed" ELSE back
    PROVE  StageRank(Handler(pc, back), new) < StageRank(pc, back)
<1> DEFINE low == Handler(pc, back)
<1>1. CASE pc \in SyncStage
    <2>1. new = back
        BY <1>1 DEF SyncStage
    <2>2. \/ pc \in {"sync_task", "sync_failed"} /\ low = "sync_session"
          \/ pc \in {"sync_session", "sync_s_failed"} /\ low = "ev_sync"
          \/ pc = "ev_sync" /\ low = back
        BY <1>1 DEF Handler, SyncStage
    <2> HIDE DEF low
    <2>3. StageRank(pc, back) = Place(back) + SyncPlace(pc)
        BY <1>1, InsideSync
    <2>4. Place(back) \in {7, 14}
        BY Places
    <2>5. CASE pc = "ev_sync"
        <3>1. StageRank(low, new) = Place(back)
            BY <2>1, <2>2, <2>5, OutsideSync DEF SyncStage
        <3> QED
            BY <2>3, <2>4, <2>5, <3>1, SyncPlaces DEF low
    <2>6. CASE pc # "ev_sync"
        <3>1. low \in SyncStage
            BY <2>2, <2>6 DEF SyncStage
        <3>2. StageRank(low, new) = Place(back) + SyncPlace(low)
            BY <2>1, <3>1, InsideSync
        <3>3. SyncPlace(low) < SyncPlace(pc) /\ SyncPlace(pc) \in Int /\ SyncPlace(low) \in Int
            BY <2>2, <2>6, SyncPlaces
        <3> QED
            BY <2>3, <2>4, <3>2, <3>3 DEF low
    <2> QED
        BY <2>5, <2>6
<1>2. CASE pc \in {"s_completed", "mark_failed", "s_failed"}
    <2>1. low = "sync_task"
        BY <1>2 DEF Handler
    <2>2. StageRank(low, new) = Place(new) + 5
        BY <2>1, InsideSync, SyncPlaces DEF SyncStage
    <2>3. StageRank(pc, back) = Place(pc)
        BY <1>2, OutsideSync DEF SyncStage
    <2> HIDE DEF low
    <2> QED
        BY <1>2, <2>2, <2>3, Places DEF low
<1>3. CASE pc \notin SyncStage \cup {"s_completed", "mark_failed", "s_failed"}
    <2>1. StageRank(pc, back) = Place(pc)
        BY <1>3, OutsideSync
    <2>2. \/ low = "final_read" /\ pc \in {"check", "load", "snapshot", "session", "create",
                                       "attach", "mark_running", "s_running", "ev_started",
                                       "ev_failed"}
          \/ low = "mark_failed" /\ pc \in {"agent", "mark_completed", "ev_completed"}
          \/ low = "ev_final" /\ pc = "final_s_failed"
          \/ low = "idle" /\ pc \in {"cleanup", "ev_final", "final_failed", "final_read", "retry"}
        BY <1>3 DEF Handler, SyncStage, Stage, TaskStage, SessionStage, EventStage, ReadStage
    <2> HIDE DEF low
    <2>3. StageRank(low, new) = Place(low)
        BY <2>2, OutsideSync DEF SyncStage
    <2>4. Place(low) < Place(pc)
        BY <2>2, Places
    <2> QED
        BY <2>1, <2>3, <2>4 DEF low
<1> QED
    BY <1>1, <1>2, <1>3

LEMMA AfterLower ==
    ASSUME NEW wk \in WorkerState, wk.pc \in TaskStage \cup SessionStage \cup EventStage
    PROVE  StageRank(After(wk), wk.back) < StageRank(wk.pc, wk.back)
<1> DEFINE next == After(wk)
<1>w. wk.back \in {"mark_failed", "ev_failed"}
    BY DEF WorkerState
<1>1. CASE wk.pc \in SyncStage
    <2>1. \/ wk.pc = "sync_failed" /\ next = "sync_session"
          \/ wk.pc = "sync_s_failed" /\ next = "ev_sync"
          \/ wk.pc = "ev_sync" /\ next = wk.back
        BY <1>1 DEF After, SyncStage, TaskStage, SessionStage, EventStage
    <2> HIDE DEF next
    <2>2. StageRank(wk.pc, wk.back) = Place(wk.back) + SyncPlace(wk.pc)
        BY <1>1, InsideSync
    <2>3. Place(wk.back) \in {7, 14}
        BY <1>w, Places
    <2>4. CASE wk.pc = "ev_sync"
        <3>1. StageRank(next, wk.back) = Place(wk.back)
            BY <1>w, <2>1, <2>4, OutsideSync DEF SyncStage
        <3> QED
            BY <2>2, <2>3, <2>4, <3>1, SyncPlaces DEF next
    <2>5. CASE wk.pc # "ev_sync"
        <3>1. StageRank(next, wk.back) = Place(wk.back) + SyncPlace(next)
            BY <2>1, <2>5, InsideSync DEF SyncStage
        <3> QED
            BY <2>1, <2>2, <2>3, <2>5, <3>1, SyncPlaces DEF next
    <2> QED
        BY <2>4, <2>5
<1>2. CASE wk.pc \notin SyncStage
    <2>1. \/ wk.pc = "mark_running" /\ next = "s_running"
          \/ wk.pc = "s_running" /\ next = "ev_started"
          \/ wk.pc = "ev_started" /\ next = "agent"
          \/ wk.pc = "mark_completed" /\ next = "s_completed"
          \/ wk.pc = "s_completed" /\ next = "ev_completed"
          \/ wk.pc = "mark_failed" /\ next = "s_failed"
          \/ wk.pc = "s_failed" /\ next = "ev_failed"
          \/ wk.pc = "ev_failed" /\ next = "final_read"
          \/ wk.pc = "final_failed" /\ next \in {"final_s_failed", "ev_final"}
          \/ wk.pc = "final_s_failed" /\ next = "ev_final"
          \/ wk.pc \in {"ev_completed", "ev_final"} /\ next = "cleanup"
        BY <1>2 DEF After, SyncStage, TaskStage, SessionStage, EventStage
    <2> HIDE DEF next
    <2>2. StageRank(wk.pc, wk.back) = Place(wk.pc)
        BY <1>2, OutsideSync
    <2>3. StageRank(next, wk.back) = Place(next)
        BY <2>1, OutsideSync DEF SyncStage
    <2>4. Place(next) < Place(wk.pc)
        BY <2>1, Places
    <2> QED
        BY <2>2, <2>3, <2>4 DEF next
<1> QED
    BY <1>1, <1>2

LEMMA MovedLower ==
    ASSUME TypeOK, TypeOK', NEW w \in Workers, NEW pc, NEW back,
           worker'[w].pc = pc, worker'[w].back = back, ~worker'[w].checked,
           StageRank(pc, back) < StageRank(worker[w].pc, worker[w].back)
    PROVE  Rank(worker'[w]) < Rank(worker[w])
<1>1. worker[w] \in WorkerState /\ worker'[w] \in WorkerState
    BY DEF TypeOK, WorkersOK
<1> QED
    BY <1>1, LowerPlace

LEMMA GotoLower ==
    ASSUME TypeOK, TypeOK', NEW w \in Workers, NEW pc, Goto(w, pc),
           StageRank(pc, worker[w].back) < StageRank(worker[w].pc, worker[w].back)
    PROVE  Rank(worker'[w]) < Rank(worker[w])
<1>1. /\ worker'[w].pc = pc
      /\ worker'[w].back = worker[w].back
      /\ ~worker'[w].checked
    BY DEF Goto, TypeOK, WorkersOK, WorkerState
<1> QED
    BY <1>1, MovedLower

LEMMA IdleLower ==
    ASSUME TypeOK, TypeOK', NEW w \in Workers, worker[w].pc # "idle",
           worker' = [worker EXCEPT ![w] = Idle]
    PROVE  Rank(worker'[w]) < Rank(worker[w])
<1>1. worker[w] \in WorkerState /\ worker'[w] = Idle
    BY DEF TypeOK, WorkersOK
<1>2. StageRank(Idle.pc, Idle.back) = 0
    BY Places, OutsideSync DEF Idle, SyncStage
<1>3. StageRank(worker[w].pc, worker[w].back) \in 1 .. 32
    BY <1>1, StageRanks DEF WorkerState
<1>4. worker'[w].pc = Idle.pc /\ worker'[w].back = Idle.back /\ ~worker'[w].checked
    BY <1>1 DEF Idle
<1> QED
    BY <1>2, <1>3, <1>4, MovedLower

LEMMA RaiseLower ==
    ASSUME TypeOK, TypeOK', NEW w \in Workers, worker[w].pc # "idle", Raise(w)
    PROVE  Rank(worker'[w]) < Rank(worker[w])
<1> DEFINE pc == worker[w].pc
           handler == Handler(pc, worker[w].back)
           back == IF pc = "s_completed" THEN "mark_failed"
                   ELSE IF pc \in {"mark_failed", "s_failed"} THEN "ev_failed"
                   ELSE worker[w].back
<1>1. CASE handler = "idle"
    BY <1>1, IdleLower DEF Raise
<1>2. CASE handler # "idle"
    <2>1. /\ worker'[w].pc = handler
          /\ worker'[w].back = back
          /\ ~worker'[w].checked
        BY <1>2 DEF Raise, TypeOK, WorkersOK, WorkerState
    <2>2. pc \in Stage /\ worker[w].back \in {"mark_failed", "ev_failed"}
        BY DEF TypeOK, WorkersOK, WorkerState
    <2>3. StageRank(handler, back) < StageRank(pc, worker[w].back)
        BY <2>2, HandlerLower
    <2> HIDE DEF handler, back
    <2> QED
        BY <2>1, <2>3, MovedLower
<1> QED
    BY <1>1, <1>2

LEMMA ChecksLower ==
    ASSUME TypeOK, NEW w \in Workers, ~worker[w].checked,
           worker[w].pc \in TaskStage \cup SessionStage,
           worker' = [worker EXCEPT ![w].checked = TRUE]
    PROVE  Rank(worker'[w]) < Rank(worker[w])
<1>1. /\ worker'[w].pc = worker[w].pc
      /\ worker'[w].back = worker[w].back
      /\ worker'[w].checked
    BY DEF TypeOK, WorkersOK, WorkerState
<1>2. StageRank(worker[w].pc, worker[w].back) \in Int
    BY StageRanks DEF TypeOK, WorkersOK, WorkerState
<1> QED
    BY <1>1, <1>2 DEF Rank

\* The reads that choose the next stage.
LEMMA ReadLower ==
    ASSUME TypeOK, TypeOK', NEW w \in Workers,
           CheckCancelled(w) \/ LoadSession(w) \/ CreateSession(w) \/ Attach(w)
               \/ RunAgent(w) \/ SyncTask(w) \/ SyncSession(w)
    PROVE  Rank(worker'[w]) < Rank(worker[w])
<1> DEFINE old == worker[w].pc
<1>w. worker[w].back \in {"mark_failed", "ev_failed"}
    BY DEF TypeOK, WorkersOK, WorkerState
<1>1. PICK pc \in Stage :
         /\ Goto(w, pc)
         /\ \/ old = "check" /\ pc \in {"cleanup", "load"}
            \/ old = "session" /\ pc \in {"create", "final_read", "attach"}
            \/ old = "create" /\ pc = "attach"
            \/ old = "attach" /\ pc \in {"mark_running", "agent"}
            \/ old = "agent" /\ pc \in {"mark_completed", "mark_failed", "retry"}
            \/ old = "sync_task" /\ pc \in {"sync_session", "sync_failed"}
            \/ old = "sync_session" /\ pc \in {"ev_sync", "sync_s_failed"}
    BY DEF CheckCancelled, LoadSession, CreateSession, Attach, RunAgent, SyncTask,
           SyncSession, Stage, TaskStage, SessionStage, EventStage, ReadStage
<1> HIDE DEF old
<1>2. CASE old \in {"sync_task", "sync_session"}
    <2>1. pc \in SyncStage /\ old \in SyncStage
        BY <1>1, <1>2 DEF SyncStage
    <2>2. SyncPlace(pc) < SyncPlace(old) /\ SyncPlace(pc) \in Int /\ SyncPlace(old) \in Int
        BY <1>1, <1>2, SyncPlaces
    <2>3. Place(worker[w].back) \in Int
        BY <1>w, Places
    <2> QED
        BY <1>1, <2>1, <2>2, <2>3, InsideSync, GotoLower DEF old
<1>3. CASE old \notin {"sync_task", "sync_session"}
    <2>1. pc \notin SyncStage /\ old \notin SyncStage
        BY <1>1, <1>3 DEF SyncStage
    <2>2. Place(pc) < Place(old)
        BY <1>1, <1>3, Places
    <2> QED
        BY <1>1, <2>1, <2>2, OutsideSync, GotoLower DEF old
<1> QED
    BY <1>2, <1>3

\* Its own step brings a delivery nearer to its end.
LEMMA DeliveryLower ==
    ASSUME TypeOK, TypeOK', NEW w \in Workers, worker[w].pc # "idle",
           WorkerStep(w) \/ Fault(w) \/ Crash(w) \/ Kill(w)
    PROVE  Rank(worker'[w]) < Rank(worker[w])
<1>w. /\ worker[w] \in WorkerState
      /\ worker[w].back \in {"mark_failed", "ev_failed"}
    BY DEF TypeOK, WorkersOK, WorkerState
<1>1. CASE Fault(w)
    BY <1>1, RaiseLower DEF Fault
<1>2. CASE Crash(w) \/ Kill(w) \/ Cleanup(w)
    BY <1>2, IdleLower DEF Crash, Kill, Cleanup
<1>3. CASE LoadInput(w)
    <2>1. worker[w].pc = "load"
        BY <1>3 DEF LoadInput
    <2>2. ASSUME NEW pc \in {"snapshot", "retry"}, Goto(w, pc)
          PROVE  Rank(worker'[w]) < Rank(worker[w])
        <3>1. StageRank(pc, worker[w].back) < StageRank(worker[w].pc, worker[w].back)
            BY <2>1, Places, OutsideSync DEF SyncStage
        <3> QED
            BY <2>2, <3>1, GotoLower
    <2> QED
        BY <1>3, <2>2, RaiseLower DEF LoadInput
<1>4. CASE TakeSnapshot(w)
    <2>1. /\ worker[w].pc = "snapshot"
          /\ worker'[w].pc \in {"cleanup", "final_read", "session"}
          /\ worker'[w].back = worker[w].back
        BY <1>4, <1>w DEF TakeSnapshot, TypeOK, WorkersOK, WorkerState
    <2>2. /\ StageRank(worker[w].pc, worker[w].back) = 30
          /\ StageRank(worker'[w].pc, worker'[w].back) \in {1, 5, 29}
        BY <2>1, Places, OutsideSync DEF SyncStage
    <2> QED
        BY <2>2 DEF Rank
<1>5. CASE FinalRead(w)
    <2>1. /\ worker[w].pc = "final_read"
          /\ worker'[w].pc \in {"cleanup", "final_failed"}
          /\ worker'[w].back = worker[w].back
          /\ ~worker'[w].checked
        BY <1>5, <1>w DEF FinalRead, TypeOK, WorkersOK, WorkerState
    <2>2. /\ StageRank(worker[w].pc, worker[w].back) = 5
          /\ StageRank(worker'[w].pc, worker'[w].back) \in {1, 4}
        BY <2>1, Places, OutsideSync DEF SyncStage
    <2> QED
        BY <2>1, <2>2, MovedLower
<1>6. CASE ScheduleRetry(w)
    <2>1. worker[w].pc = "retry"
        BY <1>6 DEF ScheduleRetry
    <2>2. StageRank("final_read", worker[w].back) < StageRank("retry", worker[w].back)
        BY Places, OutsideSync DEF SyncStage
    <2> QED
        BY <1>6, <2>1, <2>2, GotoLower, IdleLower DEF ScheduleRetry
<1>7. CASE EnsureTask(w) \/ EnsureSession(w)
    BY <1>7, ChecksLower, RaiseLower DEF EnsureTask, EnsureSession
<1>8. CASE WriteTask(w) \/ WriteSession(w) \/ AppendEvent(w)
    <2>1. /\ Goto(w, After(worker[w]))
          /\ worker[w].pc \in TaskStage \cup SessionStage \cup EventStage
        BY <1>8 DEF WriteTask, WriteSession, AppendEvent
    <2> QED
        BY <1>w, <2>1, AfterLower, GotoLower
<1>9. ~Receive(w)
    BY DEF Receive
<1> QED
    BY <1>1, <1>2, <1>3, <1>4, <1>5, <1>6, <1>7, <1>8, <1>9, ReadLower DEF WorkerStep

\* Nobody but the broker gives a delivery more to do: whatever races, fails
\* or is lost, each change of a worker that holds a message brings it nearer
\* to idle, and its rank says how many changes there can still be.  So the
\* retry, the state sync handler and the failure handling, which hand the
\* delivery to each other, can never hand it round in a circle.
THEOREM DeliveriesRunDown ==
    Spec => [][\A w \in Workers :
                  worker[w].pc # "idle" /\ worker'[w] # worker[w] =>
                      /\ Rank(worker[w]) \in 1 .. 64
                      /\ Rank(worker'[w]) \in 0 .. 64
                      /\ Rank(worker'[w]) < Rank(worker[w])]_vars
<1> DEFINE Lower ==
        \A w \in Workers :
            worker[w].pc # "idle" /\ worker'[w] # worker[w] =>
                /\ Rank(worker[w]) \in 1 .. 64
                /\ Rank(worker'[w]) \in 0 .. 64
                /\ Rank(worker'[w]) < Rank(worker[w])
<1>1. TypeOK /\ TypeOK' /\ [Next]_vars => Lower
    <2> SUFFICES ASSUME TypeOK, TypeOK', [Next]_vars, NEW w \in Workers,
                        worker[w].pc # "idle", worker'[w] # worker[w]
                 PROVE  /\ Rank(worker[w]) \in 1 .. 64
                        /\ Rank(worker'[w]) \in 0 .. 64
                        /\ Rank(worker'[w]) < Rank(worker[w])
        OBVIOUS
    <2>1. WorkerStep(w) \/ Fault(w) \/ Crash(w) \/ Kill(w)
        <3>1. ASSUME NEW v \in Workers, v # w,
                     WorkerStep(v) \/ Fault(v) \/ Crash(v) \/ Redeliver(v) \/ Kill(v)
              PROVE  FALSE
            BY <3>1, WorkersApart
        <3>2. ~Redeliver(w)
            BY DEF Redeliver
        <3>3. ASSUME NEW c \in Cancellers, CancelStep(c) \/ CancelFault(c) PROVE FALSE
            BY <3>3, CancelFrame DEF CancelFault
        <3>4. ~((\E t \in Tasks : Publish(t)) \/ (\E m \in Message : Discard(m)))
            BY DEF Publish, Discard
        <3>5. ~UNCHANGED vars
            BY DEF vars
        <3> QED
            BY <3>1, <3>2, <3>3, <3>4, <3>5, StepKinds
    <2>2. worker[w] \in WorkerState /\ worker'[w] \in WorkerState
        BY DEF TypeOK, WorkersOK
    <2>3. /\ StageRank(worker[w].pc, worker[w].back) \in 1 .. 32
          /\ StageRank(worker'[w].pc, worker'[w].back) \in 0 .. 32
        BY <2>2, StageRanks DEF WorkerState
    <2>4. Rank(worker[w]) \in 1 .. 64
        BY <2>3 DEF Rank
    <2>5. Rank(worker'[w]) \in 0 .. 64
        <3>1. CASE worker'[w].pc = "idle"
            BY <2>3, <3>1 DEF Rank, TaskStage, SessionStage
        <3>2. CASE worker'[w].pc # "idle"
            <4>1. StageRank(worker'[w].pc, worker'[w].back) \in 1 .. 32
                BY <2>2, <3>2, StageRanks DEF WorkerState
            <4> QED
                BY <4>1 DEF Rank
        <3> QED
            BY <3>1, <3>2
    <2> QED
        BY <2>1, <2>4, <2>5, DeliveryLower
<1>2. TypeOK /\ TypeOK' /\ [Next]_vars => [Lower]_vars
    BY <1>1
<1> QED
    BY <1>2, TypeCorrect, PTL DEF Spec

\* How far a cancel request is from its answer, or from its next record.
CancelPlace(pc) ==
    CASE pc \in {"done", "error"} -> 0
      [] pc = "pick" -> 1
      [] pc = "revoke" -> 2
      [] pc \in {"ev_cancelled", "ev_recover"} -> 3
      [] pc = "s_recover" -> 4
      [] pc = "s_cancel" -> 5
      [] pc = "cancel" -> 6

CancelRank(cl) ==
    2 * CancelPlace(cl.pc)
        - IF cl.checked /\ cl.pc \in {"cancel", "s_cancel", "s_recover"} THEN 1 ELSE 0

LEMMA CancelPlaces ==
    /\ CancelPlace("done") = 0 /\ CancelPlace("error") = 0 /\ CancelPlace("pick") = 1
    /\ CancelPlace("revoke") = 2 /\ CancelPlace("ev_cancelled") = 3
    /\ CancelPlace("ev_recover") = 3 /\ CancelPlace("s_recover") = 4
    /\ CancelPlace("s_cancel") = 5 /\ CancelPlace("cancel") = 6
BY DEF CancelPlace

LEMMA CancelRankOK ==
    ASSUME NEW cl \in CancellerState, cl.pc # "idle"
    PROVE  /\ CancelRank(cl) \in 0 .. 12
           /\ CancelRank(cl) = 0 <=> cl.pc \in {"done", "error"}
<1>1. cl.pc \in CancelStage \cup {"done", "error"}
    BY DEF CancellerState
<1>2. CancelPlace(cl.pc) \in 0 .. 6 /\ (CancelPlace(cl.pc) = 0 <=> cl.pc \in {"done", "error"})
    BY <1>1, CancelPlaces DEF CancelStage
<1> QED
    BY <1>2 DEF CancelRank

\* The next record is taken, or the request comes nearer to the end of this
\* one.
Nearer(c) ==
    \/ /\ canceller'[c].todo \subseteq canceller[c].todo
       /\ canceller'[c].todo # canceller[c].todo
    \/ /\ canceller'[c].todo = canceller[c].todo
       /\ CancelRank(canceller'[c]) < CancelRank(canceller[c])

LEMMA StepNearer ==
    ASSUME TypeOK, NEW c \in Cancellers, NEW pc, Step(c, pc),
           CancelPlace(canceller[c].pc) \in Int, CancelPlace(pc) \in Int,
           CancelPlace(pc) < CancelPlace(canceller[c].pc)
    PROVE  Nearer(c)
<1>1. /\ canceller'[c].pc = pc
      /\ canceller'[c].todo = canceller[c].todo
      /\ ~canceller'[c].checked
    BY DEF Step, TypeOK, CancellersOK, CancellerState
<1> QED
    BY <1>1 DEF Nearer, CancelRank

LEMMA RequestNearer ==
    ASSUME TypeOK, NEW c \in Cancellers, canceller[c].pc # "idle",
           CancelStep(c) \/ CancelFault(c)
    PROVE  Nearer(c) /\ canceller[c].pc \notin {"done", "error"}
<1> DEFINE old == canceller[c].pc
<1>1. CASE Pick(c)
    <2>0. old = "pick" /\ canceller[c].todo \in SUBSET Tasks
        BY <1>1 DEF Pick, TypeOK, CancellersOK, CancellerState
    <2>1. CASE Step(c, "done")
        BY <2>0, <2>1, StepNearer, CancelPlaces
    <2>2. ASSUME NEW t \in canceller[c].todo, canceller'[c].todo = canceller[c].todo \ {t}
          PROVE  Nearer(c)
        BY <2>2 DEF Nearer
    <2>3. ASSUME NEW t \in canceller[c].todo, NEW pc,
                 canceller' = [canceller EXCEPT ![c].todo = @ \ {t}, ![c].task = t, ![c].pc = pc]
          PROVE  canceller'[c].todo = canceller[c].todo \ {t}
        BY <2>3 DEF TypeOK, CancellersOK, CancellerState
    <2> QED
        BY <1>1, <2>0, <2>1, <2>2, <2>3 DEF Pick
<1>2. CASE /\ old \in {"cancel", "s_cancel", "s_recover"} /\ ~canceller[c].checked
           /\ canceller' = [canceller EXCEPT ![c].checked = TRUE]
    <2>1. /\ canceller'[c].pc = old
          /\ canceller'[c].checked
          /\ canceller'[c].todo = canceller[c].todo
        BY <1>2 DEF TypeOK, CancellersOK, CancellerState
    <2>2. CancelPlace(old) \in Int
        BY <1>2, CancelPlaces
    <2> QED
        BY <1>2, <2>1, <2>2 DEF Nearer, CancelRank
<1>3. ASSUME NEW pc, Step(c, pc),
             \/ old = "cancel" /\ pc \in {"s_cancel", "ev_cancelled", "error"}
             \/ old = "s_cancel" /\ pc \in {"ev_cancelled", "s_recover", "error"}
             \/ old = "s_recover" /\ pc \in {"ev_recover", "error"}
             \/ old = "ev_cancelled" /\ pc \in {"revoke", "error"}
             \/ old \in {"ev_recover", "pick"} /\ pc = "error"
             \/ old = "revoke" /\ pc \in {"pick", "error"}
      PROVE  Nearer(c) /\ old \notin {"done", "error"}
    <2>1. /\ CancelPlace(pc) \in Int
          /\ CancelPlace(old) \in Int
          /\ CancelPlace(pc) < CancelPlace(old)
        BY <1>3, CancelPlaces
    <2> QED
        BY <1>3, <2>1, StepNearer
<1>4. CASE EnsureCancelled(c) \/ EnsureCancelSession(c)
    BY <1>2, <1>3, <1>4 DEF EnsureCancelled, EnsureCancelSession, CancelHandler
<1>5. CASE WriteCancelled(c) \/ WriteCancelSession(c)
    BY <1>3, <1>5 DEF WriteCancelled, WriteCancelSession
<1>6. CASE AppendCancelEvent(c) \/ Revoke(c)
    BY <1>3, <1>6 DEF AppendCancelEvent, Revoke
<1>7. CASE CancelFault(c)
    <2>1. PICK pc \in {CancelHandler(old), "error"} : Step(c, pc)
        BY <1>7 DEF CancelFault
    <2>2. old \in CancelStage
        BY <1>7 DEF CancelFault
    <2>3. /\ old = "s_cancel" => pc \in {"s_recover", "error"}
          /\ old = "s_recover" => pc \in {"ev_recover", "error"}
          /\ old \notin {"s_cancel", "s_recover"} => pc = "error"
        BY <2>1 DEF CancelHandler
    <2> HIDE DEF old
    <2> QED
        BY <1>3, <2>1, <2>2, <2>3 DEF CancelStage, old
<1>8. ~CancelTask(c) /\ ~CancelBatch(c)
    BY DEF CancelTask, CancelBatch
<1>9. Pick(c) => old \notin {"done", "error"}
    BY DEF Pick
<1>10. EnsureCancelled(c) \/ EnsureCancelSession(c) => old \notin {"done", "error"}
    BY DEF EnsureCancelled, EnsureCancelSession
<1> QED
    BY <1>1, <1>4, <1>5, <1>6, <1>7, <1>8, <1>9, <1>10 DEF CancelStep

\* A cancel request runs down as well: each change of it takes a record off
\* the loop for good or brings the current record nearer to its end, and one
\* that has answered never changes again.  So a batch of finitely many tasks
\* is answered, whatever becomes of the tasks meanwhile.
THEOREM RequestsRunDown ==
    Spec => [][\A c \in Cancellers :
                  canceller[c].pc # "idle" /\ canceller'[c] # canceller[c] =>
                      /\ canceller[c].pc \notin {"done", "error"}
                      /\ CancelRank(canceller'[c]) \in 0 .. 12
                      /\ Nearer(c)]_vars
<1> DEFINE Lower ==
        \A c \in Cancellers :
            canceller[c].pc # "idle" /\ canceller'[c] # canceller[c] =>
                /\ canceller[c].pc \notin {"done", "error"}
                /\ CancelRank(canceller'[c]) \in 0 .. 12
                /\ Nearer(c)
<1>1. TypeOK /\ TypeOK' /\ [Next]_vars => Lower
    <2> SUFFICES ASSUME TypeOK, TypeOK', [Next]_vars, NEW c \in Cancellers,
                        canceller[c].pc # "idle", canceller'[c] # canceller[c]
                 PROVE  /\ canceller[c].pc \notin {"done", "error"}
                        /\ CancelRank(canceller'[c]) \in 0 .. 12
                        /\ Nearer(c)
        OBVIOUS
    <2>1. CancelStep(c) \/ CancelFault(c)
        <3>1. ASSUME NEW d \in Cancellers, d # c, CancelStep(d) \/ CancelFault(d)
              PROVE  FALSE
            BY <3>1, CancellersApart
        <3>2. ASSUME NEW w \in Workers, WorkerStep(w) PROVE FALSE
            BY <3>2, WorkerFrame
        <3>3. ASSUME NEW w \in Workers, Fault(w) \/ Crash(w) \/ Redeliver(w) \/ Kill(w)
              PROVE  FALSE
            BY <3>3 DEF Fault, Crash, Redeliver, Kill
        <3>4. ~((\E t \in Tasks : Publish(t)) \/ (\E m \in Message : Discard(m)))
            BY DEF Publish, Discard
        <3>5. ~UNCHANGED vars
            BY DEF vars
        <3> QED
            BY <3>1, <3>2, <3>3, <3>4, <3>5, StepKinds
    <2>2. canceller'[c] \in CancellerState
        BY DEF TypeOK, CancellersOK
    <2>3. canceller'[c].pc # "idle"
        <3>1. ASSUME NEW pc, pc # "idle", Step(c, pc) PROVE canceller'[c].pc # "idle"
            BY <3>1 DEF Step, TypeOK, CancellersOK, CancellerState
        <3>2. CASE canceller' = [canceller EXCEPT ![c].checked = TRUE]
            BY <3>2 DEF TypeOK, CancellersOK, CancellerState
        <3>3. CASE Pick(c)
            <4>1. ASSUME NEW t, NEW pc \in {"pick", "cancel"},
                         canceller' = [canceller EXCEPT
                             ![c].todo = @ \ {t}, ![c].task = t, ![c].pc = pc]
                  PROVE  canceller'[c].pc = pc
                BY <4>1 DEF TypeOK, CancellersOK, CancellerState
            <4> QED
                BY <3>1, <3>3, <4>1 DEF Pick
        <3>4. CASE EnsureCancelled(c) \/ EnsureCancelSession(c) \/ CancelFault(c)
            BY <3>1, <3>2, <3>4 DEF EnsureCancelled, EnsureCancelSession, CancelFault,
                CancelHandler
        <3>5. CASE \/ WriteCancelled(c) \/ WriteCancelSession(c)
                   \/ AppendCancelEvent(c) \/ Revoke(c)
            BY <3>1, <3>5 DEF WriteCancelled, WriteCancelSession, AppendCancelEvent, Revoke
        <3>6. ~CancelTask(c) /\ ~CancelBatch(c)
            BY DEF CancelTask, CancelBatch
        <3> QED
            BY <2>1, <3>3, <3>4, <3>5, <3>6 DEF CancelStep
    <2> QED
        BY <2>1, <2>2, <2>3, RequestNearer, CancelRankOK
<1>2. TypeOK /\ TypeOK' /\ [Next]_vars => [Lower]_vars
    BY <1>1
<1> QED
    BY <1>2, TypeCorrect, PTL DEF Spec

-----------------------------------------------------------------------------
(* Messages are conserved.  A retry, a crash and the end of a delivery     *)
(* move the message of a task or use it up; only the outbox and a          *)
(* redelivery make one.                                                    *)

\* The messages of t in the broker: those of each retry count, numbered.
Waiting(t) == {x \in (0 .. MaxRetries) \X (Nat \ {0}) : x[2] <= queue[<<t, x[1]>>]}

\* The workers that have one.
Working(t) == {w \in Workers : worker[w].pc # "idle" /\ worker[w].task = t}

Conserved(t) ==
    /\ IsFiniteSet(Waiting(t)) /\ IsFiniteSet(Working(t))
    /\ Cardinality(Waiting(t)) + Cardinality(Working(t)) <= published[t] + disruptions

FlowInv == \A t \in Tasks : Conserved(t)

\* A set that gets at most one element more, or loses one.
LEMMA OneMore ==
    ASSUME NEW A, IsFiniteSet(A), NEW e, NEW B, B \subseteq A \cup {e}
    PROVE  IsFiniteSet(B) /\ Cardinality(B) <= Cardinality(A) + 1
<1>1. /\ IsFiniteSet(A \cup {e})
      /\ Cardinality(A \cup {e}) = Cardinality(A) \/ Cardinality(A \cup {e}) = Cardinality(A) + 1
    BY FS_AddElement
<1>2. IsFiniteSet(B) /\ Cardinality(B) <= Cardinality(A \cup {e})
    BY <1>1, FS_Subset
<1>3. Cardinality(A) \in Nat /\ Cardinality(B) \in Nat
    BY <1>2, FS_CardinalityType
<1> QED
    BY <1>1, <1>2, <1>3

LEMMA OneLess ==
    ASSUME NEW A, IsFiniteSet(A), NEW e \in A, NEW B, B \subseteq A \ {e}
    PROVE  IsFiniteSet(B) /\ Cardinality(B) <= Cardinality(A) + (-1)
<1>1. IsFiniteSet(A \ {e}) /\ Cardinality(A \ {e}) = Cardinality(A) - 1
    BY FS_RemoveElement
<1>2. IsFiniteSet(B) /\ Cardinality(B) <= Cardinality(A \ {e})
    BY <1>1, FS_Subset
<1>3. Cardinality(A) \in Nat /\ Cardinality(B) \in Nat
    BY <1>2, FS_CardinalityType
<1> QED
    BY <1>1, <1>2, <1>3

LEMMA NoMore ==
    ASSUME NEW A, IsFiniteSet(A), NEW B, B \subseteq A
    PROVE  IsFiniteSet(B) /\ Cardinality(B) <= Cardinality(A) + 0
<1>1. IsFiniteSet(B) /\ Cardinality(B) <= Cardinality(A)
    BY FS_Subset
<1>2. Cardinality(A) \in Nat /\ Cardinality(B) \in Nat
    BY <1>1, FS_CardinalityType
<1> QED
    BY <1>1, <1>2

\* Messages are conserved when as many come to one place as leave the other,
\* but for those that are published or handed out again.
LEMMA Balance ==
    ASSUME TypeOK, TypeOK', NEW t \in Tasks, Conserved(t),
           NEW i \in {-1, 0, 1}, NEW j \in {-1, 0, 1},
           IsFiniteSet(Waiting(t)'), Cardinality(Waiting(t)') <= Cardinality(Waiting(t)) + i,
           IsFiniteSet(Working(t)'), Cardinality(Working(t)') <= Cardinality(Working(t)) + j,
           published'[t] + disruptions' >= published[t] + disruptions + i + j
    PROVE  Conserved(t)'
<1>1. /\ IsFiniteSet(Waiting(t)) /\ IsFiniteSet(Working(t))
      /\ Cardinality(Waiting(t)) + Cardinality(Working(t)) <= published[t] + disruptions
    BY DEF Conserved
<1>2. /\ Cardinality(Waiting(t)) \in Nat /\ Cardinality(Working(t)) \in Nat
      /\ Cardinality(Waiting(t)') \in Nat /\ Cardinality(Working(t)') \in Nat
    BY <1>1, FS_CardinalityType
<1>3. published[t] \in Nat /\ published'[t] \in Nat /\ disruptions \in Nat /\ disruptions' \in Nat
    BY DEF TypeOK, BrokerOK, HistoryOK
<1>4. Cardinality(Waiting(t)') + Cardinality(Working(t)') <= published'[t] + disruptions'
    BY <1>1, <1>2, <1>3
<1> QED
    BY <1>4 DEF Conserved

\* A message sent, and a message taken.
LEMMA MessageSent ==
    ASSUME TypeOK, NEW n \in Message, queue' = [queue EXCEPT ![n] = @ + 1], NEW t \in Tasks
    PROVE  /\ Waiting(t)' \subseteq Waiting(t) \cup {<<n[2], queue[n] + 1>>}
           /\ t # n[1] => Waiting(t)' \subseteq Waiting(t)
<1>0. \A m \in Message : queue[m] \in Nat
    BY DEF TypeOK, BrokerOK
<1>1. ASSUME NEW x \in Waiting(t)', x \notin Waiting(t)
      PROVE  t = n[1] /\ x = <<n[2], queue[n] + 1>>
    <2>1. /\ x \in (0 .. MaxRetries) \X (Nat \ {0})
          /\ x[2] <= queue'[<<t, x[1]>>] /\ ~(x[2] <= queue[<<t, x[1]>>])
        BY <1>1 DEF Waiting
    <2>2. <<t, x[1]>> \in Message
        BY <2>1 DEF Message
    <2>3. <<t, x[1]>> = n
        BY <2>1, <2>2 DEF TypeOK, BrokerOK
    <2>4. queue'[n] = queue[n] + 1
        BY DEF TypeOK, BrokerOK
    <2>5. x[2] = queue[n] + 1
        BY <1>0, <2>1, <2>3, <2>4
    <2> QED
        BY <2>1, <2>3, <2>5
<1> QED
    BY <1>1

LEMMA MessageTaken ==
    ASSUME TypeOK, NEW n \in Message, queue[n] > 0, queue' = [queue EXCEPT ![n] = @ - 1],
           NEW t \in Tasks
    PROVE  /\ Waiting(t)' \subseteq Waiting(t)
           /\ t = n[1] => /\ <<n[2], queue[n]>> \in Waiting(t)
                          /\ Waiting(t)' \subseteq Waiting(t) \ {<<n[2], queue[n]>>}
<1>0. /\ \A m \in Message : queue[m] \in Nat
      /\ queue'[n] = queue[n] - 1
      /\ \A m \in Message : m # n => queue'[m] = queue[m]
    BY DEF TypeOK, BrokerOK
<1>1. ASSUME NEW x \in Waiting(t)' PROVE x \in Waiting(t) /\ (t = n[1] => x # <<n[2], queue[n]>>)
    <2>1. x \in (0 .. MaxRetries) \X (Nat \ {0}) /\ x[2] <= queue'[<<t, x[1]>>]
        BY <1>1 DEF Waiting
    <2>2. <<t, x[1]>> \in Message
        BY <2>1 DEF Message
    <2>3. x[2] <= queue[<<t, x[1]>>]
        BY <1>0, <2>1, <2>2
    <2>4. <<t, x[1]>> = n => x[2] # queue[n]
        BY <1>0, <2>1
    <2>5. n = <<n[1], n[2]>>
        BY DEF Message
    <2> QED
        BY <2>1, <2>3, <2>4, <2>5 DEF Waiting
<1>2. ASSUME t = n[1] PROVE <<n[2], queue[n]>> \in Waiting(t)
    <2>1. n[2] \in 0 .. MaxRetries /\ n = <<t, n[2]>> /\ queue[n] \in Nat \ {0}
        BY <1>0, <1>2 DEF Message
    <2> QED
        BY <2>1 DEF Waiting
<1> QED
    BY <1>1, <1>2

\* Nobody but the receiver of a message comes to work on its task.
LEMMA WorkingShrinks ==
    ASSUME TypeOK, NEW w \in Workers, ~Receive(w), NEW t \in Tasks,
           WorkerStep(w) \/ Fault(w) \/ Crash(w) \/ Redeliver(w) \/ Kill(w)
    PROVE  /\ Working(t)' \subseteq Working(t)
           /\ worker'[w] = Idle => Working(t)' \subseteq Working(t) \ {w}
<1>1. ASSUME NEW v \in Working(t)' PROVE v \in Working(t)
    <2>1. v \in Workers /\ worker'[v].pc # "idle" /\ worker'[v].task = t
        BY <1>1 DEF Working
    <2>2. worker[v].pc # "idle" /\ worker[v].task = t
        BY <2>1, TaskKept, WorkersApart
    <2> QED
        BY <2>1, <2>2 DEF Working
<1>2. worker'[w] = Idle => w \notin Working(t)'
    BY DEF Working, Idle
<1> QED
    BY <1>1, <1>2

\* A message is received: it is taken from the broker, for one more worker.
LEMMA ReceiveConserves ==
    ASSUME TypeOK, TypeOK', NEW w \in Workers, Receive(w), NEW t \in Tasks, Conserved(t)
    PROVE  Conserved(t)'
<1>1. PICK m \in Message :
        /\ queue[m] > 0
        /\ queue' = [queue EXCEPT ![m] = @ - 1]
        /\ worker' = [worker EXCEPT ![w] =
                [Idle EXCEPT !.pc = "check", !.task = m[1], !.retries = m[2]]]
    BY DEF Receive
<1>2. published'[t] + disruptions' = published[t] + disruptions
    BY DEF Receive, bounds
<1>3. Working(t)' \subseteq Working(t) \cup {w} /\ (t # m[1] => Working(t)' \subseteq Working(t))
    BY <1>1 DEF Working, Idle, TypeOK, WorkersOK
<1>4. IsFiniteSet(Waiting(t)) /\ IsFiniteSet(Working(t))
    BY DEF Conserved
<1>t. published[t] \in Nat /\ disruptions \in Nat
    BY DEF TypeOK, BrokerOK, HistoryOK
<1>5. CASE t = m[1]
    <2>1. /\ IsFiniteSet(Waiting(t)')
          /\ Cardinality(Waiting(t)') <= Cardinality(Waiting(t)) + (-1)
        <3> DEFINE e == <<m[2], queue[m]>>
        <3>1. e \in Waiting(t) /\ Waiting(t)' \subseteq Waiting(t) \ {e}
            BY <1>1, <1>5, MessageTaken
        <3> HIDE DEF e
        <3> QED
            BY <1>4, <3>1, OneLess
    <2>2. /\ IsFiniteSet(Working(t)')
          /\ Cardinality(Working(t)') <= Cardinality(Working(t)) + 1
        BY <1>3, <1>4, OneMore
    <2>3. published'[t] + disruptions' >= published[t] + disruptions + (-1) + 1
        BY <1>2, <1>t
    <2> QED
        BY <2>1, <2>2, <2>3, Balance
<1>6. CASE t # m[1]
    <2>1. /\ IsFiniteSet(Waiting(t)')
          /\ Cardinality(Waiting(t)') <= Cardinality(Waiting(t)) + 0
        BY <1>1, <1>4, MessageTaken, NoMore
    <2>2. /\ IsFiniteSet(Working(t)')
          /\ Cardinality(Working(t)') <= Cardinality(Working(t)) + 0
        BY <1>3, <1>4, <1>6, NoMore
    <2>3. published'[t] + disruptions' >= published[t] + disruptions + 0 + 0
        BY <1>2, <1>t
    <2> QED
        BY <2>1, <2>2, <2>3, Balance
<1> QED
    BY <1>5, <1>6

\* A worker hands its message back, as it crashes or for a retry: it is sent
\* to the broker, and the worker is idle.
LEMMA ReturnConserves ==
    ASSUME TypeOK, TypeOK', NEW w \in Workers, ScheduleRetry(w) \/ Crash(w),
           worker'[w] = Idle, NEW t \in Tasks, Conserved(t)
    PROVE  Conserved(t)'
<1>0. worker[w].pc # "idle" /\ ~Receive(w)
    BY DEF ScheduleRetry, Crash, Receive
<1>1. PICK n \in Message : n[1] = worker[w].task /\ queue' = [queue EXCEPT ![n] = @ + 1]
    <2> DEFINE u == worker[w].task
               k == worker[w].retries
    <2>0. u \in Tasks /\ k \in 0 .. MaxRetries /\ MaxRetries \in Nat
        BY <1>0, ConstantsAssumption DEF TypeOK, WorkersOK, WorkerState, ConstantsAssumption
    <2>1. CASE Crash(w)
        <3>1. <<u, k>> \in Message /\ queue' = [queue EXCEPT ![<<u, k>>] = @ + 1]
            BY <2>0, <2>1 DEF Crash, Message
        <3> QED
            BY <3>1
    <2>2. CASE ScheduleRetry(w)
        <3>1. ~(k + 1 > MaxRetries)
            BY <2>2 DEF ScheduleRetry, Goto, Idle, TypeOK, WorkersOK, WorkerState
        <3>2. <<u, k + 1>> \in Message
            BY <2>0, <3>1 DEF Message
        <3>3. queue' = [queue EXCEPT ![<<u, k + 1>>] = @ + 1]
            BY <2>2, <3>1 DEF ScheduleRetry
        <3> QED
            BY <3>2, <3>3
    <2> QED
        BY <2>1, <2>2
<1>2. published'[t] + disruptions' >= published[t] + disruptions
    <2>1. published' = published /\ (disruptions' = disruptions \/ disruptions' = disruptions + 1)
        BY DEF ScheduleRetry, Crash, bounds
    <2> QED
        BY <2>1 DEF TypeOK, BrokerOK, HistoryOK
<1>3. Working(t)' \subseteq Working(t) \ {w}
    BY <1>0, WorkingShrinks DEF WorkerStep
<1>4. IsFiniteSet(Waiting(t)) /\ IsFiniteSet(Working(t))
    BY DEF Conserved
<1>t. /\ published[t] \in Nat /\ disruptions \in Nat
      /\ published'[t] \in Nat /\ disruptions' \in Nat
    BY DEF TypeOK, BrokerOK, HistoryOK
<1>5. CASE t = n[1]
    <2>1. /\ IsFiniteSet(Waiting(t)')
          /\ Cardinality(Waiting(t)') <= Cardinality(Waiting(t)) + 1
        BY <1>1, <1>4, MessageSent, OneMore
    <2>2. w \in Working(t)
        BY <1>0, <1>1, <1>5 DEF Working
    <2>3. /\ IsFiniteSet(Working(t)')
          /\ Cardinality(Working(t)') <= Cardinality(Working(t)) + (-1)
        BY <1>3, <1>4, <2>2, OneLess
    <2>4. published'[t] + disruptions' >= published[t] + disruptions + 1 + (-1)
        BY <1>2, <1>t
    <2> QED
        BY <2>1, <2>3, <2>4, Balance
<1>6. CASE t # n[1]
    <2>1. /\ IsFiniteSet(Waiting(t)')
          /\ Cardinality(Waiting(t)') <= Cardinality(Waiting(t)) + 0
        BY <1>1, <1>4, <1>6, MessageSent, NoMore
    <2>2. /\ IsFiniteSet(Working(t)')
          /\ Cardinality(Working(t)') <= Cardinality(Working(t)) + 0
        BY <1>3, <1>4, NoMore
    <2>3. published'[t] + disruptions' >= published[t] + disruptions + 0 + 0
        BY <1>2, <1>t
    <2> QED
        BY <2>1, <2>2, <2>3, Balance
<1> QED
    BY <1>5, <1>6

\* A message is made: the outbox sends one, or the broker hands one out again.
LEMMA NewMessageCounted ==
    ASSUME TypeOK, TypeOK', NEW n \in Message, queue' = [queue EXCEPT ![n] = @ + 1],
           worker' = worker,
           \/ disruptions' = disruptions + 1 /\ published' = published
           \/ disruptions' = disruptions /\ published' = [published EXCEPT ![n[1]] = @ + 1],
           NEW t \in Tasks, Conserved(t)
    PROVE  Conserved(t)'
<1>1. IsFiniteSet(Waiting(t)) /\ IsFiniteSet(Working(t))
    BY DEF Conserved
<1>2. /\ IsFiniteSet(Working(t)')
      /\ Cardinality(Working(t)') <= Cardinality(Working(t)) + 0
    <2>1. Working(t)' \subseteq Working(t)
        BY DEF Working
    <2> QED
        BY <1>1, <2>1, NoMore
<1>t. published[t] \in Nat /\ disruptions \in Nat
    BY DEF TypeOK, BrokerOK, HistoryOK
<1>3. CASE t = n[1]
    <2>1. /\ IsFiniteSet(Waiting(t)')
          /\ Cardinality(Waiting(t)') <= Cardinality(Waiting(t)) + 1
        BY <1>1, MessageSent, OneMore
    <2>2. published'[t] + disruptions' >= published[t] + disruptions + 1 + 0
        BY <1>3, <1>t DEF TypeOK, BrokerOK
    <2> QED
        BY <1>2, <2>1, <2>2, Balance
<1>4. CASE t # n[1]
    <2>1. /\ IsFiniteSet(Waiting(t)')
          /\ Cardinality(Waiting(t)') <= Cardinality(Waiting(t)) + 0
        BY <1>1, <1>4, MessageSent, NoMore
    <2>2. published'[t] + disruptions' >= published[t] + disruptions + 0 + 0
        BY <1>4, <1>t DEF TypeOK, BrokerOK
    <2> QED
        BY <1>2, <2>1, <2>2, Balance
<1> QED
    BY <1>3, <1>4

\* Every other step leaves the messages where they are or drops one.
LEMMA NothingComes ==
    ASSUME TypeOK, TypeOK', NEW t \in Tasks, Conserved(t),
           Waiting(t)' \subseteq Waiting(t), Working(t)' \subseteq Working(t),
           published' = published, disruptions' = disruptions
    PROVE  Conserved(t)'
<1>1. /\ IsFiniteSet(Waiting(t)')
      /\ Cardinality(Waiting(t)') <= Cardinality(Waiting(t)) + 0
      /\ IsFiniteSet(Working(t)')
      /\ Cardinality(Working(t)') <= Cardinality(Working(t)) + 0
    BY NoMore DEF Conserved
<1>2. published'[t] + disruptions' >= published[t] + disruptions + 0 + 0
    BY DEF TypeOK, BrokerOK, HistoryOK
<1> QED
    BY <1>1, <1>2, Balance

LEMMA FlowStep ==
    ASSUME TypeOK, TypeOK', [Next]_vars, NEW t \in Tasks, Conserved(t)
    PROVE  Conserved(t)'
<1>q. queue' = queue => Waiting(t)' \subseteq Waiting(t)
    BY DEF Waiting
<1>w. worker' = worker => Working(t)' \subseteq Working(t)
    BY DEF Working
<1>1. ASSUME NEW w \in Workers, WorkerStep(w) PROVE Conserved(t)'
    <2>1. published' = published /\ disruptions' = disruptions
        BY <1>1, WorkerFrame DEF bounds
    <2>2. CASE Receive(w)
        BY <2>2, ReceiveConserves
    <2>3. CASE ScheduleRetry(w) /\ worker'[w] = Idle
        BY <2>3, ReturnConserves
    <2>4. CASE ~Receive(w) /\ queue' = queue
        <3>1. Working(t)' \subseteq Working(t)
            BY <1>1, <2>4, WorkingShrinks
        <3> QED
            BY <1>q, <2>1, <2>4, <3>1, NothingComes
    <2>5. ScheduleRetry(w) => queue' = queue \/ worker'[w] = Idle
        BY DEF ScheduleRetry, TypeOK, WorkersOK
    <2>6. ScheduleRetry(w) => ~Receive(w)
        BY DEF ScheduleRetry, Receive
    <2> QED
        BY <1>1, <2>2, <2>3, <2>4, <2>5, <2>6, WorkerFrame
<1>2. ASSUME NEW c \in Cancellers, CancelStep(c) \/ CancelFault(c) PROVE Conserved(t)'
    <2>1. UNCHANGED <<queue, worker, published, disruptions>>
        BY <1>2, CancelFrame DEF CancelFault, broker, bounds
    <2> QED
        BY <1>q, <1>w, <2>1, NothingComes
<1>3. ASSUME NEW u \in Tasks, Publish(u) PROVE Conserved(t)'
    <2> DEFINE n == <<u, 0>>
    <2>1. n \in Message /\ n[1] = u
        BY ConstantsAssumption DEF Message, ConstantsAssumption
    <2>2. /\ queue' = [queue EXCEPT ![n] = @ + 1] /\ worker' = worker
          /\ disruptions' = disruptions /\ published' = [published EXCEPT ![n[1]] = @ + 1]
        BY <1>3, <2>1 DEF Publish, bounds
    <2> HIDE DEF n
    <2> QED
        BY <2>1, <2>2, NewMessageCounted
<1>4. ASSUME NEW m \in Message, Discard(m) PROVE Conserved(t)'
    <2>1. /\ queue[m] > 0 /\ queue' = [queue EXCEPT ![m] = @ - 1]
          /\ UNCHANGED <<worker, published, disruptions>>
        BY <1>4 DEF Discard, bounds
    <2> QED
        BY <1>w, <2>1, MessageTaken, NothingComes
<1>5. ASSUME NEW w \in Workers, Fault(w) \/ Kill(w) PROVE Conserved(t)'
    <2>1. UNCHANGED <<queue, published, disruptions>>
        BY <1>5 DEF Fault, Kill, broker, bounds
    <2>2. Working(t)' \subseteq Working(t)
        <3>1. CASE Receive(w)
            BY <1>5, <2>1, <3>1 DEF Receive, TypeOK, BrokerOK
        <3>2. CASE ~Receive(w)
            BY <1>5, <3>2, WorkingShrinks
        <3> QED
            BY <3>1, <3>2
    <2> QED
        BY <1>q, <2>1, <2>2, NothingComes
<1>6. ASSUME NEW w \in Workers, Crash(w) PROVE Conserved(t)'
    <2>1. worker'[w] = Idle
        BY <1>6 DEF Crash, TypeOK, WorkersOK
    <2> QED
        BY <1>6, <2>1, ReturnConserves
<1>7. ASSUME NEW w \in Workers, Redeliver(w) PROVE Conserved(t)'
    <2> DEFINE n == <<worker[w].task, worker[w].retries>>
    <2>1. n \in Message
        BY <1>7 DEF Redeliver, Message, TypeOK, WorkersOK, WorkerState
    <2>2. /\ queue' = [queue EXCEPT ![n] = @ + 1] /\ worker' = worker
          /\ disruptions' = disruptions + 1 /\ published' = published
        BY <1>7 DEF Redeliver
    <2> HIDE DEF n
    <2> QED
        BY <2>1, <2>2, NewMessageCounted
<1>8. CASE UNCHANGED vars
    BY <1>q, <1>w, <1>8, NothingComes DEF vars, broker, bounds
<1> QED
    BY <1>1, <1>2, <1>3, <1>4, <1>5, <1>6, <1>7, <1>8, StepKinds

\* Deliveries do not multiply.  However retries, crashes, revokes and failure
\* handling interleave, the messages of a task in the broker and the workers
\* that have one are no more than were published and handed out again.
THEOREM MessagesAreConserved == Spec => []FlowInv
<1>1. Init => FlowInv
    <2> SUFFICES ASSUME Init, NEW t \in Tasks PROVE Conserved(t)
        BY DEF FlowInv
    <2>1. Waiting(t) = {} /\ Working(t) = {}
        BY ConstantsAssumption DEF Init, Waiting, Working, Idle, Message, ConstantsAssumption
    <2>2. IsFiniteSet({}) /\ Cardinality({}) = 0
        BY FS_EmptySet
    <2>3. published[t] = 0 /\ disruptions = 0
        BY DEF Init
    <2> QED
        BY <2>1, <2>2, <2>3 DEF Conserved
<1>2. TypeOK /\ TypeOK' /\ FlowInv /\ [Next]_vars => FlowInv'
    BY FlowStep DEF FlowInv
<1> QED
    BY <1>1, <1>2, TypeCorrect, PTL DEF Spec

-----------------------------------------------------------------------------
(* Where the messages come from.  TaskExecution has a bound, MaxPublishes, *)
(* for the outbox; DispatchOutbox implements Publisher.  Here the two meet.*)

VARIABLE failures    \* calls that have failed in the API processes

Outbox == INSTANCE Publisher

\* A message for t arrives, whoever sent it and however often.
Arrives(t) ==
    /\ published' = [published EXCEPT ![t] = @ + 1]
    /\ queue' = [queue EXCEPT ![<<t, 0>>] = @ + 1]
    /\ UNCHANGED <<rows, staged, log, revoked, worker, canceller, history, bounds>>

\* The workers and the cancel requests, with messages arriving at will.
OpenSpec == Init /\ [][Next \/ \E t \in Tasks : Arrives(t)]_vars

LEMMA PublisherType == Outbox!Spec => [](published \in [Tasks -> Nat] /\ failures \in Nat)
<1> DEFINE Type == published \in [Tasks -> Nat] /\ failures \in Nat
<1>1. Outbox!Init => Type
    BY DEF Outbox!Init
<1>2. Type /\ [Outbox!Next]_<<published, failures>> => Type'
    BY DEF Outbox!Next, Outbox!Send, Outbox!FailedCall, Outbox!Sent
<1> QED
    BY <1>1, <1>2, PTL DEF Outbox!Spec

\* Workers whose messages come from a publisher that keeps its promise, and
\* in which at most n calls fail, behave as TaskExecution says if it allows
\* for two messages and n more: with OutboxImplementsPublisher, what is shown
\* of TaskExecution holds of the workers behind the outbox.
THEOREM WorkersBehindTheOutbox ==
    ASSUME NEW CONSTANT n \in Nat, 2 + n <= MaxPublishes
    PROVE  OpenSpec /\ Outbox!Spec /\ [](failures <= n) => Spec
<1> DEFINE Type == published \in [Tasks -> Nat] /\ failures \in Nat
           Few == failures <= n
<1>1. ASSUME Type, Type', Few', NEW t \in Tasks, Arrives(t),
             [Outbox!Next]_<<published, failures>>
      PROVE  Publish(t)
    <2>0. /\ published[t] \in Nat /\ published'[t] = published[t] + 1
          /\ failures \in Nat /\ failures' \in Nat
          /\ MaxPublishes \in Nat
        BY <1>1, ConstantsAssumption DEF Arrives, ConstantsAssumption
    <2>1. ASSUME NEW u \in Tasks, Outbox!Sent(u) PROVE u = t
        <3>1. u # t => published'[t] = published[t]
            BY <1>1, <2>1 DEF Outbox!Sent
        <3> QED
            BY <2>0, <3>1
    <2>2. published' # published
        BY <2>0
    <2>3. published[t] < 2 + failures'
        BY <1>1, <2>1, <2>2 DEF Outbox!Next, Outbox!Send, Outbox!FailedCall, Outbox!Allowance
    <2>4. published[t] < MaxPublishes
        BY <1>1, <2>0, <2>3
    <2> QED
        BY <1>1, <2>4 DEF Arrives, Publish
<1>2. /\ Type /\ Type' /\ Few'
      /\ [Outbox!Next]_<<published, failures>>
      /\ [Next \/ \E t \in Tasks : Arrives(t)]_vars
      => [Next]_vars
    BY <1>1 DEF Next
<1> HIDE DEF Type, Few
<1>3. Outbox!Spec => []Type
    BY PublisherType DEF Type
<1>4. [](failures <= n) => []Few
    BY PTL DEF Few
<1> QED
    BY <1>2, <1>3, <1>4, PTL DEF OpenSpec, Spec, Outbox!Spec

LEMMA PublisherPromise ==
    Outbox!Spec => [](\A t \in Tasks : published[t] <= 2 + failures)
<1> DEFINE Type == published \in [Tasks -> Nat] /\ failures \in Nat
           Kept == \A t \in Tasks : published[t] <= 2 + failures
<1>1. Outbox!Init => Kept
    BY DEF Outbox!Init
<1>2. Type /\ Kept /\ [Outbox!Next]_<<published, failures>> => Kept'
    <2> SUFFICES ASSUME Type, Kept, [Outbox!Next]_<<published, failures>>, NEW t \in Tasks
                 PROVE  published'[t] <= 2 + failures'
        OBVIOUS
    <2>0. published[t] \in Nat /\ failures \in Nat /\ published[t] <= 2 + failures
        OBVIOUS
    <2>1. ASSUME NEW u \in Tasks, Outbox!Sent(u),
                 published[u] < 2 + failures', failures' \in {failures, failures + 1}
          PROVE  published'[t] <= 2 + failures'
        <3>1. published'[t] = IF t = u THEN published[t] + 1 ELSE published[t]
            BY <2>1 DEF Outbox!Sent
        <3> QED
            BY <2>0, <2>1, <3>1
    <2>2. CASE UNCHANGED published /\ failures' \in {failures, failures + 1}
        BY <2>0, <2>2
    <2> QED
        BY <2>1, <2>2 DEF Outbox!Next, Outbox!Send, Outbox!FailedCall, Outbox!Allowance
<1> HIDE DEF Kept
<1>3. Outbox!Spec => []Kept
    BY <1>1, <1>2, PublisherType, PTL DEF Outbox!Spec
<1> QED
    BY <1>3 DEF Kept

\* How many workers may be at the same task at once, over all the parts: the
\* messages the outbox may send for it and those the broker hands out again.
\* While no call fails and nothing is handed out twice they are two, which is
\* the race the run "race" has.
THEOREM WorkersAtOnce ==
    ASSUME NEW CONSTANT n \in Nat, 2 + n <= MaxPublishes
    PROVE  OpenSpec /\ Outbox!Spec /\ [](failures <= n)
           => [](\A t \in Tasks : Cardinality(Working(t)) <= 2 + failures + disruptions)
<1> DEFINE Kept == \A t \in Tasks : published[t] <= 2 + failures
           Type == published \in [Tasks -> Nat] /\ failures \in Nat
           Few == \A t \in Tasks : Cardinality(Working(t)) <= 2 + failures + disruptions
<1>1. TypeOK /\ FlowInv /\ Kept /\ Type => Few
    <2> SUFFICES ASSUME TypeOK, FlowInv, Kept, Type, NEW t \in Tasks
                 PROVE  Cardinality(Working(t)) <= 2 + failures + disruptions
        OBVIOUS
    <2>1. /\ IsFiniteSet(Waiting(t)) /\ IsFiniteSet(Working(t))
          /\ Cardinality(Waiting(t)) + Cardinality(Working(t)) <= published[t] + disruptions
        BY DEF FlowInv, Conserved
    <2>2. Cardinality(Waiting(t)) \in Nat /\ Cardinality(Working(t)) \in Nat
        BY <2>1, FS_CardinalityType
    <2>3. /\ published[t] \in Nat /\ disruptions \in Nat /\ failures \in Nat
          /\ published[t] <= 2 + failures
        BY DEF TypeOK, HistoryOK
    <2> QED
        BY <2>1, <2>2, <2>3
<1>2. OpenSpec /\ Outbox!Spec /\ [](failures <= n) => Spec
    BY WorkersBehindTheOutbox
<1>3. Outbox!Spec => []Kept /\ []Type
    BY PublisherPromise, PublisherType, PTL
<1> HIDE DEF Kept, Type, Few
<1>4. OpenSpec /\ Outbox!Spec /\ [](failures <= n) => []Few
    BY <1>1, <1>2, <1>3, TypeCorrect, MessagesAreConserved, PTL
<1> QED
    BY <1>4 DEF Few

=============================================================================
