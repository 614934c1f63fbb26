------------------------- MODULE TaskLifecycleProofs -------------------------
(***************************************************************************)
(* What TaskExecution keeps of TaskLifecycle: one actor at a time keeps    *)
(* the rows of tasks and sessions to it and leaves the two alike; racing   *)
(* actors keep the contested lifecycle, in which only what is over changes *)
(* against the transition table.                                           *)
(***************************************************************************)
EXTENDS TaskExecutionProofs

-----------------------------------------------------------------------------
(* How the check of a status precedes its write.                           *)

\* A check is remembered between the SELECT and the UPDATE only.
CheckedToWrite(w) == worker[w].checked => worker[w].pc \in TaskStage \cup SessionStage

\* w goes to a stage that has not been checked, and that is not the session
\* of a final failure.
Unchecked(w) == ~worker'[w].checked /\ worker'[w].pc # "final_s_failed"

LEMMA RaiseUnchecked ==
    ASSUME TypeOK, NEW w \in Workers, worker[w].pc # "idle", Raise(w)
    PROVE  Unchecked(w)
<1> DEFINE handler == Handler(worker[w].pc, worker[w].back)
<1>1. worker[w].pc \in Stage /\ worker[w].back \in {"mark_failed", "ev_failed"}
    BY DEF TypeOK, WorkersOK, WorkerState
<1>2. handler # "final_s_failed"
    BY <1>1 DEF Handler
<1>3. worker'[w].pc \in {"idle", handler} /\ ~worker'[w].checked
    <2>1. CASE handler = "idle"
        BY <2>1 DEF Raise, Idle, TypeOK, WorkersOK
    <2>2. CASE handler # "idle"
        BY <2>2 DEF Raise, TypeOK, WorkersOK, WorkerState
    <2> QED
        BY <2>1, <2>2
<1> QED
    BY <1>2, <1>3 DEF Unchecked

\* The check has passed on the status the row has now.
TaskChecked(w) ==
    /\ worker[w].pc \in TaskStage
    /\ CanMove(task[worker[w].task].status, Target(worker[w].pc))

SessionChecked(w) ==
    /\ worker[w].pc \in SessionStage
    /\ CanMove(session[worker[w].task], Target(worker[w].pc))

\* A step of a delivery is a check that passes, or leads to a stage that has
\* not been checked; only the failed task of a final failure leads to its
\* session.
LEMMA NextStage ==
    ASSUME TypeOK, NEW w \in Workers, CheckedToWrite(w), WorkerStep(w)
    PROVE  \/ /\ worker'[w] = [worker[w] EXCEPT !.checked = TRUE]
              /\ TaskChecked(w) \/ SessionChecked(w)
              /\ UNCHANGED rows
           \/ /\ ~worker'[w].checked
              /\ worker'[w].pc = "final_s_failed" =>
                     WriteTask(w) /\ worker[w].pc = "final_failed" /\ worker[w].checked
                        /\ worker'[w].task = worker[w].task
<1> DEFINE wk == worker[w]
<1> USE DEF Unchecked
<1>w. wk \in WorkerState /\ (wk.pc # "idle" => wk.task \in Tasks)
    BY DEF TypeOK, WorkersOK
<1>g. ASSUME NEW pc \in Stage, Goto(w, pc), pc # "final_s_failed" PROVE Unchecked(w)
    BY <1>g DEF Goto, TypeOK, WorkersOK, WorkerState
<1>a. CASE Receive(w)
    <2>1. PICK m \in Message :
            worker' = [worker EXCEPT ![w] =
                [Idle EXCEPT !.pc = "check", !.task = m[1], !.retries = m[2]]]
        BY <1>a DEF Receive
    <2>2. ~worker'[w].checked /\ worker'[w].pc = "check"
        BY <2>1 DEF Idle, TypeOK, WorkersOK
    <2> QED
        BY <2>2
<1>b. CASE TakeSnapshot(w) \/ FinalRead(w)
    <2>1. ~wk.checked
        BY <1>b, <1>w DEF TakeSnapshot, FinalRead, CheckedToWrite, TaskStage, SessionStage,
                          WorkerState
    <2>2. /\ ~worker'[w].checked
          /\ worker'[w].pc \in {"cleanup", "final_read", "session", "final_failed"}
        BY <1>b, <1>w, <2>1 DEF TakeSnapshot, FinalRead, TypeOK, WorkersOK, WorkerState
    <2> QED
        BY <2>2
<1>c. CASE CheckCancelled(w) \/ LoadSession(w) \/ CreateSession(w) \/ Attach(w)
    <2>1. \E pc \in {"cleanup", "load", "create", "final_read", "attach", "mark_running",
                     "agent"} : Goto(w, pc)
        BY <1>c DEF CheckCancelled, LoadSession, CreateSession, Attach
    <2> QED
        BY <1>g, <2>1 DEF Stage, ReadStage, TaskStage
<1>d. CASE RunAgent(w) \/ SyncTask(w) \/ SyncSession(w)
    <2>1. \E pc \in {"mark_completed", "mark_failed", "retry", "sync_session",
                     "sync_failed", "ev_sync", "sync_s_failed"} : Goto(w, pc)
        BY <1>d DEF RunAgent, SyncTask, SyncSession
    <2> QED
        BY <1>g, <2>1 DEF Stage, ReadStage, TaskStage, SessionStage, EventStage
<1>e. CASE LoadInput(w)
    <2>1. CASE Goto(w, "snapshot") \/ Goto(w, "retry")
        BY <1>g, <2>1 DEF Stage, ReadStage
    <2>2. CASE Raise(w)
        BY <1>e, <2>2, RaiseUnchecked DEF LoadInput
    <2> QED
        BY <1>e, <2>1, <2>2 DEF LoadInput
<1>f. CASE ScheduleRetry(w) \/ Cleanup(w)
    <2>1. Goto(w, "final_read") \/ worker' = [worker EXCEPT ![w] = Idle]
        BY <1>f DEF ScheduleRetry, Cleanup
    <2>2. CASE Goto(w, "final_read")
        BY <1>g, <2>2 DEF Stage, ReadStage
    <2>3. CASE worker' = [worker EXCEPT ![w] = Idle]
        BY <2>3 DEF Idle, TypeOK, WorkersOK
    <2> QED
        BY <2>1, <2>2, <2>3
<1>h. CASE EnsureTask(w)
    <2>0. wk.pc \in TaskStage /\ wk.pc \notin SessionStage /\ wk.pc # "idle"
        BY <1>h DEF EnsureTask, TaskStage, SessionStage, rows
    <2>1. CASE CanMove(task[wk.task].status, Target(wk.pc))
        BY <1>h, <2>0, <2>1 DEF EnsureTask, TaskChecked, TypeOK, WorkersOK
    <2>2. CASE ~CanMove(task[wk.task].status, Target(wk.pc))
        BY <1>h, <2>0, <2>2, RaiseUnchecked DEF EnsureTask
    <2> QED
        BY <2>1, <2>2
<1>i. CASE EnsureSession(w)
    <2>0. /\ wk.pc \in SessionStage /\ wk.pc \notin TaskStage /\ wk.pc # "idle"
        BY <1>i DEF EnsureSession, TaskStage, SessionStage, rows
    <2>1. CASE CanMove(session[wk.task], Target(wk.pc))
        BY <1>i, <2>0, <2>1 DEF EnsureSession, SessionChecked, TypeOK, WorkersOK
    <2>2. CASE ~CanMove(session[wk.task], Target(wk.pc))
        BY <1>i, <2>0, <2>2, RaiseUnchecked DEF EnsureSession
    <2> QED
        BY <2>1, <2>2
<1>j. CASE WriteTask(w)
    <2>0. wk.pc \in TaskStage /\ wk.checked /\ wk.pc # "idle"
        BY <1>j DEF WriteTask, TaskStage
    <2>1. Goto(w, After(wk)) /\ After(wk) \in Stage
        BY <1>j, <1>w, <2>0, AfterOK DEF WriteTask
    <2>2. CASE wk.pc = "final_failed"
        <3>1. ~worker'[w].checked /\ worker'[w].task = wk.task
            BY <2>1 DEF Goto, TypeOK, WorkersOK, WorkerState
        <3> QED
            BY <1>j, <2>0, <2>2, <3>1
    <2>3. CASE wk.pc # "final_failed"
        <3>1. After(wk) # "final_s_failed"
            BY <2>0, <2>3 DEF After, TaskStage
        <3> QED
            BY <1>g, <2>1, <3>1
    <2> QED
        BY <2>2, <2>3
<1>k. CASE WriteSession(w) \/ AppendEvent(w)
    <2>0. wk.pc \in SessionStage \cup EventStage
        BY <1>k DEF WriteSession, AppendEvent
    <2>1. Goto(w, After(wk)) /\ After(wk) \in Stage
        BY <1>k, <1>w, <2>0, AfterOK DEF WriteSession, AppendEvent
    <2>2. After(wk) # "final_s_failed"
        BY <1>w, <2>0 DEF After, SessionStage, EventStage, WorkerState
    <2> QED
        BY <1>g, <2>1, <2>2
<1> QED
    BY <1>a, <1>b, <1>c, <1>d, <1>e, <1>f, <1>h, <1>i, <1>j, <1>k DEF WorkerStep

-----------------------------------------------------------------------------
(* Any number of actors: the rows implement the contested lifecycle.       *)

Begun(t) == session[t] \notin {"none", "queued"}

\* The session a delivery changes exists; and when the check of an end has
\* passed the session has left the queue, which no later write undoes.
WorkerContests(w) ==
    LET wk == worker[w]
    IN  /\ CheckedToWrite(w)
        /\ wk.pc = "final_s_failed" => task[wk.task].linked
        /\ wk.checked /\ wk.pc \in SessionStage \ {"s_running"} => Begun(wk.task)

\* The same of a cancel request, whose record may be old.
CancelContests(c) ==
    LET cl == canceller[c]
    IN  /\ cl.checked => cl.pc \in {"cancel", "s_cancel", "s_recover"}
        /\ \A t \in Tasks : cl.view[t].linked => task[t].linked
        /\ cl.pc \in {"s_cancel", "s_recover"} => cl.view[cl.task].linked
        /\ cl.checked /\ cl.pc = "s_recover" => Begun(cl.task)

ContestInv ==
    /\ \A w \in Workers : WorkerContests(w)
    /\ \A c \in Cancellers : CancelContests(c)

\* The session named by the stage of w exists.
LEMMA OwnSession ==
    ASSUME TypeOK, SafetyInv, NEW w \in Workers, WorkerContests(w),
           worker[w].pc \in SessionStage
    PROVE  worker[w].task \in Tasks /\ session[worker[w].task] \in Status
<1>1. PICK t \in Tasks : t = worker[w].task
    BY DEF TypeOK, WorkersOK, SessionStage
<1>2. worker[w].pc \in Attached \/ worker[w].pc = "final_s_failed"
    BY DEF Attached, Early, Stage, SessionStage
<1>3. task[t].linked
    BY <1>1, <1>2 DEF SafetyInv, WorkerKnows, WorkerContests
<1> QED
    BY <1>1, <1>3 DEF SafetyInv, LinkedHasSession, TypeOK, RowsOK

LEMMA OwnCancelSession ==
    ASSUME TypeOK, SafetyInv, NEW c \in Cancellers, CancelContests(c),
           canceller[c].pc \in {"s_cancel", "s_recover"}
    PROVE  canceller[c].task \in Tasks /\ session[canceller[c].task] \in Status
<1>1. PICK t \in Tasks : t = canceller[c].task
    BY DEF TypeOK, CancellersOK, CancelStage
<1>2. task[t].linked
    BY <1>1 DEF CancelContests
<1> QED
    BY <1>1, <1>2 DEF SafetyInv, LinkedHasSession, TypeOK, RowsOK

\* A session that may move to an end has left the queue.
LEMMA EndsAfterBegin ==
    ASSUME NEW s \in Status, NEW target \in {"completed", "failed"}, CanMove(s, target)
    PROVE  s \notin {"none", "queued"}
BY DEF CanMove, TASK_TRANSITIONS, Status

\* The steps that write a session.
LEMMA SessionWriters ==
    ASSUME [Next]_vars
    PROVE  \/ session' = session
           \/ \E w \in Workers : CreateSession(w) \/ WriteSession(w)
           \/ \E c \in Cancellers : WriteCancelSession(c)
<1>1. ASSUME NEW w \in Workers, WorkerStep(w)
      PROVE  session' = session \/ CreateSession(w) \/ WriteSession(w)
    BY <1>1
    DEF WorkerStep, rows, Receive, CheckCancelled, LoadInput, TakeSnapshot, LoadSession,
        Attach, RunAgent, EnsureTask, WriteTask, EnsureSession, AppendEvent, SyncTask,
        SyncSession, ScheduleRetry, FinalRead, Cleanup
<1>2. ASSUME NEW c \in Cancellers, CancelStep(c)
      PROVE  session' = session \/ WriteCancelSession(c)
    BY <1>2
    DEF CancelStep, rows, CancelTask, CancelBatch, Pick, EnsureCancelled, WriteCancelled,
        EnsureCancelSession, AppendCancelEvent, Revoke
<1> QED
    BY <1>1, <1>2, StepKinds, BrokerFrame

\* A session that has left the queue never returns to it.
LEMMA BegunStays ==
    ASSUME TypeOK, [Next]_vars, NEW t \in Tasks, Begun(t)
    PROVE  Begun(t)'
<1>1. ASSUME NEW w \in Workers, CreateSession(w) PROVE Begun(t)'
    BY <1>1 DEF CreateSession, Begun, TypeOK, RowsOK
<1>2. ASSUME NEW w \in Workers, WriteSession(w) PROVE Begun(t)'
    BY <1>2, TargetMoves DEF WriteSession, Begun, TypeOK, RowsOK
<1>3. ASSUME NEW c \in Cancellers, WriteCancelSession(c) PROVE Begun(t)'
    BY <1>3 DEF WriteCancelSession, SessionTarget, Begun, TypeOK, RowsOK
<1> QED
    BY <1>1, <1>2, <1>3, SessionWriters DEF Begun

LEMMA UncheckedContests ==
    ASSUME NEW w \in Workers, Unchecked(w)
    PROVE  WorkerContests(w)'
BY DEF WorkerContests, CheckedToWrite, Unchecked

LEMMA SameContests ==
    ASSUME TypeOK, Monotone, [Next]_vars, NEW w \in Workers, WorkerContests(w),
           worker'[w] = worker[w]
    PROVE  WorkerContests(w)'
<1> DEFINE wk == worker[w]
<1>1. CASE wk.pc = "idle"
    BY <1>1 DEF WorkerContests, CheckedToWrite, TaskStage, SessionStage
<1>2. CASE wk.pc # "idle"
    <2>1. PICK t \in Tasks : t = wk.task
        BY <1>2 DEF TypeOK, WorkersOK
    <2>2. wk.pc = "final_s_failed" => task'[t].linked
        BY <2>1 DEF WorkerContests, Monotone
    <2>3. Begun(t) => Begun(t)'
        BY BegunStays
    <2> QED
        BY <2>1, <2>2, <2>3 DEF WorkerContests, CheckedToWrite
<1> QED
    BY <1>1, <1>2

LEMMA WorkerContestsStep ==
    ASSUME TypeOK, SafetyInv, Monotone, [Next]_vars, NEW w \in Workers, WorkerContests(w),
           WorkerStep(w)
    PROVE  WorkerContests(w)'
<1> DEFINE wk == worker[w]
<1>w. wk \in WorkerState /\ (wk.pc # "idle" => wk.task \in Tasks)
    BY DEF TypeOK, WorkersOK
<1>d. TaskStage \cap SessionStage = {} /\ "final_s_failed" \notin TaskStage
    BY DEF TaskStage, SessionStage
<1>1. CASE /\ worker'[w] = [wk EXCEPT !.checked = TRUE]
           /\ TaskChecked(w) \/ SessionChecked(w)
           /\ UNCHANGED rows
    <2>1. worker'[w].pc = wk.pc /\ worker'[w].task = wk.task
        BY <1>1, <1>w DEF WorkerState
    <2>2. UNCHANGED <<task, session>>
        BY <1>1 DEF rows
    <2>3. CASE TaskChecked(w)
        BY <1>d, <2>1, <2>2, <2>3 DEF TaskChecked, WorkerContests, CheckedToWrite
    <2>4. CASE SessionChecked(w)
        <3>1. wk.task \in Tasks /\ session[wk.task] \in Status
            BY <2>4, OwnSession DEF SessionChecked
        <3>2. wk.pc # "s_running" => Target(wk.pc) \in {"completed", "failed"}
            BY <2>4 DEF SessionChecked, SessionStage, Target
        <3>3. wk.pc # "s_running" => Begun(wk.task)
            BY <2>4, <3>1, <3>2, EndsAfterBegin DEF SessionChecked, Begun
        <3>4. wk.pc = "final_s_failed" => task[wk.task].linked
            BY DEF WorkerContests
        <3> QED
            BY <2>1, <2>2, <2>4, <3>3, <3>4
            DEF SessionChecked, WorkerContests, CheckedToWrite, Begun
    <2> QED
        BY <1>1, <2>3, <2>4
<1>2. CASE /\ ~worker'[w].checked /\ worker'[w].pc = "final_s_failed"
           /\ worker'[w].task = wk.task /\ wk.pc = "final_failed" /\ wk.checked
    <2>1. PICK t \in Tasks : t = wk.task
        BY <1>2, <1>w
    <2>2. task'[t].linked
        BY <1>2, <2>1 DEF SafetyInv, WorkerKnows, FailingLegally, Monotone
    <2> QED
        BY <1>2, <2>1, <2>2 DEF WorkerContests, CheckedToWrite
<1>3. CASE Unchecked(w)
    BY <1>3, UncheckedContests
<1> QED
    BY <1>1, <1>2, <1>3, NextStage DEF WorkerContests, Unchecked

LEMMA WorkersContestStep ==
    ASSUME TypeOK, SafetyInv, [Next]_vars, NEW v \in Workers, WorkerContests(v)
    PROVE  WorkerContests(v)'
<1>m. Monotone
    BY MonotoneStep
<1>0. ASSUME worker'[v] = worker[v] PROVE WorkerContests(v)'
    BY <1>0, <1>m, SameContests
<1>i. ASSUME worker' = [worker EXCEPT ![v] = Idle] PROVE WorkerContests(v)'
    BY <1>i, UncheckedContests DEF Idle, Unchecked, TypeOK, WorkersOK
<1>1. ASSUME NEW w \in Workers, WorkerStep(w) PROVE WorkerContests(v)'
    <2>1. CASE v = w
        BY <1>m, <1>1, <2>1, WorkerContestsStep
    <2>2. CASE v # w
        BY <1>0, <1>1, <2>2, WorkersApart
    <2> QED
        BY <2>1, <2>2
<1>2. ASSUME NEW w \in Workers, Fault(w) PROVE WorkerContests(v)'
    <2>1. CASE v = w
        BY <1>2, <2>1, RaiseUnchecked, UncheckedContests DEF Fault
    <2>2. CASE v # w
        BY <1>0, <1>2, <2>2 DEF Fault, Raise, TypeOK, WorkersOK
    <2> QED
        BY <2>1, <2>2
<1>3. ASSUME NEW w \in Workers, Crash(w) \/ Redeliver(w) \/ Kill(w) PROVE WorkerContests(v)'
    <2>1. UNCHANGED worker \/ worker' = [worker EXCEPT ![w] = Idle]
        BY <1>3 DEF Crash, Redeliver, Kill
    <2> QED
        BY <1>0, <1>i, <2>1 DEF TypeOK, WorkersOK
<1>4. CASE UNCHANGED worker
    BY <1>0, <1>4
<1> QED
    BY <1>1, <1>2, <1>3, <1>4, CancelFrame DEF Next, Publish, Discard, CancelFault, vars

LEMMA SameCancelContests ==
    ASSUME TypeOK, Monotone, [Next]_vars, NEW c \in Cancellers, CancelContests(c),
           canceller'[c] = canceller[c]
    PROVE  CancelContests(c)'
<1> DEFINE cl == canceller[c]
<1>1. \A t \in Tasks : cl.view[t].linked => task'[t].linked
    BY DEF CancelContests, Monotone
<1>2. cl.pc = "s_recover" => cl.task \in Tasks
    BY DEF TypeOK, CancellersOK, CancelStage
<1>3. cl.checked /\ cl.pc = "s_recover" => Begun(cl.task)'
    <2> SUFFICES ASSUME cl.checked, cl.pc = "s_recover" PROVE Begun(cl.task)'
        OBVIOUS
    <2>1. PICK t \in Tasks : t = cl.task
        BY <1>2
    <2>2. Begun(t)'
        BY <2>1, BegunStays DEF CancelContests
    <2>3. t = cl.task'
        BY <2>1
    <2> QED
        BY <2>2, <2>3 DEF Begun
<1> QED
    BY <1>1, <1>3 DEF CancelContests, Begun

\* A request that goes on with the records it has read.
LEMMA StepContests ==
    ASSUME TypeOK, Monotone, NEW c \in Cancellers, CancelContests(c),
           NEW pc, Step(c, pc),
           pc \in {"s_cancel", "s_recover"} => canceller[c].view[canceller[c].task].linked
    PROVE  CancelContests(c)'
<1>1. /\ ~canceller'[c].checked /\ canceller'[c].pc = pc
      /\ canceller'[c].view = canceller[c].view /\ canceller'[c].task = canceller[c].task
    BY DEF Step, TypeOK, CancellersOK, CancellerState
<1>2. \A t \in Tasks : canceller[c].view[t].linked => task'[t].linked
    BY DEF CancelContests, Monotone
<1> QED
    BY <1>1, <1>2 DEF CancelContests

LEMMA CancelContestsStep ==
    ASSUME TypeOK, SafetyInv, Monotone, NEW c \in Cancellers, CancelContests(c), CancelStep(c)
    PROVE  CancelContests(c)'
<1> DEFINE cl == canceller[c]
<1>w. cl \in CancellerState
    BY DEF TypeOK, CancellersOK
<1>a. CASE CancelTask(c) \/ CancelBatch(c)
    <2>0. ~cl.checked /\ task' = task
        BY <1>a DEF CancelTask, CancelBatch, CancelContests, rows
    <2>1. CASE CancelTask(c)
        <3>1. PICK t \in Tasks, pc \in {"done", "error", "cancel"} :
                canceller' = [canceller EXCEPT
                    ![c].asked = {t}, ![c].view = task, ![c].task = t, ![c].pc = pc]
            BY <2>1 DEF CancelTask
        <3> QED
            BY <1>w, <2>0, <3>1 DEF TypeOK, CancellersOK, CancellerState, CancelContests
    <2>2. CASE CancelBatch(c)
        BY <1>w, <2>0, <2>2 DEF CancelBatch, TypeOK, CancellersOK, CancellerState,
                                CancelContests
    <2> QED
        BY <1>a, <2>1, <2>2
<1>b. CASE Pick(c)
    <2>0. ~cl.checked /\ task' = task
        BY <1>b DEF Pick, CancelContests, rows
    <2>1. CASE Step(c, "done")
        BY <2>1, StepContests
    <2>2. CASE \E t \in cl.todo :
                canceller' = [canceller EXCEPT
                    ![c].todo = @ \ {t},
                    ![c].task = t,
                    ![c].pc = IF cl.view[t].status \in Terminal THEN "pick" ELSE "cancel"]
        <3>1. PICK t \in cl.todo, pc \in {"pick", "cancel"} :
                canceller'[c] = [cl EXCEPT !.todo = @ \ {t}, !.task = t, !.pc = pc]
            BY <2>2 DEF TypeOK, CancellersOK
        <3>2. /\ ~canceller'[c].checked /\ canceller'[c].view = cl.view
              /\ canceller'[c].pc \in {"pick", "cancel"}
            BY <1>w, <2>0, <3>1 DEF CancellerState
        <3> QED
            BY <2>0, <3>2 DEF CancelContests
    <2> QED
        BY <1>b, <2>1, <2>2 DEF Pick
<1>c. CASE EnsureCancelled(c)
    <2>1. CASE CanMove(task[cl.task].status, "cancelled")
        <3>1. /\ canceller'[c].view = cl.view /\ task' = task
              /\ canceller'[c].pc = "cancel"
            BY <1>c, <1>w, <2>1 DEF EnsureCancelled, rows, TypeOK, CancellersOK, CancellerState
        <3> QED
            BY <3>1 DEF CancelContests
    <2>2. CASE Step(c, CancelHandler(cl.pc))
        <3>1. CancelHandler(cl.pc) = "error"
            BY <1>c DEF EnsureCancelled, CancelHandler
        <3> QED
            BY <2>2, <3>1, StepContests
    <2> QED
        BY <1>c, <2>1, <2>2 DEF EnsureCancelled
<1>d. CASE WriteCancelled(c)
    <2>1. Step(c, IF CancelWithSession(cl) THEN "s_cancel" ELSE "ev_cancelled")
        BY <1>d DEF WriteCancelled
    <2> QED
        BY <2>1, StepContests DEF CancelWithSession
<1>e. CASE EnsureCancelSession(c)
    <2>0. cl.view[cl.task].linked /\ cl.pc \in {"s_cancel", "s_recover"}
        BY <1>e DEF EnsureCancelSession, CancelContests
    <2>1. CASE CanMove(session[cl.task], SessionTarget(cl.pc))
        <3>1. /\ canceller'[c].view = cl.view /\ UNCHANGED rows
              /\ canceller'[c].pc = cl.pc /\ canceller'[c].task = cl.task
            BY <1>e, <1>w, <2>1 DEF EnsureCancelSession, TypeOK, CancellersOK, CancellerState
        <3>2. cl.pc = "s_recover" => Begun(cl.task)
            BY <2>0, <2>1, OwnCancelSession, EndsAfterBegin DEF SessionTarget, Begun
        <3> QED
            BY <2>0, <3>1, <3>2 DEF CancelContests, Begun, rows
    <2>2. CASE Step(c, CancelHandler(cl.pc))
        BY <2>0, <2>2, StepContests
    <2> QED
        BY <1>e, <2>1, <2>2 DEF EnsureCancelSession
<1>f. CASE WriteCancelSession(c)
    <2>1. Step(c, IF cl.pc = "s_cancel" THEN "ev_cancelled" ELSE "ev_recover")
        BY <1>f DEF WriteCancelSession
    <2> QED
        BY <2>1, StepContests
<1>g. CASE AppendCancelEvent(c) \/ Revoke(c)
    <2>1. \E pc \in {"revoke", "error", "pick"} : Step(c, pc)
        BY <1>g DEF AppendCancelEvent, Revoke
    <2> QED
        BY <2>1, StepContests
<1> QED
    BY <1>a, <1>b, <1>c, <1>d, <1>e, <1>f, <1>g DEF CancelStep

LEMMA CancellersContestStep ==
    ASSUME TypeOK, SafetyInv, [Next]_vars, NEW d \in Cancellers, CancelContests(d)
    PROVE  CancelContests(d)'
<1>m. Monotone
    BY MonotoneStep
<1>0. ASSUME canceller'[d] = canceller[d] PROVE CancelContests(d)'
    BY <1>0, <1>m, SameCancelContests
<1>1. ASSUME NEW c \in Cancellers, CancelStep(c) PROVE CancelContests(d)'
    BY <1>0, <1>1, <1>m, CancelContestsStep, CancellersApart
<1>2. ASSUME NEW c \in Cancellers, CancelFault(c) PROVE CancelContests(d)'
    <2>1. CASE c = d
        <3>1. PICK pc \in {CancelHandler(canceller[c].pc), "error"} : Step(c, pc)
            BY <1>2 DEF CancelFault
        <3>2. pc \notin {"s_cancel", "s_recover"} \/ canceller[c].pc = "s_cancel"
            BY DEF CancelHandler
        <3> QED
            BY <1>m, <2>1, <3>1, <3>2, StepContests DEF CancelContests
    <2>2. CASE c # d
        BY <1>0, <1>2, <2>2, CancellersApart
    <2> QED
        BY <2>1, <2>2
<1>3. CASE UNCHANGED canceller
    BY <1>0, <1>3
<1> QED
    BY <1>1, <1>2, <1>3, WorkerFrame DEF Next, Publish, Discard, Fault, Crash, Redeliver,
                                         Kill, vars

LEMMA ContestInvariant == Spec => [](TypeOK /\ SafetyInv /\ ContestInv)
<1>1. Init => ContestInv
    BY DEF Init, ContestInv, WorkerContests, CheckedToWrite, CancelContests, Idle
<1>2. TypeOK /\ SafetyInv /\ ContestInv /\ [Next]_vars => ContestInv'
    BY WorkersContestStep, CancellersContestStep DEF ContestInv
<1> QED
    BY <1>1, <1>2, SafetyInvariant, PTL DEF Spec

\* The lifecycle has the statuses and the table of the program.
LEMMA LifecycleTable ==
    /\ TaskRows!Status = Status /\ TaskRows!Terminal = Terminal
    /\ TaskRows!TASK_TRANSITIONS = TASK_TRANSITIONS
    /\ SessionRows!Status = Status /\ SessionRows!Terminal = Terminal
    /\ SessionRows!TASK_TRANSITIONS = TASK_TRANSITIONS
BY DEF TaskRows!Status, TaskRows!Terminal, TaskRows!TASK_TRANSITIONS, SessionRows!Status,
       SessionRows!Terminal, SessionRows!TASK_TRANSITIONS, Status, Terminal, TASK_TRANSITIONS

\* What may follow a status when only the way out of the queue is known.
LEMMA ContestedMove ==
    ASSUME NEW s \in Status, NEW target \in Status, s # target, target # "queued",
           s = "queued" => target \in {"running", "cancelled"}
    PROVE  target \in TASK_TRANSITIONS[s] \/ s \in Terminal
BY DEF Status, Terminal, TASK_TRANSITIONS

\* Any number of workers and cancel requests: what moves a task against the
\* transition table finds it over, and never puts it back in the queue.
THEOREM TasksKeepContestedLifecycle == Spec => TasksFollowContested
<1> DEFINE status == [t \in Tasks |-> task[t].status]
<1>1. Init => TaskRows!Init
    BY DEF Init, TaskRows!Init
<1>2. TypeOK /\ SafetyInv /\ [Next]_vars => [TaskRows!ContestedNext]_status
    <2> SUFFICES ASSUME TypeOK, SafetyInv, [Next]_vars, status' # status
                 PROVE  TaskRows!ContestedNext
        OBVIOUS
    <2>0. ASSUME NEW t \in Tasks, NEW target \in Status,
                 status' = [status EXCEPT ![t] = target], target # "queued",
                 status[t] = "queued" => target \in {"running", "cancelled"}
          PROVE  TaskRows!ContestedNext
        <3>1. status[t] \in Status
            BY DEF TypeOK, RowsOK, TaskRow
        <3>2. status \in [Tasks -> Status]
            BY DEF TypeOK, RowsOK, TaskRow
        <3> HIDE DEF status
        <3>3. status[t] # target
            BY <2>0, <3>2
        <3>4. target \in TASK_TRANSITIONS[status[t]] \/ status[t] \in Terminal
            BY <2>0, <3>1, <3>3, ContestedMove
        <3> QED
            BY <2>0, <3>1, <3>4, LifecycleTable
            DEF status, TaskRows!ContestedNext, TaskRows!Next, TaskRows!Move, TaskRows!Overwrite
    <2>1. ASSUME NEW w \in Workers, Attach(w) PROVE FALSE
        <3>1. \A t \in Tasks : task'[t].status = task[t].status
            BY <2>1 DEF Attach, TypeOK, RowsOK, TaskRow, WorkersOK
        <3> QED
            BY <3>1
    <2>2. ASSUME NEW w \in Workers, WriteTask(w) PROVE TaskRows!ContestedNext
        <3> DEFINE target == Target(worker[w].pc)
        <3>1. worker[w].pc \in TaskStage /\ worker[w].checked
            BY <2>2 DEF WriteTask
        <3>2. PICK t \in Tasks : t = worker[w].task
            BY <3>1 DEF TypeOK, WorkersOK, TaskStage
        <3>3. status' = [status EXCEPT ![t] = target]
            BY <2>2, <3>2 DEF WriteTask, TypeOK, RowsOK
        <3>4. target \in Status /\ target # "queued"
            BY TargetOK, TargetMoves
        <3>5. status[t] = "queued" => target = "running"
            <4> SUFFICES ASSUME task[t].status = "queued" PROVE target = "running"
                OBVIOUS
            <4>1. worker[w].pc \notin Moved /\ ~FailingLegally(worker[w])
                BY <3>2 DEF SafetyInv, WorkerKnows
            <4>2. worker[w].pc = "mark_running"
                BY <3>1, <4>1 DEF FailingLegally, Moved, Early, Stage, TaskStage
            <4> QED
                BY <4>2 DEF Target
        <3> HIDE DEF status, target
        <3> QED
            BY <2>0, <3>3, <3>4, <3>5
    <2>3. ASSUME NEW c \in Cancellers, WriteCancelled(c) PROVE TaskRows!ContestedNext
        <3>0. canceller[c].pc = "cancel"
            BY <2>3 DEF WriteCancelled
        <3>1. PICK t \in Tasks : t = canceller[c].task
            BY <3>0 DEF TypeOK, CancellersOK, CancelStage
        <3>2. status' = [status EXCEPT ![t] = "cancelled"]
            BY <2>3, <3>1 DEF WriteCancelled, TypeOK, RowsOK, TaskRow
        <3> HIDE DEF status
        <3> QED
            BY <2>0, <3>2 DEF Status
    <2> QED
        BY <2>1, <2>2, <2>3, TaskWriters
<1> QED
    BY <1>1, <1>2, SafetyInvariant, PTL
    DEF Spec, TasksFollowContested, TaskRows!ContestedSpec

\* The same of sessions, whose writers name them by records they read before.
THEOREM SessionsKeepContestedLifecycle == Spec => SessionsFollowContested
<1>1. Init => SessionRows!Init
    BY DEF Init, SessionRows!Init
<1>2. TypeOK /\ SafetyInv /\ ContestInv /\ [Next]_vars => [SessionRows!ContestedNext]_session
    <2> SUFFICES ASSUME TypeOK, SafetyInv, ContestInv, [Next]_vars, session' # session
                 PROVE  SessionRows!ContestedNext
        OBVIOUS
    <2>0. ASSUME NEW t \in Tasks, NEW target \in Status, session[t] \in Status,
                 session' = [session EXCEPT ![t] = target], target # "queued",
                 session[t] = "queued" => target \in {"running", "cancelled"}
          PROVE  SessionRows!ContestedNext
        <3>1. session[t] # target
            BY <2>0 DEF TypeOK, RowsOK
        <3>2. target \in TASK_TRANSITIONS[session[t]] \/ session[t] \in Terminal
            BY <2>0, <3>1, ContestedMove
        <3> QED
            BY <2>0, <3>2, LifecycleTable
            DEF SessionRows!ContestedNext, SessionRows!Next, SessionRows!Move,
                SessionRows!Overwrite
    <2>1. ASSUME NEW w \in Workers, CreateSession(w) PROVE SessionRows!ContestedNext
        <3>1. PICK t \in Tasks : t = worker[w].task
            BY <2>1 DEF CreateSession, TypeOK, WorkersOK
        <3>2. session' = [session EXCEPT ![t] = IF @ = "none" THEN "queued" ELSE @]
            BY <2>1, <3>1 DEF CreateSession
        <3>3. session[t] = "none" /\ session' = [session EXCEPT ![t] = "queued"]
            BY <3>2 DEF TypeOK, RowsOK
        <3> QED
            BY <3>3 DEF SessionRows!ContestedNext, SessionRows!Next, SessionRows!Create
    <2>2. ASSUME NEW w \in Workers, WriteSession(w) PROVE SessionRows!ContestedNext
        <3> DEFINE target == Target(worker[w].pc)
        <3>1. worker[w].pc \in SessionStage /\ worker[w].checked /\ WorkerContests(w)
            BY <2>2 DEF WriteSession, ContestInv
        <3>2. PICK t \in Tasks : t = worker[w].task /\ session[t] \in Status
            BY <3>1, OwnSession
        <3>3. session' = [session EXCEPT ![t] = target]
            BY <2>2, <3>2 DEF WriteSession
        <3>4. target \in Status /\ target # "queued"
            BY TargetOK, TargetMoves
        <3>5. session[t] = "queued" => target = "running"
            BY <3>1, <3>2 DEF WorkerContests, Begun, Target
        <3> HIDE DEF target
        <3> QED
            BY <2>0, <3>2, <3>3, <3>4, <3>5
    <2>3. ASSUME NEW c \in Cancellers, WriteCancelSession(c) PROVE SessionRows!ContestedNext
        <3> DEFINE target == SessionTarget(canceller[c].pc)
        <3>1. /\ canceller[c].pc \in {"s_cancel", "s_recover"} /\ canceller[c].checked
              /\ CancelContests(c)
            BY <2>3 DEF WriteCancelSession, ContestInv
        <3>2. PICK t \in Tasks : t = canceller[c].task /\ session[t] \in Status
            BY <3>1, OwnCancelSession
        <3>3. session' = [session EXCEPT ![t] = target]
            BY <2>3, <3>2 DEF WriteCancelSession
        <3>4. target \in Status /\ target # "queued"
            BY DEF SessionTarget, Status
        <3>5. session[t] = "queued" => target = "cancelled"
            BY <3>1, <3>2 DEF CancelContests, Begun, SessionTarget
        <3> HIDE DEF target
        <3> QED
            BY <2>0, <3>2, <3>3, <3>4, <3>5
    <2> QED
        BY <2>1, <2>2, <2>3, SessionWriters
<1> QED
    BY <1>1, <1>2, ContestInvariant, PTL
    DEF Spec, SessionsFollowContested, SessionRows!ContestedSpec


-----------------------------------------------------------------------------
(* One actor at a time: the rows implement TaskLifecycle.                  *)

OneActor == Cancellers = {} /\ \A v, w \in Workers : v = w

\* A check that has passed still holds when its write comes, as nobody else
\* writes; and the session a delivery changes exists.
CheckHolds(w) ==
    LET wk == worker[w]
    IN  /\ wk.pc = "final_s_failed" => task[wk.task].linked
        /\ wk.checked => wk.pc \in TaskStage \cup SessionStage
        /\ wk.checked /\ wk.pc \in TaskStage =>
               CanMove(task[wk.task].status, Target(wk.pc))
        /\ wk.checked /\ wk.pc \in SessionStage =>
               CanMove(session[wk.task], Target(wk.pc))

ChecksHold == \A w \in Workers : CheckHolds(w)

\* A stage that has been entered has not been checked yet.
LEMMA UncheckedHolds ==
    ASSUME NEW w \in Workers, Unchecked(w)
    PROVE  CheckHolds(w)'
BY DEF CheckHolds, Unchecked

LEMMA CheckStep ==
    ASSUME TypeOK, SafetyInv, Monotone, NEW w \in Workers, CheckHolds(w), WorkerStep(w)
    PROVE  CheckHolds(w)'
<1> DEFINE wk == worker[w]
<1>w. wk \in WorkerState /\ (wk.pc # "idle" => wk.task \in Tasks)
    BY DEF TypeOK, WorkersOK
<1>d. TaskStage \cap SessionStage = {} /\ "idle" \notin TaskStage
    BY DEF TaskStage, SessionStage
<1>1. CASE /\ worker'[w] = [wk EXCEPT !.checked = TRUE]
           /\ TaskChecked(w) \/ SessionChecked(w)
           /\ UNCHANGED rows
    <2>1. worker'[w].pc = wk.pc /\ worker'[w].task = wk.task
        BY <1>1, <1>w DEF WorkerState
    <2> QED
        BY <1>1, <1>d, <2>1 DEF CheckHolds, TaskChecked, SessionChecked, rows
<1>2. CASE /\ ~worker'[w].checked /\ worker'[w].pc = "final_s_failed"
           /\ worker'[w].task = wk.task /\ wk.pc = "final_failed" /\ wk.checked
    <2>1. PICK t \in Tasks : t = wk.task
        BY <1>2, <1>w
    <2>2. task'[t].linked
        BY <1>2, <2>1 DEF SafetyInv, WorkerKnows, FailingLegally, Monotone
    <2> QED
        BY <1>2, <2>1, <2>2 DEF CheckHolds
<1>3. CASE Unchecked(w)
    BY <1>3, UncheckedHolds
<1> QED
    BY <1>1, <1>2, <1>3, NextStage DEF CheckHolds, CheckedToWrite, Unchecked

LEMMA ChecksHoldStep ==
    ASSUME OneActor
    PROVE  TypeOK /\ SafetyInv /\ ChecksHold /\ [Next]_vars => ChecksHold'
<1> SUFFICES ASSUME TypeOK, SafetyInv, ChecksHold, [Next]_vars, NEW v \in Workers
             PROVE  CheckHolds(v)'
    BY DEF ChecksHold
<1>m. Monotone
    BY MonotoneStep
<1>0. ASSUME UNCHANGED <<task, session, worker>> PROVE CheckHolds(v)'
    BY <1>0 DEF ChecksHold, CheckHolds
<1>1. ASSUME NEW w \in Workers, WorkerStep(w) PROVE CheckHolds(v)'
    <2>1. v = w
        BY DEF OneActor
    <2> QED
        BY <1>m, <1>1, <2>1, CheckStep DEF ChecksHold
<1>2. ASSUME NEW w \in Workers, Fault(w) PROVE CheckHolds(v)'
    <2>1. v = w
        BY DEF OneActor
    <2> QED
        BY <1>2, <2>1, RaiseUnchecked, UncheckedHolds DEF Fault
<1>3. ASSUME NEW w \in Workers, Crash(w) \/ Redeliver(w) \/ Kill(w) PROVE CheckHolds(v)'
    <2>1. v = w
        BY DEF OneActor
    <2>2. CASE worker' = [worker EXCEPT ![w] = Idle]
        BY <2>1, <2>2, UncheckedHolds DEF Idle, Unchecked, TypeOK, WorkersOK
    <2>3. CASE UNCHANGED worker
        BY <1>0, <1>3, <2>3, BrokerFrame
    <2> QED
        BY <1>3, <2>2, <2>3 DEF Crash, Redeliver, Kill
<1>4. CASE (\E t \in Tasks : Publish(t)) \/ (\E m \in Message : Discard(m)) \/ UNCHANGED vars
    BY <1>0, <1>4 DEF Publish, Discard, vars, rows
<1> QED
    BY <1>1, <1>2, <1>3, <1>4 DEF Next, OneActor

LEMMA ChecksHoldInvariant ==
    ASSUME OneActor
    PROVE  Spec => [](TypeOK /\ SafetyInv /\ ChecksHold)
<1>1. Init => ChecksHold
    BY DEF Init, ChecksHold, CheckHolds, Idle
<1>2. TypeOK /\ SafetyInv /\ ChecksHold /\ [Next]_vars => ChecksHold'
    BY ChecksHoldStep
<1> QED
    BY <1>1, <1>2, SafetyInvariant, PTL DEF Spec

\* What CanMove allows is a stutter or an entry of the table.
LEMMA LegalMove ==
    ASSUME NEW s, NEW target, CanMove(s, target), s # target
    PROVE  target \in TASK_TRANSITIONS[s]
BY DEF CanMove

Statuses == [t \in Tasks |-> task[t].status]

LEMMA LoneTaskMove ==
    ASSUME OneActor, TypeOK, SafetyInv, ChecksHold, [Next]_vars
    PROVE  [TaskRows!Next]_Statuses
<1> DEFINE status == Statuses
<1> USE DEF Statuses
<1> SUFFICES ASSUME status' # status PROVE TaskRows!Next
    OBVIOUS
<1>1. ASSUME NEW w \in Workers, Attach(w) PROVE FALSE
    <2>1. \A t \in Tasks : task'[t].status = task[t].status
        BY <1>1 DEF Attach, TypeOK, RowsOK, TaskRow, WorkersOK
    <2> QED
        BY <2>1
<1>2. ASSUME NEW w \in Workers, WriteTask(w) PROVE TaskRows!Next
    <2> DEFINE target == Target(worker[w].pc)
    <2>1. worker[w].pc \in TaskStage /\ worker[w].checked /\ worker[w].pc # "idle"
        BY <1>2 DEF WriteTask, TaskStage
    <2>2. PICK t \in Tasks : t = worker[w].task
        BY <2>1 DEF TypeOK, WorkersOK
    <2>3. status' = [status EXCEPT ![t] = target]
        BY <1>2, <2>2 DEF WriteTask, TypeOK, RowsOK
    <2>4. status[t] \in Status /\ target \in Status
        BY TargetOK DEF TypeOK, RowsOK, TaskRow
    <2>5. CanMove(status[t], target)
        BY <2>1, <2>2 DEF ChecksHold, CheckHolds
    <2> HIDE DEF status, target
    <2>6. status[t] # target
        BY <2>3, <2>4 DEF status
    <2>7. target \in TASK_TRANSITIONS[status[t]]
        BY <2>5, <2>6, LegalMove
    <2> QED
        BY <2>3, <2>4, <2>7, LifecycleTable DEF status, TaskRows!Next, TaskRows!Move
<1> QED
    BY <1>1, <1>2, TaskWriters DEF OneActor

\* With one worker and no cancel request the status of a task makes one legal
\* move at a time and its end is final, through crashes, redeliveries,
\* retries and failing calls.
THEOREM LoneWorkersKeepTheLifecycle ==
    ASSUME OneActor
    PROVE  Spec => TasksFollowLifecycle
<1>1. Init => TaskRows!Init
    BY DEF Init, TaskRows!Init
<1>2. TypeOK /\ SafetyInv /\ ChecksHold /\ [Next]_vars => [TaskRows!Next]_Statuses
    BY LoneTaskMove
<1> QED
    BY <1>1, <1>2, ChecksHoldInvariant, PTL DEF Spec, TasksFollowLifecycle, TaskRows!Spec, Statuses

\* With one worker and no cancel request what is over stays as it is: what the
\* transition table says of its ends, and racing actors do not keep.
THEOREM LoneWorkersEndOnce ==
    ASSUME OneActor
    PROVE  Spec => TerminalIsFinal
<1> DEFINE Final ==
        \A t \in Tasks : task[t].status \in Terminal => task'[t].status = task[t].status
<1>1. TypeOK /\ SafetyInv /\ ChecksHold /\ [Next]_vars => Final
    <2> SUFFICES ASSUME TypeOK, [TaskRows!Next]_Statuses, NEW t \in Tasks,
                        Statuses[t] \in Terminal
                 PROVE  Statuses'[t] = Statuses[t]
        BY LoneTaskMove DEF Statuses
    <2>1. Statuses \in [Tasks -> Status]
        BY DEF Statuses, TypeOK, RowsOK, TaskRow
    <2>2. Statuses[t] # "none" /\ TASK_TRANSITIONS[Statuses[t]] = {}
        BY DEF Terminal, TASK_TRANSITIONS
    <2>3. CASE TaskRows!Next
        <3>1. PICK r \in Tasks, target \in Status :
                   /\ Statuses' = [Statuses EXCEPT ![r] = target]
                   /\ Statuses[r] = "none" \/ target \in TASK_TRANSITIONS[Statuses[r]]
            <4>1. PICK r \in Tasks : TaskRows!Create(r)
                                      \/ \E target \in Status : TaskRows!Move(r, target)
                BY <2>3, LifecycleTable DEF TaskRows!Next
            <4>2. "queued" \in Status
                BY DEF Status
            <4> QED
                BY <4>1, <4>2, LifecycleTable DEF TaskRows!Create, TaskRows!Move, Statuses
        <3>2. r # t
            BY <2>2, <3>1
        <3> QED
            BY <2>1, <3>1, <3>2
    <2> QED
        BY <2>3
<1>2. TypeOK /\ SafetyInv /\ ChecksHold /\ [Next]_vars => [Final]_vars
    BY <1>1
<1> QED
    BY <1>2, ChecksHoldInvariant, PTL DEF Spec, TerminalIsFinal

\* The same of the status of its session.
THEOREM LoneWorkersKeepTheSessions ==
    ASSUME OneActor
    PROVE  Spec => SessionsFollowLifecycle
<1>1. Init => SessionRows!Init
    BY DEF Init, SessionRows!Init
<1>2. TypeOK /\ SafetyInv /\ ChecksHold /\ [Next]_vars => [SessionRows!Next]_session
    <2> SUFFICES ASSUME TypeOK, SafetyInv, ChecksHold, [Next]_vars, session' # session
                 PROVE  SessionRows!Next
        OBVIOUS
    <2>1. ASSUME NEW w \in Workers, CreateSession(w) PROVE SessionRows!Next
        <3>1. PICK t \in Tasks : t = worker[w].task
            BY <2>1 DEF CreateSession, TypeOK, WorkersOK
        <3>2. session' = [session EXCEPT ![t] = IF @ = "none" THEN "queued" ELSE @]
            BY <2>1, <3>1 DEF CreateSession
        <3>3. session[t] = "none" /\ session' = [session EXCEPT ![t] = "queued"]
            BY <3>2 DEF TypeOK, RowsOK
        <3> QED
            BY <3>3 DEF SessionRows!Next, SessionRows!Create
    <2>2. ASSUME NEW w \in Workers, WriteSession(w) PROVE SessionRows!Next
        <3> DEFINE target == Target(worker[w].pc)
        <3>1. worker[w].pc \in SessionStage /\ worker[w].checked /\ worker[w].pc # "idle"
            BY <2>2 DEF WriteSession, SessionStage
        <3>2. PICK t \in Tasks : t = worker[w].task
            BY <3>1 DEF TypeOK, WorkersOK
        <3>3. session' = [session EXCEPT ![t] = target]
            BY <2>2, <3>2 DEF WriteSession
        <3>4. task[t].linked
            <4>1. worker[w].pc \in Attached \/ worker[w].pc = "final_s_failed"
                BY <3>1 DEF Attached, Early, Stage, SessionStage
            <4> QED
                BY <3>2, <4>1 DEF SafetyInv, WorkerKnows, ChecksHold, CheckHolds
        <3>5. session[t] \in Status /\ target \in Status
            BY <3>4, TargetOK DEF SafetyInv, LinkedHasSession, TypeOK, RowsOK
        <3>6. CanMove(session[t], target)
            BY <3>1, <3>2 DEF ChecksHold, CheckHolds
        <3> HIDE DEF target
        <3>7. session[t] # target
            BY <3>3 DEF TypeOK, RowsOK
        <3>8. target \in TASK_TRANSITIONS[session[t]]
            BY <3>6, <3>7, LegalMove
        <3> QED
            BY <3>3, <3>5, <3>8, LifecycleTable DEF SessionRows!Next, SessionRows!Move
    <2> QED
        BY <2>1, <2>2, SessionWriters DEF OneActor
<1> QED
    BY <1>1, <1>2, ChecksHoldInvariant, PTL DEF Spec, SessionsFollowLifecycle, SessionRows!Spec

-----------------------------------------------------------------------------
(* One actor at a time: without a fault a task and its session end alike.  *)

\* A task and its session between two deliveries: not started, waiting for a
\* retry, or over in the same way.
Even(row, its) ==
    \/ row.status = "queued" /\ ~row.linked /\ its = "none"
    \/ row.status = "running" /\ row.linked /\ its = "running"
    \/ row.status \in Terminal /\ its = row.status

\* What the stage of a delivery says of its task and its session, when no
\* call has failed and nothing was handed out twice.
EvenAt(wk, row, its) ==
    LET Are(status, other) == row.status = status /\ its = other
    IN  /\ wk.pc \in {"check", "load", "snapshot", "session", "retry", "final_read",
                      "final_failed", "cleanup"} => Even(row, its)
        /\ wk.pc \in {"session", "final_failed"} =>
               row.status \notin Terminal /\ wk.linked = row.linked
        /\ wk.pc = "session" => wk.seen = row.status
        /\ wk.pc \in {"create", "attach"} => wk.seen = "queued"
        /\ wk.pc = "create" => Are("queued", "none")
        /\ wk.pc \in {"attach", "mark_running"} => Are("queued", "queued")
        /\ wk.pc = "s_running" => Are("running", "queued")
        /\ wk.pc \in {"ev_started", "agent", "mark_completed", "mark_failed"} =>
               Are("running", "running")
        /\ wk.pc = "s_completed" => Are("completed", "running")
        /\ wk.pc \in {"s_failed", "final_s_failed"} => Are("failed", "running")
        /\ wk.pc = "ev_completed" => Are("completed", "completed")
        /\ wk.pc \in {"ev_failed", "ev_final"} => Are("failed", "failed")
        /\ wk.pc \in {"s_running", "ev_started", "agent"} => row.linked
        /\ wk.pc = "final_failed" /\ wk.checked => row.status = "running"
        /\ wk.pc \notin {"sync_task", "sync_failed", "sync_session", "sync_s_failed", "ev_sync"}

\* No delivery is at work on t.
Untouched(t) == \A w \in Workers : worker[w].task = t => worker[w].pc = "idle"

EvenInv ==
    /\ revoked = {}
    /\ faults = 0 /\ disruptions = 0 =>
        /\ \A w \in Workers :
              worker[w].pc # "idle" =>
                 EvenAt(worker[w], task[worker[w].task], session[worker[w].task])
        /\ \A t \in Tasks : Untouched(t) => Even(task[t], session[t])

\* What the delivery of w leaves of t: its next stage, or a row between two
\* deliveries.
Leaves(w, t) ==
    IF worker'[w].pc = "idle"
    THEN Even(task'[t], session'[t])
    ELSE worker'[w].task = t /\ EvenAt(worker'[w], task'[t], session'[t])

LEMMA GotoLeaves ==
    ASSUME TypeOK, NEW w \in Workers, NEW t \in Tasks, worker[w].task = t,
           NEW pc \in Stage, Goto(w, pc),
           EvenAt([worker[w] EXCEPT !.pc = pc, !.checked = FALSE], task'[t], session'[t])
    PROVE  Leaves(w, t)
<1>1. worker'[w] = [worker[w] EXCEPT !.pc = pc, !.checked = FALSE]
    BY DEF Goto, TypeOK, WorkersOK
<1>2. worker'[w].pc # "idle" /\ worker'[w].task = t
    BY <1>1 DEF TypeOK, WorkersOK, WorkerState, Stage, TaskStage, SessionStage,
                EventStage, ReadStage
<1> QED
    BY <1>1, <1>2 DEF Leaves

LEMMA LeavesStep ==
    ASSUME TypeOK, NEW w \in Workers, NEW t \in Tasks, worker[w].task = t,
           worker[w].pc # "idle", EvenAt(worker[w], task[t], session[t]), WorkerStep(w)
    PROVE  Leaves(w, t)
<1> DEFINE wk == worker[w]
<1>w. wk \in WorkerState /\ task[t] \in TaskRow /\ session[t] \in Status \cup {"none"}
    BY DEF TypeOK, WorkersOK, RowsOK
<1>s. Stage = TaskStage \cup SessionStage \cup EventStage \cup ReadStage
    BY DEF Stage
<1>a. CASE CheckCancelled(w)
    <2>1. PICK pc \in {"cleanup", "load"} : Goto(w, pc)
        BY <1>a DEF CheckCancelled
    <2>2. Even(task[t], session[t]) /\ UNCHANGED rows
        BY <1>a DEF CheckCancelled, EvenAt
    <2>3. EvenAt([wk EXCEPT !.pc = pc, !.checked = FALSE], task'[t], session'[t])
        BY <1>w, <2>2 DEF EvenAt, WorkerState, rows
    <2> QED
        BY <2>1, <2>3, GotoLeaves DEF Stage, ReadStage
<1>b. CASE LoadInput(w)
    <2>1. wk.pc = "load" /\ UNCHANGED rows
        BY <1>b DEF LoadInput
    <2>2. \E pc \in {"snapshot", "retry", "final_read"} : Goto(w, pc)
        <3>1. CASE Raise(w)
            <4>1. worker' = [worker EXCEPT ![w].pc = "final_read", ![w].checked = FALSE,
                                           ![w].back = wk.back]
                BY <2>1, <3>1 DEF Raise, Handler
            <4>2. worker' = [worker EXCEPT ![w].pc = "final_read", ![w].checked = FALSE]
                BY <1>w, <4>1 DEF TypeOK, WorkersOK, WorkerState
            <4> QED
                BY <4>2 DEF Goto
        <3> QED
            BY <1>b, <3>1 DEF LoadInput
    <2>3. PICK pc \in {"snapshot", "retry", "final_read"} : Goto(w, pc)
        BY <2>2
    <2>4. EvenAt([wk EXCEPT !.pc = pc, !.checked = FALSE], task'[t], session'[t])
        BY <1>w, <2>1 DEF EvenAt, WorkerState, rows
    <2> QED
        BY <2>3, <2>4, GotoLeaves DEF Stage, ReadStage
<1>c. CASE TakeSnapshot(w)
    <2>1. /\ worker'[w] = [wk EXCEPT
                !.seen = task[t].status,
                !.linked = task[t].linked,
                !.pc = IF task[t].status \in Terminal THEN "cleanup"
                       ELSE IF t \notin Routable THEN "final_read"
                       ELSE "session"]
          /\ wk.pc = "snapshot" /\ UNCHANGED rows
        BY <1>c DEF TakeSnapshot, TypeOK, WorkersOK
    <2>2. Even(task[t], session[t])
        BY <2>1 DEF EvenAt
    <2>3. EvenAt(worker'[w], task'[t], session'[t])
        BY <1>w, <2>1, <2>2 DEF EvenAt, WorkerState, rows
    <2> QED
        BY <1>w, <2>1, <2>3 DEF Leaves, WorkerState
<1>d. CASE LoadSession(w)
    <2>1. /\ wk.pc = "session" /\ UNCHANGED rows
          /\ Goto(w, IF session[t] = "none" THEN "create"
                     ELSE IF wk.linked THEN "final_read" ELSE "attach")
        BY <1>d DEF LoadSession
    <2>2. /\ Even(task[t], session[t]) /\ wk.linked = task[t].linked
          /\ wk.seen = task[t].status /\ task[t].status \notin Terminal
        BY <2>1 DEF EvenAt
    <2>3. CASE session[t] = "none"
        <3>1. wk.seen = "queued" /\ task[t].status = "queued"
            BY <1>w, <2>2, <2>3 DEF Even, Terminal, TaskRow, Status
        <3>2. EvenAt([wk EXCEPT !.pc = "create", !.checked = FALSE], task'[t], session'[t])
            BY <1>w, <2>1, <2>2, <2>3, <3>1 DEF EvenAt, WorkerState, rows
        <3> QED
            BY <2>1, <2>3, <3>2, GotoLeaves DEF Stage, ReadStage
    <2>4. CASE session[t] # "none"
        <3>1. wk.linked
            BY <2>2, <2>4 DEF Even
        <3>2. EvenAt([wk EXCEPT !.pc = "final_read", !.checked = FALSE], task'[t], session'[t])
            BY <1>w, <2>1, <2>2 DEF EvenAt, WorkerState, rows
        <3> QED
            BY <2>1, <2>4, <3>1, <3>2, GotoLeaves DEF Stage, ReadStage
    <2> QED
        BY <2>3, <2>4
<1>e. CASE CreateSession(w)
    <2>1. wk.pc = "create" /\ Goto(w, "attach") /\ task' = task
        BY <1>e DEF CreateSession
    <2>2. session'[t] = "queued" /\ task[t].status = "queued" /\ wk.seen = "queued"
        BY <1>e, <2>1 DEF CreateSession, EvenAt, TypeOK, RowsOK
    <2>3. EvenAt([wk EXCEPT !.pc = "attach", !.checked = FALSE], task'[t], session'[t])
        BY <1>w, <2>1, <2>2 DEF EvenAt, WorkerState
    <2> QED
        BY <2>1, <2>3, GotoLeaves DEF Stage, ReadStage
<1>f. CASE Attach(w)
    <2>1. wk.pc = "attach" /\ wk.seen = "queued" /\ session' = session
        BY <1>f DEF Attach, EvenAt
    <2>2. Goto(w, "mark_running") /\ task'[t].status = task[t].status
        BY <1>f, <2>1 DEF Attach, TypeOK, RowsOK, TaskRow
    <2>3. EvenAt([wk EXCEPT !.pc = "mark_running", !.checked = FALSE], task'[t], session'[t])
        BY <1>w, <2>1, <2>2 DEF EvenAt, WorkerState
    <2> QED
        BY <2>2, <2>3, GotoLeaves DEF Stage, TaskStage
<1>g. CASE RunAgent(w)
    <2>1. PICK pc \in {"mark_completed", "mark_failed", "retry"} : Goto(w, pc)
        BY <1>g DEF RunAgent
    <2>2. wk.pc = "agent" /\ UNCHANGED rows
        BY <1>g DEF RunAgent
    <2>3. EvenAt([wk EXCEPT !.pc = pc, !.checked = FALSE], task'[t], session'[t])
        BY <1>w, <2>2 DEF EvenAt, Even, WorkerState, rows
    <2> QED
        BY <2>1, <2>3, GotoLeaves DEF Stage, TaskStage, ReadStage
<1>h. CASE EnsureTask(w)
    <2>1. wk.pc \in TaskStage /\ ~wk.checked /\ UNCHANGED rows
        BY <1>h DEF EnsureTask
    <2>2. CASE CanMove(task[t].status, Target(wk.pc))
        <3>1. worker'[w] = [wk EXCEPT !.checked = TRUE]
            BY <1>h, <2>2 DEF EnsureTask, TypeOK, WorkersOK
        <3>2. wk.pc = "final_failed" => task[t].status = "running"
            <4> SUFFICES ASSUME wk.pc = "final_failed" PROVE task[t].status = "running"
                OBVIOUS
            <4>1. task[t].status \in {"running", "failed"}
                BY <1>w, <2>2, MayFail DEF Target, TaskRow
            <4> QED
                BY <4>1 DEF EvenAt, Terminal
        <3>3. EvenAt(worker'[w], task'[t], session'[t])
            BY <1>w, <2>1, <3>1, <3>2 DEF EvenAt, WorkerState, rows, TaskStage
        <3> QED
            BY <1>w, <3>1, <3>3 DEF Leaves, WorkerState
    <2>3. CASE ~CanMove(task[t].status, Target(wk.pc))
        <3>1. wk.pc = "final_failed"
            BY <2>1, <2>3 DEF EvenAt, CanMove, Target, TASK_TRANSITIONS, TaskStage
        <3>2. worker'[w].pc = "idle"
            BY <1>h, <2>3, <3>1 DEF EnsureTask, Raise, Handler, Idle, TypeOK, WorkersOK
        <3> QED
            BY <2>1, <3>1, <3>2 DEF Leaves, EvenAt, rows
    <2> QED
        BY <2>2, <2>3
<1>i. CASE WriteTask(w)
    <2>1. /\ wk.pc \in TaskStage /\ wk.checked /\ session' = session
          /\ Goto(w, After(wk)) /\ After(wk) \in Stage
        BY <1>i, <1>w, AfterOK DEF WriteTask
    <2>2. /\ task'[t].status = Target(wk.pc)
          /\ task'[t].linked = (task[t].linked \/ wk.pc = "mark_running")
        BY <1>i DEF WriteTask, TypeOK, RowsOK
    <2>3. CASE wk.pc \in {"mark_running", "mark_completed", "mark_failed"}
        <3>0. /\ wk.pc = "mark_running" => After(wk) = "s_running"
              /\ wk.pc = "mark_completed" => After(wk) = "s_completed"
              /\ wk.pc = "mark_failed" => After(wk) = "s_failed"
            BY DEF After
        <3>1. EvenAt([wk EXCEPT !.pc = After(wk), !.checked = FALSE], task'[t], session'[t])
            BY <1>w, <2>1, <2>2, <2>3, <3>0 DEF EvenAt, WorkerState, Target
        <3> QED
            BY <2>1, <3>1, GotoLeaves
    <2>4. CASE wk.pc = "final_failed"
        <3>1. After(wk) = "final_s_failed" /\ session[t] = "running"
            <4>1. task[t].status = "running" /\ Even(task[t], session[t])
                  /\ wk.linked = task[t].linked
                BY <2>1, <2>4 DEF EvenAt
            <4>2. task[t].linked /\ session[t] = "running"
                BY <4>1 DEF Even, Terminal
            <4> QED
                BY <2>4, <4>1, <4>2 DEF After
        <3>2. EvenAt([wk EXCEPT !.pc = After(wk), !.checked = FALSE], task'[t], session'[t])
            BY <1>w, <2>1, <2>2, <2>4, <3>1 DEF EvenAt, WorkerState, Target
        <3> QED
            BY <2>1, <3>2, GotoLeaves
    <2>5. CASE wk.pc = "sync_failed"
        BY <2>5 DEF EvenAt
    <2> QED
        BY <2>1, <2>3, <2>4, <2>5 DEF TaskStage
<1>j. CASE EnsureSession(w)
    <2>1. wk.pc \in SessionStage /\ ~wk.checked /\ UNCHANGED rows
        BY <1>j DEF EnsureSession
    <2>2. CanMove(session[t], Target(wk.pc))
        BY <2>1 DEF EvenAt, CanMove, Target, TASK_TRANSITIONS, SessionStage
    <2>3. worker'[w] = [wk EXCEPT !.checked = TRUE]
        BY <1>j, <2>2 DEF EnsureSession, TypeOK, WorkersOK
    <2>4. EvenAt(worker'[w], task'[t], session'[t])
        BY <1>w, <2>1, <2>3 DEF EvenAt, WorkerState, rows, SessionStage
    <2> QED
        BY <1>w, <2>3, <2>4 DEF Leaves, WorkerState
<1>k. CASE WriteSession(w)
    <2>1. /\ wk.pc \in SessionStage /\ task' = task /\ session'[t] = Target(wk.pc)
          /\ Goto(w, After(wk)) /\ After(wk) \in Stage
        BY <1>k, <1>w, AfterOK DEF WriteSession, TypeOK, RowsOK
    <2>2. wk.pc \in {"s_running", "s_completed", "s_failed", "final_s_failed"}
        BY <2>1 DEF EvenAt, SessionStage
    <2>0. /\ wk.pc = "s_running" => After(wk) = "ev_started"
          /\ wk.pc = "s_completed" => After(wk) = "ev_completed"
          /\ wk.pc = "s_failed" => After(wk) = "ev_failed"
          /\ wk.pc = "final_s_failed" => After(wk) = "ev_final"
        BY DEF After
    <2>3. EvenAt([wk EXCEPT !.pc = After(wk), !.checked = FALSE], task'[t], session'[t])
        BY <1>w, <2>0, <2>1, <2>2 DEF EvenAt, WorkerState, Target
    <2> QED
        BY <2>1, <2>3, GotoLeaves
<1>l. CASE AppendEvent(w)
    <2>1. /\ wk.pc \in EventStage /\ UNCHANGED rows
          /\ Goto(w, After(wk)) /\ After(wk) \in Stage
        BY <1>l, <1>w, AfterOK DEF AppendEvent
    <2>2. wk.pc \in {"ev_started", "ev_completed", "ev_failed", "ev_final"}
        BY <2>1 DEF EvenAt, EventStage
    <2>0. /\ wk.pc = "ev_started" => After(wk) = "agent"
          /\ wk.pc = "ev_failed" => After(wk) = "final_read"
          /\ wk.pc \in {"ev_completed", "ev_final"} => After(wk) = "cleanup"
        BY DEF After
    <2>3. EvenAt([wk EXCEPT !.pc = After(wk), !.checked = FALSE], task'[t], session'[t])
        BY <1>w, <2>0, <2>1, <2>2 DEF EvenAt, Even, WorkerState, rows, Terminal
    <2> QED
        BY <2>1, <2>3, GotoLeaves
<1>m. CASE ScheduleRetry(w)
    <2>1. wk.pc = "retry" /\ UNCHANGED rows
        BY <1>m DEF ScheduleRetry
    <2>2. Even(task[t], session[t])
        BY <2>1 DEF EvenAt
    <2>3. Goto(w, "final_read") \/ worker' = [worker EXCEPT ![w] = Idle]
        BY <1>m DEF ScheduleRetry
    <2>4. EvenAt([wk EXCEPT !.pc = "final_read", !.checked = FALSE], task'[t], session'[t])
        BY <1>w, <2>1, <2>2 DEF EvenAt, WorkerState, rows
    <2>5. CASE Goto(w, "final_read")
        BY <2>4, <2>5, GotoLeaves DEF Stage, ReadStage
    <2>6. CASE worker' = [worker EXCEPT ![w] = Idle]
        BY <2>1, <2>2, <2>6 DEF Leaves, Idle, rows, TypeOK, WorkersOK
    <2> QED
        BY <2>3, <2>5, <2>6
<1>n. CASE FinalRead(w)
    <2>1. /\ worker'[w] = [wk EXCEPT
                !.linked = task[t].linked,
                !.checked = FALSE,
                !.pc = IF task[t].status \in Terminal THEN "cleanup" ELSE "final_failed"]
          /\ wk.pc = "final_read" /\ UNCHANGED rows
        BY <1>n DEF FinalRead, TypeOK, WorkersOK
    <2>2. Even(task[t], session[t])
        BY <2>1 DEF EvenAt
    <2>3. EvenAt(worker'[w], task'[t], session'[t])
        BY <1>w, <2>1, <2>2 DEF EvenAt, WorkerState, rows
    <2> QED
        BY <1>w, <2>1, <2>3 DEF Leaves, WorkerState
<1>o. CASE Cleanup(w)
    <2>1. wk.pc = "cleanup" /\ UNCHANGED rows /\ worker'[w] = Idle
        BY <1>o DEF Cleanup, TypeOK, WorkersOK
    <2> QED
        BY <2>1 DEF Leaves, EvenAt, Idle, rows
<1> QED
    BY <1>a, <1>b, <1>c, <1>d, <1>e, <1>f, <1>g, <1>h, <1>i, <1>j, <1>k, <1>l, <1>m, <1>n,
       <1>o DEF WorkerStep, Receive, SyncTask, SyncSession, EvenAt

\* A message that is received finds its row between two deliveries.
LEMMA ReceivedEven ==
    ASSUME TypeOK, NEW w \in Workers, NEW t \in Tasks, Receive(w), worker'[w].task = t,
           Even(task[t], session[t])
    PROVE  EvenAt(worker'[w], task'[t], session'[t])
<1>1. PICK m \in Message :
        worker' = [worker EXCEPT ![w] =
            [Idle EXCEPT !.pc = "check", !.task = m[1], !.retries = m[2]]]
    BY DEF Receive
<1>2. worker'[w].pc = "check" /\ UNCHANGED rows
    BY <1>1 DEF Receive, Idle, TypeOK, WorkersOK
<1> QED
    BY <1>2 DEF EvenAt, rows

\* A delivery writes the rows of its task only.
LEMMA OwnRowsOnly ==
    ASSUME TypeOK, NEW w \in Workers, WorkerStep(w), NEW u \in Tasks, worker[w].task # u
    PROVE  task'[u] = task[u] /\ session'[u] = session[u]
<1>1. CASE Attach(w) \/ WriteTask(w)
    BY <1>1 DEF Attach, WriteTask, TypeOK, RowsOK
<1>2. CASE CreateSession(w) \/ WriteSession(w)
    BY <1>2 DEF CreateSession, WriteSession, TypeOK, RowsOK
<1>3. CASE UNCHANGED rows
    BY <1>3 DEF rows
<1> QED
    BY <1>1, <1>2, <1>3
    DEF WorkerStep, rows, Receive, CheckCancelled, LoadInput, TakeSnapshot, LoadSession,
        RunAgent, EnsureTask, EnsureSession, AppendEvent, SyncTask, SyncSession,
        ScheduleRetry, FinalRead, Cleanup

LEMMA EvenStep ==
    ASSUME OneActor
    PROVE  TypeOK /\ EvenInv /\ [Next]_vars => EvenInv'
<1> SUFFICES ASSUME TypeOK, EvenInv, [Next]_vars PROVE EvenInv'
    OBVIOUS
<1>0. ASSUME UNCHANGED <<task, session, worker, revoked>>,
             faults' = 0 /\ disruptions' = 0 => faults = 0 /\ disruptions = 0
      PROVE  EvenInv'
    BY <1>0 DEF EvenInv, Untouched
<1>1. ASSUME NEW w \in Workers, WorkerStep(w) PROVE EvenInv'
    <2>1. UNCHANGED <<revoked, faults, disruptions>>
        BY <1>1, WorkerFrame DEF bounds
    <2> SUFFICES ASSUME faults = 0, disruptions = 0
                 PROVE  /\ worker'[w].pc # "idle" =>
                              EvenAt(worker'[w], task'[worker'[w].task],
                                     session'[worker'[w].task])
                        /\ \A t \in Tasks :
                              (worker'[w].task = t => worker'[w].pc = "idle") =>
                                  Even(task'[t], session'[t])
        BY <2>1 DEF EvenInv, Untouched, OneActor
    <2>2. \A t \in Tasks :
            (worker[w].task = t => worker[w].pc = "idle") => Even(task[t], session[t])
        BY DEF EvenInv, Untouched, OneActor
    <2>3. CASE worker[w].pc = "idle"
        <3>1. Receive(w)
            BY <1>1, <2>3 DEF WorkerStep, CheckCancelled, LoadInput, TakeSnapshot, LoadSession,
                CreateSession, Attach, RunAgent, EnsureTask, WriteTask, EnsureSession,
                WriteSession, AppendEvent, SyncTask, SyncSession, ScheduleRetry, FinalRead,
                Cleanup, TaskStage, SessionStage, EventStage
        <3>2. UNCHANGED rows
            BY <3>1 DEF Receive
        <3>3. worker'[w].pc # "idle" => worker'[w].task \in Tasks
            BY TypeStep DEF TypeOK, WorkersOK
        <3>4. PICK t \in Tasks : worker'[w].pc # "idle" => worker'[w].task = t
            <4>1. CASE worker'[w].pc # "idle"
                BY <3>3, <4>1
            <4>2. CASE worker'[w].pc = "idle"
                <5>1. PICK m \in Message : TRUE
                    BY <3>1 DEF Receive
                <5> QED
                    BY <4>2, <5>1 DEF Message
            <4> QED
                BY <4>1, <4>2
        <3> QED
            BY <2>2, <2>3, <3>1, <3>2, <3>4, ReceivedEven DEF rows
    <2>4. CASE worker[w].pc # "idle"
        <3>1. PICK t \in Tasks : t = worker[w].task
            BY <2>4 DEF TypeOK, WorkersOK
        <3>2. EvenAt(worker[w], task[t], session[t])
            BY <2>4, <3>1 DEF EvenInv
        <3>3. Leaves(w, t)
            BY <1>1, <2>4, <3>1, <3>2, LeavesStep
        <3>4. \A u \in Tasks : u # t => Even(task'[u], session'[u])
            BY <1>1, <2>2, <3>1, OwnRowsOnly
        <3> QED
            BY <3>3, <3>4 DEF Leaves
    <2> QED
        BY <2>3, <2>4
<1>2. ASSUME NEW w \in Workers, Fault(w) \/ Crash(w) \/ Redeliver(w) PROVE EvenInv'
    <2>1. revoked' = revoked /\ (faults' # 0 \/ disruptions' # 0)
        BY <1>2 DEF Fault, Crash, Redeliver, broker, TypeOK, HistoryOK
    <2> QED
        BY <2>1 DEF EvenInv
<1>3. ASSUME NEW w \in Workers, Kill(w) PROVE FALSE
    BY <1>3 DEF Kill, EvenInv
<1>4. CASE (\E t \in Tasks : Publish(t)) \/ (\E m \in Message : Discard(m)) \/ UNCHANGED vars
    BY <1>0, <1>4 DEF Publish, Discard, vars, rows, broker, bounds
<1> QED
    BY <1>1, <1>2, <1>3, <1>4 DEF Next, OneActor

\* One actor at a time, no call that fails and nothing handed out twice: a
\* task at rest and its session ended alike, whatever the number of tasks,
\* of messages and of retries.
THEOREM LoneWorkersLeaveRowsPaired ==
    ASSUME OneActor
    PROVE  Spec => []PairedAtRest
<1>1. Init => EvenInv
    BY DEF Init, EvenInv, Untouched, Idle, Even
<1>2. TypeOK /\ EvenInv /\ [Next]_vars => EvenInv'
    BY EvenStep
<1>3. TypeOK /\ EvenInv => PairedAtRest
    <2> SUFFICES ASSUME EvenInv, faults = 0, disruptions = 0, NEW t \in Tasks, AtRest(t),
                        task[t].status \in Terminal
                 PROVE  session[t] = task[t].status
        BY DEF PairedAtRest
    <2>1. Even(task[t], session[t])
        BY DEF EvenInv, Untouched, AtRest
    <2> QED
        BY <2>1 DEF Even, Terminal
<1> QED
    BY <1>1, <1>2, <1>3, TypeCorrect, PTL DEF Spec

=============================================================================
