------------------------- MODULE DispatchOutboxProofs -------------------------
(***************************************************************************)
(* Theorems about DispatchOutbox, for every number of tasks and set of API *)
(* processes, and for every value of the bounds.                           *)
(***************************************************************************)
EXTENDS DispatchOutbox, FiniteSetTheorems, TLAPS

-----------------------------------------------------------------------------
(* How a process moves.                                                    *)

ProcessesOK ==
    /\ process \in [Processes -> ProcessState]
    /\ \A p \in Processes : process[p].pc # "idle" => process[p].task \in Tasks

LEMMA NoTaskIsNone == NoTask \notin Tasks
BY OutboxAssumption DEF NoTask, Tasks, OutboxAssumption

LEMMA IdleOK == Idle \in ProcessState
BY DEF Idle, ProcessState

LEMMA GotoOK ==
    ASSUME ProcessesOK, NEW p \in Processes, process[p].pc # "idle",
           NEW pc \in Stage, Goto(p, pc)
    PROVE  ProcessesOK'
<1>1. [process[p] EXCEPT !.pc = pc] \in ProcessState
    BY DEF ProcessesOK, ProcessState
<1>2. process' = [process EXCEPT ![p] = [process[p] EXCEPT !.pc = pc]]
    BY DEF Goto, ProcessesOK
<1> QED
    BY <1>1, <1>2 DEF ProcessesOK, ProcessState

\* The next row of the loop, or the end of the request.
LEMMA ProceedOK ==
    ASSUME ProcessesOK, NEW p \in Processes, process[p].pc # "idle",
           NEW C \in SUBSET Tasks, Proceed(p, C)
    PROVE  ProcessesOK'
<1>1. CASE process' = [process EXCEPT ![p] = Idle]
    BY <1>1, IdleOK DEF ProcessesOK, Idle
<1>2. ASSUME NEW t \in process[p].todo,
             process' = [process EXCEPT
                ![p].pc = IF process[p].kind = "submit" THEN "claim" ELSE "publish",
                ![p].todo = @ \ {t},
                ![p].task = t,
                ![p].counted = C]
      PROVE  ProcessesOK'
    <2> DEFINE next == [process[p] EXCEPT
                !.pc = IF process[p].kind = "submit" THEN "claim" ELSE "publish",
                !.todo = @ \ {t}, !.task = t, !.counted = C]
    <2>1. t \in Tasks
        BY <1>2 DEF ProcessesOK, ProcessState
    <2>2. next \in ProcessState /\ next.task \in Tasks
        BY <2>1 DEF ProcessesOK, ProcessState, Stage, DispatchStage
    <2>3. process' = [process EXCEPT ![p] = next]
        BY <1>2 DEF ProcessesOK
    <2> QED
        BY <2>2, <2>3 DEF ProcessesOK
<1> QED
    BY <1>1, <1>2 DEF Proceed

-----------------------------------------------------------------------------
\* Every variable holds what the code can store in it.
THEOREM OutboxTypeCorrect == Spec => []TypeOK
<1>1. Init => TypeOK
    BY IdleOK DEF Init, TypeOK, Idle
<1>2. TypeOK /\ [Next]_vars => TypeOK'
    <2> SUFFICES ASSUME TypeOK, [Next]_vars PROVE TypeOK'
        OBVIOUS
    <2>p. ProcessesOK /\ \A p \in Processes : process[p] \in ProcessState
        BY DEF TypeOK, ProcessesOK
    <2>1. ASSUME NEW p \in Processes, Submit(p) PROVE TypeOK'
        <3>1. PICK S \in SUBSET {t \in Tasks : status[t] = "none"} :
                \E t \in S :
                  /\ status' = [u \in Tasks |-> IF u \in S THEN "pending" ELSE status[u]]
                  /\ process' = [process EXCEPT ![p] =
                        [Idle EXCEPT !.pc = "claim", !.todo = S \ {t}, !.task = t]]
            BY <2>1 DEF Submit
        <3>2. PICK t \in S : process' = [process EXCEPT ![p] =
                        [Idle EXCEPT !.pc = "claim", !.todo = S \ {t}, !.task = t]]
            BY <3>1
        <3>3. [Idle EXCEPT !.pc = "claim", !.todo = S \ {t}, !.task = t] \in ProcessState
            BY <3>1, <3>2 DEF Idle, ProcessState, Stage
        <3>4. ProcessesOK'
            BY <2>p, <3>2, <3>3 DEF ProcessesOK, Idle
        <3> QED
            BY <2>1, <3>1, <3>4 DEF Submit, TypeOK, ProcessesOK, DispatchStatus
    <2>2. ASSUME NEW p \in Processes, Reconcile(p) PROVE TypeOK'
        <3>1. PICK limit \in Limits : \E t \in Oldest(limit) :
                  /\ status' = [u \in Tasks |->
                        IF u \in Oldest(limit) THEN "dispatching" ELSE status[u]]
                  /\ process' = [process EXCEPT ![p] =
                        [Idle EXCEPT !.pc = "publish", !.kind = "reconcile",
                                     !.todo = Oldest(limit) \ {t}, !.task = t]]
            BY <2>2 DEF Reconcile
        <3>2. PICK t \in Oldest(limit) : process' = [process EXCEPT ![p] =
                        [Idle EXCEPT !.pc = "publish", !.kind = "reconcile",
                                     !.todo = Oldest(limit) \ {t}, !.task = t]]
            BY <3>1
        <3>3. Oldest(limit) \in SUBSET Tasks
            BY DEF Oldest
        <3>4. [Idle EXCEPT !.pc = "publish", !.kind = "reconcile",
                           !.todo = Oldest(limit) \ {t}, !.task = t] \in ProcessState
            BY <3>2, <3>3 DEF Idle, ProcessState, Stage, DispatchStage
        <3>5. ProcessesOK'
            BY <2>p, <3>2, <3>3, <3>4 DEF ProcessesOK, Idle
        <3> QED
            BY <2>2, <3>1, <3>5 DEF Reconcile, TypeOK, ProcessesOK, DispatchStatus
    <2>3. ASSUME NEW p \in Processes, Claim(p) PROVE TypeOK'
        <3>1. ProcessesOK'
            BY <2>3, <2>p, GotoOK DEF Claim, Stage, DispatchStage
        <3> QED
            BY <2>3, <3>1 DEF Claim, TypeOK, ProcessesOK, DispatchStatus
    <2>4. ASSUME NEW p \in Processes, Reread(p) PROVE TypeOK'
        <3>0. process[p].task \in Tasks /\ process[p].counted \in SUBSET Tasks
            BY <2>4, <2>p DEF Reread, ProcessesOK, ProcessState
        <3>1. CASE Goto(p, "publish")
            BY <2>4, <2>p, <3>1, GotoOK DEF Reread, Stage, DispatchStage, TypeOK, ProcessesOK
        <3>2. ASSUME NEW C \in SUBSET Tasks, Proceed(p, C) PROVE ProcessesOK'
            BY <2>4, <2>p, <3>2, ProceedOK DEF Reread
        <3> QED
            BY <2>4, <3>0, <3>1, <3>2 DEF Reread, TypeOK, ProcessesOK
    <2>5. ASSUME NEW p \in Processes, Publish(p) PROVE TypeOK'
        <3>1. ProcessesOK'
            BY <2>5, <2>p, GotoOK DEF Publish, Stage, DispatchStage
        <3> QED
            BY <2>5, <3>1 DEF Publish, TypeOK, ProcessesOK
    <2>6. ASSUME NEW p \in Processes, Mark(p) \/ MarkFailed(p) PROVE TypeOK'
        <3>1. ProcessesOK'
            BY <2>6, <2>p, GotoOK DEF Mark, MarkFailed, Stage, DispatchStage
        <3> QED
            BY <2>6, <3>1 DEF Mark, MarkFailed, TypeOK, ProcessesOK, DispatchStatus
    <2>7. ASSUME NEW p \in Processes, AppendDispatched(p) \/ AppendFailed(p) PROVE TypeOK'
        <3>0. /\ process[p].task \in Tasks
              /\ process[p].counted \in SUBSET Tasks
              /\ process[p].pc # "idle"
            BY <2>7, <2>p DEF AppendDispatched, AppendFailed, ProcessesOK, ProcessState
        <3>1. ProcessesOK'
            BY <2>7, <2>p, <3>0, ProceedOK DEF AppendDispatched, AppendFailed
        <3> QED
            BY <2>7, <3>1 DEF AppendDispatched, AppendFailed, TypeOK, ProcessesOK
    <2>8. ASSUME NEW p \in Processes, Fault(p) PROVE TypeOK'
        <3>0. process[p].counted \in SUBSET Tasks
            BY <2>p DEF ProcessState
        <3>1. CASE Goto(p, "fail")
            <4>1. ProcessesOK'
                BY <2>8, <2>p, <3>1, GotoOK DEF Fault, Stage, DispatchStage
            <4> QED
                BY <2>8, <4>1 DEF Fault, TypeOK, ProcessesOK
        <3>2. CASE Proceed(p, process[p].counted)
            <4>1. ProcessesOK'
                BY <2>8, <2>p, <3>0, <3>2, ProceedOK DEF Fault
            <4> QED
                BY <2>8, <4>1 DEF Fault, TypeOK, ProcessesOK
        <3>3. CASE process' = [process EXCEPT ![p] = Idle]
            <4>1. ProcessesOK'
                BY <2>p, <3>3, IdleOK DEF ProcessesOK, Idle
            <4> QED
                BY <2>8, <4>1 DEF Fault, TypeOK, ProcessesOK
        <3> QED
            BY <2>8, <3>1, <3>2, <3>3 DEF Fault
    <2>9. ASSUME NEW p \in Processes, Crash(p) PROVE TypeOK'
        <3>1. ProcessesOK'
            BY <2>9, <2>p, IdleOK DEF Crash, ProcessesOK, Idle
        <3> QED
            BY <2>9, <3>1 DEF Crash, TypeOK, ProcessesOK
    <2>10. CASE UNCHANGED vars
        BY <2>10 DEF vars, TypeOK
    <2> QED
        BY <2>1, <2>2, <2>3, <2>4, <2>5, <2>6, <2>7, <2>8, <2>9, <2>10 DEF Next, Proceeds
<1> QED
    BY <1>1, <1>2, PTL DEF Spec

-----------------------------------------------------------------------------
(* The inductive invariant.  A process at rest remembers nothing, only     *)
(* submitters claim rows one by one, the except block runs only after a    *)
(* call has failed, whoever marks a row has sent its message, and until a  *)
(* call fails a reconcile's rows are not claimable.                        *)

IdleIsIdle == \A p \in Processes : process[p].pc = "idle" => process[p] = Idle

SubmittersClaim ==
    \A p \in Processes : process[p].pc \in {"claim", "reread"} => process[p].kind = "submit"

FailedAfterFault ==
    \A p \in Processes : process[p].pc \in {"fail", "fail_event"} => faults > 0

MarkedWasSent ==
    \A p \in Processes :
        process[p].pc \in {"mark", "event"} => sent[process[p].task] > 0

HeldIsClaimed ==
    faults = 0 =>
        \A p \in Processes : \A t \in Tasks :
            process[p].kind = "reconcile" /\ Holds(p, t) =>
                status[t] \in {"dispatching", "dispatched"}

OutboxInv ==
    /\ IdleIsIdle /\ SubmittersClaim /\ FailedAfterFault
    /\ MarkedWasSent /\ DispatchedWasSent
    /\ ClaimsAreHeld
    /\ HeldIsClaimed /\ ReconcilesDisjoint

-----------------------------------------------------------------------------
(* What a step does to the process that takes it, and to the others.       *)

Acts(p) == Submit(p) \/ Reconcile(p) \/ Proceeds(p) \/ Fault(p) \/ Crash(p)

LEMMA OthersWait ==
    ASSUME TypeOK, NEW p \in Processes, NEW q \in Processes, p # q, Acts(p)
    PROVE  process'[q] = process[q]
<1>1. ASSUME NEW pc, Goto(p, pc) PROVE process'[q] = process[q]
    BY <1>1 DEF Goto, TypeOK
<1>2. ASSUME NEW C, Proceed(p, C) PROVE process'[q] = process[q]
    BY <1>2 DEF Proceed, TypeOK
<1>3. ASSUME NEW s, process' = [process EXCEPT ![p] = s] PROVE process'[q] = process[q]
    BY <1>3 DEF TypeOK
<1>4. CASE Submit(p) \/ Reconcile(p) \/ Crash(p)
    BY <1>3, <1>4 DEF Submit, Reconcile, Crash
<1>5. CASE Proceeds(p)
    BY <1>1, <1>2, <1>5 DEF Proceeds, Claim, Reread, Publish, Mark, AppendDispatched,
       MarkFailed, AppendFailed
<1>6. CASE Fault(p)
    BY <1>1, <1>2, <1>3, <1>6 DEF Fault
<1> QED
    BY <1>4, <1>5, <1>6 DEF Acts

LEMMA GotoMoves ==
    ASSUME TypeOK, NEW p \in Processes, NEW pc, Goto(p, pc)
    PROVE  /\ process'[p].pc = pc
           /\ process'[p].kind = process[p].kind
           /\ process'[p].todo = process[p].todo
           /\ process'[p].task = process[p].task
           /\ process'[p].counted = process[p].counted
BY DEF Goto, TypeOK, ProcessState

Continues(p) ==
    \E t \in process[p].todo :
        /\ process'[p].pc = IF process[p].kind = "submit" THEN "claim" ELSE "publish"
        /\ process'[p].kind = process[p].kind
        /\ process'[p].todo = process[p].todo \ {t}
        /\ process'[p].task = t

LEMMA ProceedMoves ==
    ASSUME TypeOK, NEW p \in Processes, NEW C, Proceed(p, C)
    PROVE  /\ \/ process[p].todo = {} /\ process'[p] = Idle
              \/ Continues(p)
           /\ process'[p].counted \in {{}, C}
<1>1. CASE process[p].todo = {} /\ process' = [process EXCEPT ![p] = Idle]
    BY <1>1 DEF TypeOK, Idle
<1>2. ASSUME NEW t \in process[p].todo,
             process' = [process EXCEPT
                ![p].pc = IF process[p].kind = "submit" THEN "claim" ELSE "publish",
                ![p].todo = @ \ {t},
                ![p].task = t,
                ![p].counted = C]
      PROVE  Continues(p) /\ process'[p].counted = C
    BY <1>2 DEF TypeOK, ProcessState, Continues
<1> QED
    BY <1>1, <1>2 DEF Proceed

LEMMA SubmitMoves ==
    ASSUME TypeOK, NEW p \in Processes, Submit(p)
    PROVE  /\ process'[p].pc = "claim"
           /\ process'[p].kind = "submit"
           /\ process'[p].counted = {}
           /\ \A t \in Tasks : \/ status'[t] = status[t]
                               \/ status[t] = "none" /\ status'[t] = "pending"
<1>1. PICK S \in SUBSET {t \in Tasks : status[t] = "none"} :
        \E t \in S :
          /\ status' = [u \in Tasks |-> IF u \in S THEN "pending" ELSE status[u]]
          /\ process' = [process EXCEPT ![p] =
                [Idle EXCEPT !.pc = "claim", !.todo = S \ {t}, !.task = t]]
    BY DEF Submit
<1>2. PICK t \in S : process' = [process EXCEPT ![p] =
                [Idle EXCEPT !.pc = "claim", !.todo = S \ {t}, !.task = t]]
    BY <1>1
<1> QED
    BY <1>1, <1>2 DEF TypeOK, Idle

\* A reconcile takes claimable rows and holds every one of them.
LEMMA ReconcileMoves ==
    ASSUME TypeOK, NEW p \in Processes, Reconcile(p)
    PROVE  /\ process'[p].pc = "publish"
           /\ process'[p].kind = "reconcile"
           /\ process'[p].counted = {}
           /\ \A t \in Tasks :
                IF process'[p].task = t \/ t \in process'[p].todo
                THEN status[t] \in Claimable /\ status'[t] = "dispatching"
                ELSE status'[t] = status[t]
<1>1. PICK limit \in Limits : \E t \in Oldest(limit) :
          /\ status' = [u \in Tasks |->
                IF u \in Oldest(limit) THEN "dispatching" ELSE status[u]]
          /\ process' = [process EXCEPT ![p] =
                [Idle EXCEPT !.pc = "publish", !.kind = "reconcile",
                             !.todo = Oldest(limit) \ {t}, !.task = t]]
    BY DEF Reconcile
<1>2. PICK t \in Oldest(limit) : process' = [process EXCEPT ![p] =
                [Idle EXCEPT !.pc = "publish", !.kind = "reconcile",
                             !.todo = Oldest(limit) \ {t}, !.task = t]]
    BY <1>1
<1>3. \A u \in Oldest(limit) : status[u] \in Claimable
    BY DEF Oldest
<1> QED
    BY <1>1, <1>2, <1>3 DEF TypeOK, Idle

LEMMA FaultMoves ==
    ASSUME TypeOK, NEW p \in Processes, Fault(p)
    PROVE  /\ faults' > 0
           /\ faults < 1 \/ faults' > 1
           /\ status' = status /\ events' = events
           /\ \A t \in Tasks : sent'[t] >= sent[t]
           /\ \/ process[p].pc \in {"publish", "mark", "event"} /\ Goto(p, "fail")
              \/ process[p].pc = "fail_event" /\ Proceed(p, process[p].counted)
              \/ process[p].pc \in {"claim", "reread", "fail"} /\ process'[p] = Idle
<1>1. faults' = faults + 1 /\ faults \in Nat
    BY DEF Fault, TypeOK
<1>2. \A t \in Tasks : sent'[t] >= sent[t]
    BY DEF Fault, TypeOK
<1>3. \/ process[p].pc \in {"publish", "mark", "event"} /\ Goto(p, "fail")
      \/ process[p].pc = "fail_event" /\ Proceed(p, process[p].counted)
      \/ process[p].pc \in {"claim", "reread", "fail"} /\ process'[p] = Idle
    <2>1. process[p].pc \in Stage
        BY DEF Fault, TypeOK, ProcessState
    <2> QED
        BY <2>1 DEF Fault, TypeOK, Stage, DispatchStage
<1> QED
    BY <1>1, <1>2, <1>3 DEF Fault

-----------------------------------------------------------------------------
(* Each part of the invariant.                                             *)

LEMMA ShapeStep ==
    ASSUME TypeOK, OutboxInv, NEW p \in Processes, Acts(p)
    PROVE  IdleIsIdle' /\ SubmittersClaim' /\ FailedAfterFault'
<1> SUFFICES /\ process'[p].pc = "idle" => process'[p] = Idle
             /\ process'[p].pc \in {"claim", "reread"} => process'[p].kind = "submit"
             /\ process'[p].pc \in {"fail", "fail_event"} => faults' > 0
             /\ faults > 0 => faults' > 0
    BY OthersWait DEF OutboxInv, IdleIsIdle, SubmittersClaim, FailedAfterFault
<1>0. /\ process[p].pc \in {"claim", "reread"} => process[p].kind = "submit"
      /\ process[p].pc \in {"fail", "fail_event"} => faults > 0
    BY DEF OutboxInv, SubmittersClaim, FailedAfterFault
<1>1. CASE Submit(p)
    BY <1>1, SubmitMoves DEF Submit
<1>2. CASE Reconcile(p)
    BY <1>2, ReconcileMoves DEF Reconcile
<1>3. ASSUME NEW C, Proceed(p, C)
      PROVE  \/ process'[p] = Idle
             \/ process'[p].pc = "publish"
             \/ process'[p].pc = "claim" /\ process'[p].kind = "submit"
    BY <1>3, ProceedMoves DEF Continues
<1>4. CASE Claim(p)
    BY <1>0, <1>4, GotoMoves DEF Claim
<1>5. CASE Reread(p) \/ AppendDispatched(p) \/ AppendFailed(p)
    <2>1. \/ process'[p].pc = "publish"
          \/ process'[p] = Idle
          \/ process'[p].pc = "claim" /\ process'[p].kind = "submit"
        BY <1>3, <1>5, GotoMoves DEF Reread, AppendDispatched, AppendFailed
    <2>2. faults' = faults
        BY <1>5 DEF Reread, AppendDispatched, AppendFailed
    <2> QED
        BY <2>1, <2>2 DEF Idle
<1>6. CASE Publish(p) \/ Mark(p) \/ MarkFailed(p)
    BY <1>0, <1>6, GotoMoves DEF Publish, Mark, MarkFailed
<1>7. CASE Fault(p)
    <2>1. \/ process'[p].pc = "fail"
          \/ process'[p] = Idle
          \/ process'[p].pc = "publish"
          \/ process'[p].pc = "claim" /\ process'[p].kind = "submit"
        BY <1>3, <1>7, FaultMoves, GotoMoves
    <2>2. faults' > 0
        BY <1>7, FaultMoves
    <2> QED
        BY <2>1, <2>2 DEF Idle
<1>8. CASE Crash(p)
    BY <1>8 DEF Crash, TypeOK, Idle
<1> QED
    BY <1>1, <1>2, <1>4, <1>5, <1>6, <1>7, <1>8 DEF Acts, Proceeds

\* The messages of a task are never taken back.
LEMMA SentGrows ==
    ASSUME TypeOK, NEW p \in Processes, Acts(p), NEW t \in Tasks, sent[t] > 0
    PROVE  sent'[t] > 0
<1>1. sent[t] \in Nat
    BY DEF TypeOK
<1>2. CASE Publish(p)
    BY <1>1, <1>2 DEF Publish, TypeOK
<1>3. CASE Fault(p)
    <2>1. sent'[t] >= sent[t]
        BY <1>3, FaultMoves
    <2>2. sent'[t] \in Nat
        BY <1>3 DEF Fault, TypeOK
    <2> QED
        BY <1>1, <2>1, <2>2
<1>4. ASSUME sent' = sent PROVE sent'[t] > 0
    BY <1>4
<1> QED
    BY <1>2, <1>3, <1>4 DEF Acts, Proceeds, Submit, Reconcile, Claim, Reread, Mark,
       AppendDispatched, MarkFailed, AppendFailed, Crash

\* What the process, the row and the event log newly claim was sent.
LEMMA SentStep ==
    ASSUME TypeOK, OutboxInv, NEW p \in Processes, Acts(p)
    PROVE  MarkedWasSent' /\ DispatchedWasSent'
<1> DEFINE Claims(t) == \/ status[t] = "dispatched"
                        \/ "TASK_DISPATCHED" \in events[t]
                        \/ \E q \in Processes : t \in process[q].counted
<1>0. /\ \A t \in Tasks : Claims(t) => sent[t] > 0
      /\ process[p].pc \in {"mark", "event"} => sent[process[p].task] > 0
      /\ process[p].pc # "idle" => process[p].task \in Tasks
      /\ process[p] \in ProcessState
    BY DEF OutboxInv, DispatchedWasSent, MarkedWasSent, TypeOK
<1> SUFFICES /\ process'[p].pc \in {"mark", "event"} => sent'[process'[p].task] > 0
             /\ \A t \in Tasks :
                    \/ status'[t] = "dispatched" /\ status[t] # "dispatched"
                    \/ "TASK_DISPATCHED" \in events'[t] /\ "TASK_DISPATCHED" \notin events[t]
                    \/ t \in process'[p].counted /\ t \notin process[p].counted
                    => sent[t] > 0
    <2>1. ASSUME NEW q \in Processes, q # p, process'[q].pc \in {"mark", "event"}
          PROVE  sent'[process'[q].task] > 0
        <3>1. process'[q] = process[q]
            BY <2>1, OthersWait
        <3>2. process[q].task \in Tasks /\ sent[process[q].task] > 0
            BY <2>1, <3>1 DEF OutboxInv, MarkedWasSent, TypeOK
        <3> QED
            BY <3>1, <3>2, SentGrows
    <2>2. ASSUME NEW t \in Tasks,
                 \/ status'[t] = "dispatched"
                 \/ "TASK_DISPATCHED" \in events'[t]
                 \/ \E q \in Processes : t \in process'[q].counted
          PROVE  sent'[t] > 0
        <3>1. sent[t] > 0
            BY <1>0, <2>2, OthersWait
        <3> QED
            BY <3>1, SentGrows
    <2> QED
        BY <2>1, <2>2 DEF MarkedWasSent, DispatchedWasSent
<1>1. CASE Submit(p)
    BY <1>1, SubmitMoves DEF Submit
<1>2. CASE Reconcile(p)
    BY <1>2, ReconcileMoves DEF Reconcile
<1>c. ASSUME NEW C, Proceed(p, C)
      PROVE  /\ process'[p].pc \notin {"mark", "event"}
             /\ process'[p].counted \in {{}, C}
    BY <1>c, ProceedMoves DEF Continues, Idle
<1>3. CASE Claim(p)
    <2>1. /\ process'[p].pc \in {"publish", "reread"}
          /\ process'[p].counted = process[p].counted
        BY <1>3, GotoMoves DEF Claim, Goto, TypeOK, ProcessState
    <2> QED
        BY <1>3, <2>1 DEF Claim, TypeOK
<1>4. CASE Reread(p)
    <2>1. /\ process'[p].pc \notin {"mark", "event"}
          /\ \A t \in process'[p].counted :
                \/ t \in process[p].counted
                \/ t = process[p].task /\ status[t] = "dispatched"
        <3>1. CASE status[process[p].task] = "dispatching"
            BY <1>4, <3>1, GotoMoves DEF Reread
        <3>2. CASE status[process[p].task] = "dispatched"
            <4>1. Proceed(p, process[p].counted \cup {process[p].task})
                BY <1>4, <3>2 DEF Reread
            <4> QED
                BY <1>c, <3>2, <4>1
        <3>3. CASE status[process[p].task] \notin {"dispatching", "dispatched"}
            <4>1. Proceed(p, process[p].counted)
                BY <1>4, <3>3 DEF Reread
            <4> QED
                BY <1>c, <4>1
        <3> QED
            BY <3>1, <3>2, <3>3
    <2> QED
        BY <1>0, <1>4, <2>1 DEF Reread
<1>5. CASE Publish(p)
    <2>1. /\ process'[p].task = process[p].task
          /\ process'[p].counted = process[p].counted
        BY <1>5, GotoMoves DEF Publish
    <2>2. sent'[process[p].task] > 0
        BY <1>0, <1>5 DEF Publish, TypeOK
    <2> QED
        BY <1>5, <2>1, <2>2 DEF Publish
<1>6. CASE Mark(p)
    <2>1. /\ process'[p].task = process[p].task
          /\ process'[p].counted = process[p].counted
        BY <1>6, GotoMoves DEF Mark
    <2>2. sent[process[p].task] > 0
        BY <1>0, <1>6 DEF Mark
    <2> QED
        BY <1>0, <1>6, <2>1, <2>2 DEF Mark, TypeOK
<1>7. CASE AppendDispatched(p)
    <2>1. /\ process'[p].pc \notin {"mark", "event"}
          /\ process'[p].counted \subseteq process[p].counted \cup {process[p].task}
        BY <1>7, <1>c DEF AppendDispatched
    <2>2. sent[process[p].task] > 0
        BY <1>0, <1>7 DEF AppendDispatched
    <2> QED
        BY <1>0, <1>7, <2>1, <2>2 DEF AppendDispatched, TypeOK
<1>8. CASE MarkFailed(p)
    <2>1. /\ process'[p].pc = "fail_event"
          /\ process'[p].counted = process[p].counted
        BY <1>8, GotoMoves DEF MarkFailed
    <2> QED
        BY <1>8, <2>1 DEF MarkFailed, TypeOK
<1>9. CASE AppendFailed(p)
    <2>1. /\ process'[p].pc \notin {"mark", "event"}
          /\ process'[p].counted \subseteq process[p].counted
        BY <1>9, <1>c DEF AppendFailed
    <2> QED
        BY <1>9, <2>1 DEF AppendFailed, TypeOK
<1>10. CASE Fault(p)
    <2>1. /\ process'[p].pc \notin {"mark", "event"}
          /\ process'[p].counted \subseteq process[p].counted
        <3>1. CASE Goto(p, "fail")
            BY <3>1, GotoMoves
        <3>2. CASE Proceed(p, process[p].counted)
            BY <1>c, <3>2
        <3>3. CASE process'[p] = Idle
            BY <3>3 DEF Idle
        <3> QED
            BY <1>10, <3>1, <3>2, <3>3, FaultMoves
    <2> QED
        BY <1>10, <2>1, FaultMoves
<1>11. CASE Crash(p)
    BY <1>11 DEF Crash, TypeOK, Idle
<1> QED
    BY <1>1, <1>2, <1>3, <1>4, <1>5, <1>6, <1>7, <1>8, <1>9, <1>10, <1>11
    DEF Acts, Proceeds

-----------------------------------------------------------------------------
(* Who holds a row.                                                        *)

\* A process in hand of a row lets go of it only by writing the row, by a
\* crash, or by a second failing call; and only Claim and Reconcile put a row
\* into "dispatching", where the process then holds it.
LEMMA HoldsOn ==
    ASSUME TypeOK, OutboxInv, NEW p \in Processes, Acts(p), NEW t \in Tasks,
           Holds(p, t), crashes' = 0, faults' < 2
    PROVE  Holds(p, t)' \/ status'[t] # "dispatching"
<1>0. /\ process[p] \in ProcessState
      /\ process[p].pc \in {"claim", "reread"} => process[p].kind = "submit"
      /\ process[p].pc \in {"fail", "fail_event"} => faults > 0
      /\ process[p].pc = "idle" => process[p] = Idle
      /\ faults \in Nat /\ crashes \in Nat
    BY DEF OutboxInv, SubmittersClaim, FailedAfterFault, IdleIsIdle, TypeOK
<1>1. process[p].pc # "idle"
    BY <1>0 DEF Holds, Idle
<1>2. ASSUME NEW pc \in {"publish", "mark", "fail"}, Goto(p, pc)
      PROVE  Holds(p, t)'
    <2>1. /\ process'[p].pc = pc
          /\ process'[p].kind = process[p].kind
          /\ process'[p].todo = process[p].todo
          /\ process'[p].task = process[p].task
        BY <1>2, GotoMoves
    <2> QED
        BY <1>0, <2>1 DEF Holds
<1>3. ASSUME NEW pc, Goto(p, pc), process[p].kind = "reconcile", t \in process[p].todo
      PROVE  Holds(p, t)'
    <2>1. /\ process'[p].kind = process[p].kind
          /\ process'[p].todo = process[p].todo
        BY <1>3, GotoMoves
    <2> QED
        BY <1>3, <2>1 DEF Holds
<1>4. ASSUME NEW C, Proceed(p, C), process[p].kind = "reconcile", t \in process[p].todo
      PROVE  Holds(p, t)'
    <2>1. Continues(p)
        BY <1>4, ProceedMoves
    <2>2. PICK u \in process[p].todo :
            /\ process'[p].pc = "publish"
            /\ process'[p].kind = "reconcile"
            /\ process'[p].todo = process[p].todo \ {u}
            /\ process'[p].task = u
        BY <1>4, <2>1 DEF Continues
    <2> QED
        BY <1>4, <2>2 DEF Holds
<1>5. CASE Publish(p)
    BY <1>2, <1>5 DEF Publish
<1>6. CASE Mark(p) \/ MarkFailed(p)
    <2>1. CASE process[p].task = t
        BY <1>6, <2>1 DEF Mark, MarkFailed, TypeOK
    <2>2. CASE process[p].task # t
        BY <1>3, <1>6, <2>2 DEF Mark, MarkFailed, Holds
    <2> QED
        BY <2>1, <2>2
<1>7. CASE Claim(p) \/ Reread(p)
    BY <1>0, <1>7 DEF Claim, Reread, Holds
<1>8. CASE AppendDispatched(p) \/ AppendFailed(p)
    BY <1>4, <1>8 DEF AppendDispatched, AppendFailed, Holds
<1>9. CASE Fault(p)
    <2>1. process[p].pc \notin {"fail", "fail_event"}
        BY <1>0, <1>9 DEF Fault
    <2>2. process[p].pc \notin {"claim", "reread"}
        BY <1>0 DEF Holds
    <2>3. process[p].pc \in {"publish", "mark", "event"} /\ Goto(p, "fail")
        BY <1>9, <2>1, <2>2, FaultMoves
    <2> QED
        BY <1>2, <2>3
<1>10. CASE Crash(p)
    BY <1>0, <1>10 DEF Crash
<1> QED
    BY <1>1, <1>5, <1>6, <1>7, <1>8, <1>9, <1>10 DEF Acts, Proceeds, Submit, Reconcile

LEMMA ClaimHolds ==
    ASSUME TypeOK, NEW p \in Processes, Acts(p), NEW t \in Tasks,
           status'[t] = "dispatching", status[t] # "dispatching"
    PROVE  Holds(p, t)'
<1>1. CASE Submit(p)
    BY <1>1, SubmitMoves
<1>2. CASE Reconcile(p)
    BY <1>2, ReconcileMoves DEF Holds
<1>3. CASE Claim(p)
    <2>1. process[p].task = t /\ Goto(p, "publish")
        BY <1>3 DEF Claim, TypeOK
    <2> QED
        BY <2>1, GotoMoves DEF Holds
<1>4. CASE Mark(p) \/ MarkFailed(p)
    BY <1>4 DEF Mark, MarkFailed, TypeOK
<1> QED
    BY <1>1, <1>2, <1>3, <1>4
    DEF Acts, Proceeds, Reread, Publish, AppendDispatched, AppendFailed, Fault, Crash

LEMMA ClaimsStep ==
    ASSUME TypeOK, OutboxInv, NEW p \in Processes, Acts(p)
    PROVE  ClaimsAreHeld'
<1> SUFFICES ASSUME crashes' = 0, faults' < 2, NEW t \in Tasks,
                    status'[t] = "dispatching"
             PROVE  \E q \in Processes : Holds(q, t)'
    BY DEF ClaimsAreHeld, Holds
<1>1. CASE status[t] # "dispatching"
    BY <1>1, ClaimHolds
<1>2. CASE status[t] = "dispatching"
    <2>1. crashes = 0 /\ faults < 2
        <3>0. crashes \in Nat /\ faults \in Nat
            BY DEF TypeOK
        <3>1. CASE Fault(p)
            BY <3>0, <3>1 DEF Fault
        <3>2. CASE Crash(p)
            BY <3>0, <3>2 DEF Crash
        <3> QED
            BY <3>1, <3>2 DEF Acts, Proceeds, Submit, Reconcile, Claim, Reread, Publish,
               Mark, AppendDispatched, MarkFailed, AppendFailed
    <2>2. PICK q \in Processes : Holds(q, t)
        BY <1>2, <2>1 DEF OutboxInv, ClaimsAreHeld
    <2>3. CASE q = p
        BY <2>2, <2>3, HoldsOn
    <2>4. CASE q # p
        <3>1. process'[q] = process[q]
            BY <2>4, OthersWait
        <3> QED
            BY <2>2, <3>1 DEF Holds
    <2> QED
        BY <2>3, <2>4
<1> QED
    BY <1>1, <1>2

LEMMA DisjointStep ==
    ASSUME TypeOK, OutboxInv, NEW p \in Processes, Acts(p)
    PROVE  HeldIsClaimed' /\ ReconcilesDisjoint'
<1> SUFFICES ASSUME faults' = 0
             PROVE  HeldIsClaimed' /\ ReconcilesDisjoint'
    BY DEF HeldIsClaimed, ReconcilesDisjoint
<1>0. /\ faults = 0 /\ ~Fault(p)
      /\ process[p] \in ProcessState
    <2>1. faults \in Nat
        BY DEF TypeOK
    <2>2. ~Fault(p)
        BY <2>1 DEF Fault
    <2> QED
        BY <2>2 DEF TypeOK, Acts, Proceeds, Submit, Reconcile, Claim, Reread, Publish,
           Mark, AppendDispatched, MarkFailed, AppendFailed, Crash
<1>1. /\ \A q \in Processes : \A t \in Tasks :
            process[q].kind = "reconcile" /\ Holds(q, t) =>
                status[t] \in {"dispatching", "dispatched"}
      /\ \A q, r \in Processes : \A t \in Tasks :
            q # r /\ process[q].kind = "reconcile" /\ process[r].kind = "reconcile"
            => ~(Holds(q, t) /\ Holds(r, t))
    BY <1>0 DEF OutboxInv, HeldIsClaimed, ReconcilesDisjoint
<1>2. ASSUME NEW q \in Processes, q # p, NEW t \in Tasks
      PROVE  /\ Holds(q, t)' <=> Holds(q, t)
             /\ process'[q].kind = process[q].kind
    <2>1. process'[q] = process[q]
        BY <1>2, OthersWait
    <2> QED
        BY <2>1 DEF Holds
\* No row that is being dispatched, or was, becomes claimable again.
<1>3. ASSUME NEW t \in Tasks, status[t] \in {"dispatching", "dispatched"}
      PROVE  status'[t] \in {"dispatching", "dispatched"}
    <2>1. CASE Submit(p)
        BY <1>3, <2>1, SubmitMoves
    <2>2. CASE Reconcile(p)
        BY <1>3, <2>2, ReconcileMoves
    <2>3. CASE Claim(p) \/ Mark(p)
        BY <1>3, <2>3 DEF Claim, Mark, TypeOK
    <2>4. ~MarkFailed(p)
        BY <1>0 DEF OutboxInv, FailedAfterFault, MarkFailed
    <2> QED
        BY <1>0, <1>3, <2>1, <2>2, <2>3, <2>4
        DEF Acts, Proceeds, Reread, Publish, AppendDispatched, AppendFailed, Crash
\* Only a reconcile makes its process hold more rows than before.
<1>4. ASSUME ~Reconcile(p), NEW t \in Tasks, process'[p].kind = "reconcile", Holds(p, t)'
      PROVE  process[p].kind = "reconcile" /\ Holds(p, t)
    <2>1. CASE Submit(p) \/ Crash(p)
        <3>1. process'[p].kind = "submit"
            BY <2>1, SubmitMoves DEF Crash, TypeOK, Idle
        <3> QED
            BY <1>4, <3>1
    <2>2. CASE Claim(p) \/ MarkFailed(p)
        BY <1>0, <1>4, <2>2, GotoMoves
        DEF OutboxInv, SubmittersClaim, FailedAfterFault, Claim, MarkFailed
    <2>3. ASSUME NEW C, Proceed(p, C)
          PROVE  process[p].kind = "reconcile" /\ Holds(p, t)
        <3>1. Continues(p)
            BY <1>4, <2>3, ProceedMoves DEF Idle
        <3>2. PICK u \in process[p].todo :
                /\ process'[p].kind = process[p].kind
                /\ process'[p].todo = process[p].todo \ {u}
                /\ process'[p].task = u
            BY <3>1 DEF Continues
        <3> QED
            BY <1>4, <3>2 DEF Holds
    <2>4. CASE Reread(p)
        <3>1. process[p].kind = "submit"
            BY <2>4 DEF OutboxInv, SubmittersClaim, Reread
        <3>2. Goto(p, "publish") => process'[p].kind = "submit"
            BY <3>1, GotoMoves
        <3> QED
            BY <1>4, <2>3, <2>4, <3>2 DEF Reread
    <2>5. CASE Publish(p) \/ Mark(p)
        <3>1. /\ process[p].pc \in {"publish", "mark"}
              /\ process'[p].pc \in {"mark", "event"}
              /\ process'[p].kind = process[p].kind
              /\ process'[p].todo = process[p].todo
              /\ process'[p].task = process[p].task
            BY <2>5, GotoMoves DEF Publish, Mark
        <3> QED
            BY <1>4, <3>1 DEF Holds
    <2>6. CASE AppendDispatched(p) \/ AppendFailed(p)
        BY <2>3, <2>6 DEF AppendDispatched, AppendFailed
    <2> QED
        BY <1>0, <1>4, <2>1, <2>2, <2>4, <2>5, <2>6 DEF Acts, Proceeds
<1>5. CASE Reconcile(p)
    <2>1. ASSUME NEW t \in Tasks, Holds(p, t)'
          PROVE  status[t] \in Claimable /\ status'[t] = "dispatching"
        BY <1>5, <2>1, ReconcileMoves DEF Holds
    <2>2. ASSUME NEW q \in Processes, NEW t \in Tasks, q # p,
                 process'[q].kind = "reconcile", Holds(q, t)'
          PROVE  status[t] \in {"dispatching", "dispatched"}
        BY <1>1, <1>2, <2>2
    <2>3. HeldIsClaimed'
        BY <1>3, <2>1, <2>2 DEF HeldIsClaimed
    <2>4. ReconcilesDisjoint'
        <3> SUFFICES ASSUME NEW q \in Processes, NEW r \in Processes, NEW t \in Tasks,
                            q # r, process'[q].kind = "reconcile",
                            process'[r].kind = "reconcile",
                            Holds(q, t)', Holds(r, t)'
                     PROVE  FALSE
            BY DEF ReconcilesDisjoint
        <3>1. CASE q # p /\ r # p
            BY <1>1, <1>2, <3>1
        <3>2. CASE q = p \/ r = p
            BY <2>1, <2>2, <3>2 DEF Claimable
        <3> QED
            BY <3>1, <3>2
    <2> QED
        BY <2>3, <2>4
<1>6. CASE ~Reconcile(p)
    <2>1. ASSUME NEW q \in Processes, NEW t \in Tasks,
                 process'[q].kind = "reconcile", Holds(q, t)'
          PROVE  process[q].kind = "reconcile" /\ Holds(q, t)
        BY <1>2, <1>4, <1>6, <2>1
    <2>2. HeldIsClaimed'
        BY <1>1, <1>3, <2>1 DEF HeldIsClaimed
    <2>3. ReconcilesDisjoint'
        BY <1>1, <2>1 DEF ReconcilesDisjoint
    <2> QED
        BY <2>2, <2>3
<1> QED
    BY <1>5, <1>6

-----------------------------------------------------------------------------
(* The theorems.                                                           *)

LEMMA OutboxInvariant == Spec => [](TypeOK /\ OutboxInv)
<1>1. Init => OutboxInv
    BY DEF Init, Idle, Holds, OutboxInv, IdleIsIdle, SubmittersClaim, FailedAfterFault,
           MarkedWasSent, DispatchedWasSent, ClaimsAreHeld, HeldIsClaimed,
           ReconcilesDisjoint
<1>2. TypeOK /\ OutboxInv /\ [Next]_vars => OutboxInv'
    <2> SUFFICES ASSUME TypeOK, OutboxInv, [Next]_vars PROVE OutboxInv'
        OBVIOUS
    <2>1. ASSUME NEW p \in Processes, Acts(p) PROVE OutboxInv'
        BY <2>1, ShapeStep, SentStep, ClaimsStep, DisjointStep DEF OutboxInv
    <2>2. CASE UNCHANGED vars
        BY <2>2 DEF vars, Holds, OutboxInv, IdleIsIdle, SubmittersClaim, FailedAfterFault,
           MarkedWasSent, DispatchedWasSent, ClaimsAreHeld, HeldIsClaimed,
           ReconcilesDisjoint
    <2> QED
        BY <2>1, <2>2 DEF Next, Acts
<1> QED
    BY <1>1, <1>2, OutboxTypeCorrect, PTL DEF Spec

\* A row, an event or an answer that says dispatched means that the message
\* of the task was sent.
THEOREM NothingDispatchedUnsent == Spec => []DispatchedWasSent
<1>1. OutboxInv => DispatchedWasSent
    BY DEF OutboxInv
<1> QED
    BY <1>1, OutboxInvariant, PTL

\* Without a crash and with at most one failing call, no row is stuck in
\* "dispatching".
THEOREM ClaimedRowsAreHeld == Spec => []ClaimsAreHeld
<1>1. OutboxInv => ClaimsAreHeld
    BY DEF OutboxInv
<1> QED
    BY <1>1, OutboxInvariant, PTL

\* Until a call fails, concurrent reconciles have disjoint rows in hand.
THEOREM ReconcilesShareNoRow == Spec => []ReconcilesDisjoint
<1>1. OutboxInv => ReconcilesDisjoint
    BY DEF OutboxInv
<1> QED
    BY <1>1, OutboxInvariant, PTL

\* Until a call fails, a dispatched row stays dispatched.
THEOREM DispatchedRowsStay == Spec => DispatchedIsFinal
<1> DEFINE Stays == faults' = 0 =>
        \A t \in Tasks : status[t] = "dispatched" => status'[t] = "dispatched"
<1>1. TypeOK /\ OutboxInv /\ [Next]_vars => Stays
    <2> SUFFICES ASSUME TypeOK, OutboxInv, [Next]_vars, faults' = 0, NEW t \in Tasks,
                        status[t] = "dispatched"
                 PROVE  status'[t] = "dispatched"
        OBVIOUS
    <2>1. ASSUME NEW p \in Processes, Submit(p) \/ Reconcile(p)
          PROVE  status'[t] = "dispatched"
        BY <2>1, SubmitMoves, ReconcileMoves DEF Claimable
    <2>2. ASSUME NEW p \in Processes, Claim(p) \/ Mark(p)
          PROVE  status'[t] = "dispatched"
        BY <2>2 DEF Claim, Mark, Claimable, TypeOK
    <2>3. ASSUME NEW p \in Processes PROVE ~MarkFailed(p)
        BY DEF MarkFailed, OutboxInv, FailedAfterFault
    <2> QED
        BY <2>1, <2>2, <2>3 DEF Next, vars, Proceeds, Reread, Publish, AppendDispatched,
           AppendFailed, Fault, Crash
<1>2. TypeOK /\ OutboxInv /\ [Next]_vars => [Stays]_vars
    BY <1>1
<1> QED
    BY <1>2, OutboxInvariant, PTL DEF Spec, DispatchedIsFinal

-----------------------------------------------------------------------------
(* The rows and their messages.  Whoever sends a message has a row in hand *)
(* that somebody claimed, and what was claimed is never pending again.     *)

Claimed == {"dispatching", "dispatched", "failed"}

\* How a row moves while no call has failed, and after one has.
RowMove(a, b) ==
    \/ a = "none" /\ b = "pending"
    \/ a = "pending" /\ b = "dispatching"
    \/ a = "dispatching" /\ b = "dispatched"

FailedRowMove(a, b) ==
    \/ a = "dispatching" /\ b = "failed"
    \/ a = "failed" /\ b = "dispatching"
    \/ a = "failed" /\ b = "dispatched"
    \/ a = "dispatched" /\ b = "failed"

SentIsClaimed == \A t \in Tasks : sent[t] > 0 => status[t] \in Claimed

HandIsClaimed ==
    \A p \in Processes :
        /\ process[p].pc \in DispatchStage => status[process[p].task] \in Claimed
        /\ process[p].kind = "reconcile" => \A t \in process[p].todo : status[t] \in Claimed

FailedRowAfterFault == \A t \in Tasks : status[t] = "failed" => faults > 0

RowInv == SentIsClaimed /\ HandIsClaimed /\ FailedRowAfterFault

LEMMA FaultsGrow ==
    ASSUME TypeOK, NEW p \in Processes, Acts(p)
    PROVE  faults' \in Nat /\ (faults > 0 => faults' > 0)
<1>1. faults \in Nat
    BY DEF TypeOK
<1>2. CASE Fault(p)
    <2>1. faults' = faults + 1
        BY <1>2 DEF Fault
    <2> QED
        BY <1>1, <2>1
<1>3. CASE Submit(p) \/ Reconcile(p) \/ Proceeds(p) \/ Crash(p)
    <2>1. faults' = faults
        BY <1>3 DEF Proceeds, Submit, Reconcile, Claim, Reread, Publish, Mark,
           AppendDispatched, MarkFailed, AppendFailed, Crash
    <2> QED
        BY <1>1, <2>1
<1> QED
    BY <1>2, <1>3 DEF Acts

LEMMA RowStep ==
    ASSUME TypeOK, OutboxInv, RowInv, NEW p \in Processes, Acts(p), NEW t \in Tasks
    PROVE  \/ status'[t] = status[t]
           \/ RowMove(status[t], status'[t])
           \/ faults' > 0 /\ FailedRowMove(status[t], status'[t])
<1>0. /\ status[t] \in DispatchStatus \cup {"none"}
      /\ status[t] = "failed" => faults' > 0
    BY FaultsGrow DEF TypeOK, RowInv, FailedRowAfterFault
<1>1. CASE Submit(p)
    BY <1>1, SubmitMoves DEF RowMove
<1>2. CASE Reconcile(p)
    BY <1>0, <1>2, ReconcileMoves DEF RowMove, FailedRowMove, Claimable
<1>3. CASE Claim(p)
    <2>1. \/ status'[t] = status[t]
          \/ status[t] \in Claimable /\ status'[t] = "dispatching"
        BY <1>3 DEF Claim, TypeOK
    <2> QED
        BY <1>0, <2>1 DEF RowMove, FailedRowMove, Claimable
<1>4. CASE Mark(p)
    <2>1. \/ status'[t] = status[t]
          \/ status[t] \in Claimed /\ status'[t] = "dispatched"
        BY <1>4 DEF Mark, TypeOK, RowInv, HandIsClaimed, DispatchStage
    <2> QED
        BY <1>0, <2>1 DEF RowMove, FailedRowMove, Claimed
<1>5. CASE MarkFailed(p)
    <2>1. \/ status'[t] = status[t]
          \/ status[t] \in Claimed /\ status'[t] = "failed"
        BY <1>5 DEF MarkFailed, TypeOK, RowInv, HandIsClaimed, DispatchStage
    <2>2. faults' > 0
        BY <1>5 DEF MarkFailed, OutboxInv, FailedAfterFault
    <2> QED
        BY <2>1, <2>2 DEF FailedRowMove, Claimed
<1>6. CASE Fault(p)
    BY <1>6, FaultMoves
<1>7. CASE Reread(p) \/ Publish(p) \/ AppendDispatched(p) \/ AppendFailed(p) \/ Crash(p)
    BY <1>7 DEF Reread, Publish, AppendDispatched, AppendFailed, Crash
<1> QED
    BY <1>1, <1>2, <1>3, <1>4, <1>5, <1>6, <1>7 DEF Acts, Proceeds

LEMMA ClaimedStays ==
    ASSUME TypeOK, OutboxInv, RowInv, NEW p \in Processes, Acts(p), NEW t \in Tasks,
           status[t] \in Claimed
    PROVE  status'[t] \in Claimed
BY RowStep DEF RowMove, FailedRowMove, Claimed

\* What process p has in hand after its step.
LEMMA HandStep ==
    ASSUME TypeOK, OutboxInv, RowInv, NEW p \in Processes, Acts(p)
    PROVE  /\ process'[p].pc \in DispatchStage => status'[process'[p].task] \in Claimed
           /\ process'[p].kind = "reconcile" =>
                  \A t \in process'[p].todo : status'[t] \in Claimed
<1> DEFINE Hand == /\ process'[p].pc \in DispatchStage => status'[process'[p].task] \in Claimed
                   /\ process'[p].kind = "reconcile" =>
                          \A t \in process'[p].todo : status'[t] \in Claimed
<1>0. /\ process[p] \in ProcessState
      /\ process[p].pc # "idle" => process[p].task \in Tasks
      /\ process[p].pc \in DispatchStage => status[process[p].task] \in Claimed
      /\ process[p].kind = "reconcile" => \A t \in process[p].todo : status[t] \in Claimed
      /\ process[p].todo \subseteq Tasks
    BY DEF TypeOK, RowInv, HandIsClaimed, ProcessState
<1>1. CASE process'[p] = Idle
    BY <1>1 DEF Idle, DispatchStage
<1>2. ASSUME NEW pc, Goto(p, pc), process[p].pc # "idle",
             pc \in DispatchStage =>
                 process[p].pc \in DispatchStage \/ status'[process[p].task] \in Claimed
      PROVE  Hand
    BY <1>0, <1>2, GotoMoves, ClaimedStays
<1>3. ASSUME NEW C, Proceed(p, C) PROVE Hand
    <2>1. CASE Continues(p)
        <3>1. PICK t \in process[p].todo :
                  /\ process'[p].pc = IF process[p].kind = "submit" THEN "claim" ELSE "publish"
                  /\ process'[p].kind = process[p].kind
                  /\ process'[p].todo = process[p].todo \ {t}
                  /\ process'[p].task = t
            BY <2>1 DEF Continues
        <3>2. process[p].kind = "reconcile" => \A u \in process[p].todo : status'[u] \in Claimed
            BY <1>0, ClaimedStays
        <3>3. process[p].kind = "submit" => process'[p].pc \notin DispatchStage
            BY <3>1 DEF DispatchStage
        <3> QED
            BY <1>0, <3>1, <3>2, <3>3 DEF ProcessState
    <2> QED
        BY <1>1, <1>3, <2>1, ProceedMoves
<1>4. CASE Submit(p)
    BY <1>4, SubmitMoves DEF DispatchStage
<1>5. CASE Reconcile(p)
    <2>1. \A t \in Tasks :
              process'[p].task = t \/ t \in process'[p].todo => status'[t] = "dispatching"
        BY <1>5, ReconcileMoves
    <2>2. process'[p].task \in Tasks /\ process'[p].todo \subseteq Tasks
        BY <1>5 DEF Reconcile, Oldest, TypeOK, Idle
    <2> QED
        BY <2>1, <2>2 DEF Claimed
<1>6. CASE Claim(p)
    <2>1. \/ Goto(p, "publish") /\ status'[process[p].task] = "dispatching"
          \/ Goto(p, "reread")
        BY <1>0, <1>6 DEF Claim, TypeOK
    <2> QED
        BY <1>2, <1>6, <2>1 DEF Claim, Claimed, DispatchStage
<1>7. CASE Reread(p)
    BY <1>2, <1>3, <1>7 DEF Reread, Claimed
<1>8. CASE Publish(p) \/ Mark(p) \/ MarkFailed(p)
    BY <1>2, <1>8 DEF Publish, Mark, MarkFailed, DispatchStage
<1>9. CASE AppendDispatched(p) \/ AppendFailed(p)
    BY <1>3, <1>9 DEF AppendDispatched, AppendFailed
<1>10. CASE Fault(p)
    <2>1. \/ process[p].pc \in {"publish", "mark", "event"} /\ Goto(p, "fail")
          \/ process[p].pc = "fail_event" /\ Proceed(p, process[p].counted)
          \/ process'[p] = Idle
        BY <1>10, FaultMoves
    <2> QED
        BY <1>1, <1>2, <1>3, <2>1 DEF DispatchStage
<1>11. CASE Crash(p)
    BY <1>1, <1>11 DEF Crash, TypeOK
<1> QED
    BY <1>4, <1>5, <1>6, <1>7, <1>8, <1>9, <1>10, <1>11 DEF Acts, Proceeds

LEMMA RowInvStep ==
    ASSUME TypeOK, OutboxInv, RowInv, NEW p \in Processes, Acts(p)
    PROVE  RowInv'
<1>1. SentIsClaimed'
    <2> SUFFICES ASSUME NEW t \in Tasks, sent'[t] > 0 PROVE status'[t] \in Claimed
        BY DEF SentIsClaimed
    <2>1. CASE status[t] \in Claimed
        BY <2>1, ClaimedStays
    <2>2. CASE sent'[t] # sent[t]
        <3>1. process[p].pc = "publish" /\ t = process[p].task
            BY <2>2 DEF Acts, Proceeds, Submit, Reconcile, Claim, Reread, Publish, Mark,
               AppendDispatched, MarkFailed, AppendFailed, Fault, Crash, TypeOK
        <3>2. status[t] \in Claimed
            BY <3>1 DEF RowInv, HandIsClaimed, DispatchStage
        <3> QED
            BY <3>2, ClaimedStays
    <2> QED
        BY <2>1, <2>2 DEF RowInv, SentIsClaimed
<1>2. HandIsClaimed'
    <2> SUFFICES ASSUME NEW q \in Processes, q # p
                 PROVE  /\ process'[q].pc \in DispatchStage =>
                               status'[process'[q].task] \in Claimed
                        /\ process'[q].kind = "reconcile" =>
                               \A t \in process'[q].todo : status'[t] \in Claimed
        BY HandStep DEF HandIsClaimed
    <2>1. process'[q] = process[q]
        BY OthersWait
    <2>2. /\ process[q].pc \in DispatchStage => process[q].task \in Tasks
          /\ process[q].todo \subseteq Tasks
        BY DEF TypeOK, ProcessState, DispatchStage
    <2> QED
        BY <2>1, <2>2, ClaimedStays DEF RowInv, HandIsClaimed
<1>3. FailedRowAfterFault'
    <2> SUFFICES ASSUME NEW t \in Tasks, status'[t] = "failed" PROVE faults' > 0
        BY DEF FailedRowAfterFault
    <2>1. status[t] = "failed" \/ faults' > 0
        BY RowStep DEF RowMove
    <2> QED
        BY <2>1, FaultsGrow DEF RowInv, FailedRowAfterFault
<1> QED
    BY <1>1, <1>2, <1>3 DEF RowInv

LEMMA RowInvariant == Spec => []RowInv
<1>1. Init => RowInv
    BY DEF Init, Idle, RowInv, SentIsClaimed, HandIsClaimed, FailedRowAfterFault, DispatchStage
<1>2. TypeOK /\ OutboxInv /\ RowInv /\ [Next]_vars => RowInv'
    <2>1. ASSUME TypeOK, OutboxInv, RowInv, UNCHANGED vars PROVE RowInv'
        BY <2>1 DEF vars, RowInv, SentIsClaimed, HandIsClaimed, FailedRowAfterFault
    <2> QED
        BY <2>1, RowInvStep DEF Next, Acts
<1> QED
    BY <1>1, <1>2, OutboxTypeCorrect, OutboxInvariant, PTL DEF Spec

\* No message is sent for a row that nobody has claimed: a worker that gets a
\* task finds its dispatch past pending, however many processes publish it.
THEOREM MessagesFollowClaims == Spec => []SentIsClaimed
<1>1. RowInv => SentIsClaimed
    BY DEF RowInv
<1> QED
    BY <1>1, RowInvariant, PTL

\* Rows move forward, from none over pending and dispatching to dispatched;
\* only after a call has failed may one move between the three statuses of
\* claimed rows as well, when two processes report what became of one row.
\* None is ever pending again.
THEOREM RowsMoveForward ==
    Spec => [][\A t \in Tasks :
                  \/ status'[t] = status[t]
                  \/ RowMove(status[t], status'[t])
                  \/ faults' > 0 /\ FailedRowMove(status[t], status'[t])]_vars
<1> DEFINE Moves == \A t \in Tasks :
                        \/ status'[t] = status[t]
                        \/ RowMove(status[t], status'[t])
                        \/ faults' > 0 /\ FailedRowMove(status[t], status'[t])
<1>1. TypeOK /\ OutboxInv /\ RowInv /\ [Next]_vars => [Moves]_vars
    <2>1. ASSUME TypeOK, OutboxInv, RowInv, Next PROVE Moves
        BY <2>1, RowStep DEF Next, Acts
    <2> QED
        BY <2>1
<1> QED
    BY <1>1, OutboxTypeCorrect, OutboxInvariant, RowInvariant, PTL DEF Spec

-----------------------------------------------------------------------------
(* Every request comes to an end.                                          *)

\* How far a request is from the end of the row it has in hand.
Place(pc) ==
    CASE pc = "claim" -> 7
      [] pc = "reread" -> 6
      [] pc = "publish" -> 5
      [] pc = "mark" -> 4
      [] pc = "event" -> 3
      [] pc = "fail" -> 2
      [] pc = "fail_event" -> 1
      [] pc = "idle" -> 0

LEMMA Places ==
    /\ Place("claim") = 7 /\ Place("reread") = 6 /\ Place("publish") = 5
    /\ Place("mark") = 4 /\ Place("event") = 3 /\ Place("fail") = 2
    /\ Place("fail_event") = 1 /\ Place("idle") = 0
BY DEF Place

\* A row is left behind for good, or the request is nearer to the end of the
\* one in hand.
Nearer(p) ==
    \/ /\ process'[p].todo \subseteq process[p].todo
       /\ process'[p].todo # process[p].todo
    \/ /\ process'[p].todo = process[p].todo
       /\ Place(process'[p].pc) \in 0 .. Place(process[p].pc) - 1

LEMMA RequestNearer ==
    ASSUME TypeOK, NEW p \in Processes, process[p].pc # "idle",
           Proceeds(p) \/ Fault(p) \/ Crash(p)
    PROVE  Nearer(p)
<1>0. process[p] \in ProcessState /\ process[p].pc \in Stage
    BY DEF TypeOK, ProcessState
<1>1. Place(process[p].pc) \in 1 .. 7
    BY <1>0, Places DEF Stage, DispatchStage
<1>2. CASE process'[p] = Idle
    <2>1. process'[p].todo = {} /\ Place(process'[p].pc) = 0
        BY <1>2, Places DEF Idle
    <2> QED
        BY <1>1, <2>1 DEF Nearer
<1>3. ASSUME NEW C, Proceed(p, C) PROVE Nearer(p)
    BY <1>2, <1>3, ProceedMoves DEF Continues, Nearer
<1>4. ASSUME NEW pc, Goto(p, pc), Place(pc) \in 0 .. Place(process[p].pc) - 1
      PROVE  Nearer(p)
    BY <1>4, GotoMoves DEF Nearer
<1>5. CASE Claim(p) \/ Reread(p) \/ Publish(p) \/ Mark(p) \/ MarkFailed(p)
    BY <1>3, <1>4, <1>5, Places DEF Claim, Reread, Publish, Mark, MarkFailed
<1>6. CASE AppendDispatched(p) \/ AppendFailed(p)
    BY <1>3, <1>6 DEF AppendDispatched, AppendFailed
<1>7. CASE Fault(p)
    BY <1>2, <1>3, <1>4, <1>7, FaultMoves, Places
<1>8. CASE Crash(p)
    BY <1>2, <1>8 DEF Crash, TypeOK
<1> QED
    BY <1>5, <1>6, <1>7, <1>8 DEF Proceeds

\* Each change of a request in progress leaves a row behind or brings it
\* nearer to the end of the one in hand, the failing calls included: the
\* claim, its fallback and the except block never send it back, so a request
\* with finitely many rows ends, whatever the others do to those rows.
THEOREM DispatchesRunDown ==
    Spec => [][\A p \in Processes :
                  process[p].pc # "idle" /\ process'[p] # process[p] => Nearer(p)]_vars
<1> DEFINE Lower == \A p \in Processes :
                        process[p].pc # "idle" /\ process'[p] # process[p] => Nearer(p)
<1>1. TypeOK /\ [Next]_vars => [Lower]_vars
    <2> SUFFICES ASSUME TypeOK, Next, NEW p \in Processes,
                        process[p].pc # "idle", process'[p] # process[p]
                 PROVE  Nearer(p)
        OBVIOUS
    <2>1. PICK q \in Processes : Acts(q)
        BY DEF Next, Acts
    <2>2. q = p
        BY <2>1, OthersWait
    <2>3. ~Submit(p) /\ ~Reconcile(p)
        BY DEF Submit, Reconcile
    <2> QED
        BY <2>1, <2>2, <2>3, RequestNearer DEF Acts
<1> QED
    BY <1>1, OutboxTypeCorrect, PTL DEF Spec

\* When the processes have come to rest and a reconcile finds nothing to
\* claim, every row is dispatched and its message out, if no process was lost
\* and at most one call has failed: the safety half of EveryRowDispatched.
\* No row waits in "dispatching", where nobody would look for it.
RestIsFinal ==
    /\ crashes = 0 /\ faults < 2
    /\ \A p \in Processes : process[p].pc = "idle"
    /\ \A t \in Tasks : status[t] \notin Claimable
    => \A t \in Tasks : status[t] # "none" => status[t] = "dispatched" /\ sent[t] > 0

THEOREM RestIsDispatched == Spec => []RestIsFinal
<1>1. TypeOK /\ OutboxInv => RestIsFinal
    <2> SUFFICES ASSUME TypeOK, OutboxInv, crashes = 0, faults < 2,
                        \A p \in Processes : process[p].pc = "idle",
                        NEW t \in Tasks, status[t] \notin Claimable, status[t] # "none"
                 PROVE  status[t] = "dispatched" /\ sent[t] > 0
        BY DEF RestIsFinal
    <2>1. \A p \in Processes : ~Holds(p, t)
        BY DEF OutboxInv, IdleIsIdle, Idle, Holds
    <2>2. status[t] # "dispatching"
        BY <2>1 DEF OutboxInv, ClaimsAreHeld
    <2>3. status[t] = "dispatched"
        BY <2>2 DEF TypeOK, DispatchStatus, Claimable
    <2> QED
        BY <2>3 DEF OutboxInv, DispatchedWasSent
<1> QED
    BY <1>1, OutboxInvariant, PTL

-----------------------------------------------------------------------------
(* How often a message is sent.  A row starts out with two messages to     *)
(* spare, one for the submitter it is committed for and one as long as it  *)
(* can be claimed.  A claim takes the second one; whoever has a row in     *)
(* hand or ahead of it, or will make it claimable again, stands for one;   *)
(* and a failing call adds one.                                            *)

CanStillSend(p, t) ==
    \/ t \in process[p].todo
    \/ process[p].task = t /\ process[p].pc \in {"claim", "reread", "publish", "fail"}

Weight(p, t) == IF CanStillSend(p, t) THEN 1 ELSE 0

Senders(t) == {p \in Processes : CanStillSend(p, t)}

Spare(t) == IF status[t] = "none" THEN 2 ELSE IF status[t] \in Claimable THEN 1 ELSE 0

RowsDistinct == \A p \in Processes : process[p].task \notin process[p].todo

SendsLeft ==
    \A t \in Tasks :
        /\ IsFiniteSet(Senders(t))
        /\ sent[t] + Cardinality(Senders(t)) + Spare(t) <= 2 + faults

LEMMA SubmitTakes ==
    ASSUME TypeOK, NEW p \in Processes, Submit(p)
    PROVE  /\ process'[p].task \notin process'[p].todo
           /\ \A t \in Tasks :
                IF process'[p].task = t \/ t \in process'[p].todo
                THEN status[t] = "none" /\ status'[t] = "pending"
                ELSE status'[t] = status[t]
<1>1. PICK S \in SUBSET {t \in Tasks : status[t] = "none"} :
        \E t \in S :
          /\ status' = [u \in Tasks |-> IF u \in S THEN "pending" ELSE status[u]]
          /\ process' = [process EXCEPT ![p] =
                [Idle EXCEPT !.pc = "claim", !.todo = S \ {t}, !.task = t]]
    BY DEF Submit
<1>2. PICK t \in S : process' = [process EXCEPT ![p] =
                [Idle EXCEPT !.pc = "claim", !.todo = S \ {t}, !.task = t]]
    BY <1>1
<1> QED
    BY <1>1, <1>2 DEF TypeOK, Idle

LEMMA DistinctStep ==
    ASSUME TypeOK, RowsDistinct, NEW p \in Processes, Acts(p)
    PROVE  RowsDistinct'
<1> SUFFICES process'[p].task \notin process'[p].todo
    BY OthersWait DEF RowsDistinct
<1>0. process[p].task \notin process[p].todo /\ process[p] \in ProcessState
    BY DEF RowsDistinct, TypeOK
<1>1. CASE process'[p] = Idle
    BY <1>1 DEF Idle
<1>2. ASSUME NEW pc, Goto(p, pc) PROVE process'[p].task \notin process'[p].todo
    BY <1>0, <1>2, GotoMoves
<1>3. ASSUME NEW C, Proceed(p, C) PROVE process'[p].task \notin process'[p].todo
    BY <1>1, <1>3, ProceedMoves DEF Continues
<1>4. CASE Submit(p)
    BY <1>4, SubmitTakes
<1>5. CASE Reconcile(p)
    BY <1>5 DEF Reconcile, TypeOK, Idle
<1>6. CASE Proceeds(p)
    BY <1>2, <1>3, <1>6 DEF Proceeds, Claim, Reread, Publish, Mark, AppendDispatched,
       MarkFailed, AppendFailed
<1>7. CASE Fault(p)
    BY <1>1, <1>2, <1>3, <1>7, FaultMoves
<1>8. CASE Crash(p)
    BY <1>1, <1>8 DEF Crash, TypeOK
<1> QED
    BY <1>4, <1>5, <1>6, <1>7, <1>8 DEF Acts

\* The step of p adds p to the senders of t, or takes it away.
LEMMA SendersStep ==
    ASSUME TypeOK, NEW p \in Processes, Acts(p), NEW t \in Tasks, IsFiniteSet(Senders(t))
    PROVE  /\ IsFiniteSet(Senders(t)')
           /\ Cardinality(Senders(t)') + Weight(p, t) = Cardinality(Senders(t)) + Weight(p, t)'
<1>0. Cardinality(Senders(t)) \in Nat
    BY FS_CardinalityType
<1>1. \A q \in Processes : q # p => (CanStillSend(q, t)' <=> CanStillSend(q, t))
    BY OthersWait DEF CanStillSend
<1>2. CASE CanStillSend(p, t)'
    <2>1. Senders(t)' = Senders(t) \cup {p}
        BY <1>1, <1>2 DEF Senders
    <2>2. p \in Senders(t) <=> CanStillSend(p, t)
        BY DEF Senders
    <2>3. /\ IsFiniteSet(Senders(t) \cup {p})
          /\ Cardinality(Senders(t) \cup {p}) =
                IF p \in Senders(t) THEN Cardinality(Senders(t)) ELSE Cardinality(Senders(t)) + 1
        BY FS_AddElement
    <2> QED
        BY <1>0, <1>2, <2>1, <2>2, <2>3 DEF Weight
<1>3. CASE ~CanStillSend(p, t)'
    <2>1. Senders(t)' = Senders(t) \ {p}
        BY <1>1, <1>3 DEF Senders
    <2>2. p \in Senders(t) <=> CanStillSend(p, t)
        BY DEF Senders
    <2>3. /\ IsFiniteSet(Senders(t) \ {p})
          /\ Cardinality(Senders(t) \ {p}) =
                IF p \in Senders(t) THEN Cardinality(Senders(t)) - 1 ELSE Cardinality(Senders(t))
        BY FS_RemoveElement
    <2> QED
        BY <1>0, <1>3, <2>1, <2>2, <2>3 DEF Weight
<1> QED
    BY <1>2, <1>3

\* What a step spends on t is paid for.
LEMMA SpendStep ==
    ASSUME TypeOK, OutboxInv, RowsDistinct, NEW p \in Processes, Acts(p), NEW t \in Tasks
    PROVE  sent'[t] + Weight(p, t)' + Spare(t)' + faults <= sent[t] + Weight(p, t) + Spare(t) + faults'
<1>0. /\ sent[t] \in Nat /\ faults \in Nat
      /\ process[p] \in ProcessState
      /\ process[p].task \notin process[p].todo
      /\ process[p].pc = "idle" => ~CanStillSend(p, t)
    BY NoTaskIsNone DEF TypeOK, RowsDistinct, OutboxInv, IdleIsIdle, CanStillSend, Idle
<1>w. Weight(p, t) \in {0, 1} /\ Weight(p, t)' \in {0, 1} /\ Spare(t) \in {0, 1, 2}
    BY DEF Weight, Spare
<1>i. process'[p] = Idle => ~CanStillSend(p, t)'
    BY NoTaskIsNone DEF CanStillSend, Idle
<1>g. ASSUME NEW pc, Goto(p, pc)
      PROVE  CanStillSend(p, t)' <=> \/ t \in process[p].todo
                                     \/ /\ process[p].task = t
                                        /\ pc \in {"claim", "reread", "publish", "fail"}
    BY <1>g, GotoMoves DEF CanStillSend
<1>p. ASSUME NEW C, Proceed(p, C) PROVE CanStillSend(p, t)' => CanStillSend(p, t)
    BY <1>i, <1>p, ProceedMoves DEF Continues, CanStillSend
\* A step that only moves on.
<1>1. ASSUME sent'[t] = sent[t], status'[t] = status[t], faults' = faults,
             CanStillSend(p, t)' => CanStillSend(p, t)
      PROVE  sent'[t] + Weight(p, t)' + Spare(t)' + faults <= sent[t] + Weight(p, t) + Spare(t) + faults'
    <2>1. Weight(p, t)' <= Weight(p, t) /\ Spare(t)' = Spare(t)
        BY <1>1 DEF Weight, Spare
    <2> QED
        BY <1>0, <1>1, <1>w, <2>1
<1>2. CASE Submit(p)
    <2>1. sent' = sent /\ faults' = faults /\ Weight(p, t) = 0
        BY <1>0, <1>2 DEF Submit, Weight
    <2>2. CASE CanStillSend(p, t)'
        <3>1. Spare(t) = 2 /\ Spare(t)' = 1
            BY <1>2, <2>2, SubmitTakes DEF CanStillSend, Spare, Claimable
        <3> QED
            BY <1>0, <1>w, <2>1, <3>1
    <2>3. CASE ~CanStillSend(p, t)'
        <3>1. status'[t] = status[t]
            BY <1>2, <2>3, SubmitTakes, SubmitMoves DEF CanStillSend
        <3> QED
            BY <1>1, <2>1, <2>3, <3>1
    <2> QED
        BY <2>2, <2>3
<1>3. CASE Reconcile(p)
    <2>1. sent' = sent /\ faults' = faults /\ Weight(p, t) = 0
        BY <1>0, <1>3 DEF Reconcile, Weight
    <2>2. CASE CanStillSend(p, t)'
        <3>1. Spare(t) = 1 /\ Spare(t)' = 0
            BY <1>3, <2>2, ReconcileMoves DEF CanStillSend, Spare, Claimable
        <3> QED
            BY <1>0, <1>w, <2>1, <3>1
    <2>3. CASE ~CanStillSend(p, t)'
        <3>1. status'[t] = status[t]
            BY <1>3, <2>3, ReconcileMoves DEF CanStillSend
        <3> QED
            BY <1>1, <2>1, <2>3, <3>1
    <2> QED
        BY <2>2, <2>3
<1>4. CASE Claim(p)
    <2>1. sent' = sent /\ faults' = faults
        BY <1>4 DEF Claim
    <2>2. CanStillSend(p, t)' => CanStillSend(p, t)
        BY <1>4, <1>g DEF Claim, CanStillSend
    <2>3. CASE status'[t] = status[t]
        BY <1>1, <2>1, <2>2, <2>3
    <2>4. CASE status'[t] # status[t]
        <3>1. Spare(t) = 1 /\ Spare(t)' = 0
            BY <1>4, <2>4 DEF Claim, TypeOK, Spare, Claimable
        <3>2. Weight(p, t)' <= Weight(p, t)
            BY <2>2 DEF Weight
        <3> QED
            BY <1>0, <1>w, <2>1, <3>1, <3>2
    <2> QED
        BY <2>3, <2>4
<1>5. CASE Reread(p)
    <2>1. Goto(p, "publish") \/ \E C : Proceed(p, C)
        BY <1>5 DEF Reread
    <2>2. CanStillSend(p, t)' => CanStillSend(p, t)
        BY <1>5, <1>g, <1>p, <2>1 DEF Reread, CanStillSend
    <2> QED
        BY <1>1, <1>5, <2>2 DEF Reread
<1>6. CASE Publish(p)
    <2>1. Spare(t)' = Spare(t) /\ faults' = faults
        BY <1>6 DEF Publish, Spare
    <2>2. CASE process[p].task = t
        <3>1. sent'[t] = sent[t] + 1
            BY <1>6, <2>2 DEF Publish, TypeOK
        <3>2. Weight(p, t) = 1 /\ Weight(p, t)' = 0
            BY <1>0, <1>6, <1>g, <2>2 DEF Publish, Weight, CanStillSend
        <3> QED
            BY <1>0, <1>w, <2>1, <3>1, <3>2
    <2>3. CASE process[p].task # t
        <3>1. sent'[t] = sent[t]
            BY <1>6, <2>3 DEF Publish, TypeOK
        <3>2. CanStillSend(p, t)' => CanStillSend(p, t)
            BY <1>6, <1>g, <2>3 DEF Publish, CanStillSend
        <3> QED
            BY <1>1, <1>6, <3>1, <3>2 DEF Publish
    <2> QED
        BY <2>2, <2>3
<1>7. CASE Mark(p)
    <2>1. sent' = sent /\ faults' = faults
        BY <1>7 DEF Mark
    <2>2. CanStillSend(p, t)' => CanStillSend(p, t)
        BY <1>7, <1>g DEF Mark, CanStillSend
    <2>3. Weight(p, t)' <= Weight(p, t)
        BY <2>2 DEF Weight
    <2>4. Spare(t)' = 0 \/ Spare(t)' = Spare(t)
        BY <1>7 DEF Mark, TypeOK, Spare, Claimable
    <2> QED
        BY <1>0, <1>w, <2>1, <2>3, <2>4
<1>8. CASE AppendDispatched(p) \/ AppendFailed(p)
    BY <1>1, <1>8, <1>p DEF AppendDispatched, AppendFailed
<1>9. CASE MarkFailed(p)
    <2>1. sent' = sent /\ faults' = faults
        BY <1>9 DEF MarkFailed
    <2>2. CASE process[p].task = t
        <3>1. Weight(p, t) = 1 /\ Weight(p, t)' = 0
            BY <1>0, <1>9, <1>g, <2>2 DEF MarkFailed, Weight, CanStillSend
        <3>2. Spare(t)' = 1
            BY <1>9, <2>2 DEF MarkFailed, TypeOK, Spare, Claimable
        <3> QED
            BY <1>0, <1>w, <2>1, <3>1, <3>2
    <2>3. CASE process[p].task # t
        <3>1. status'[t] = status[t]
            BY <1>9, <2>3 DEF MarkFailed, TypeOK
        <3>2. CanStillSend(p, t)' => CanStillSend(p, t)
            BY <1>9, <1>g, <2>3 DEF MarkFailed, CanStillSend
        <3> QED
            BY <1>1, <2>1, <3>1, <3>2
    <2> QED
        BY <2>2, <2>3
<1>10. CASE Fault(p)
    <2>1. faults' = faults + 1 /\ Spare(t)' = Spare(t)
        BY <1>10 DEF Fault, Spare
    <2>2. CASE process[p].pc = "publish"
        <3>1. sent'[t] = sent[t] \/ sent'[t] = sent[t] + 1
            BY <1>0, <1>10, <2>2 DEF Fault, TypeOK
        <3>2. Goto(p, "fail")
            BY <1>10, <2>2, FaultMoves
        <3>3. Weight(p, t)' = Weight(p, t)
            BY <1>g, <2>2, <3>2 DEF Weight, CanStillSend
        <3> QED
            BY <1>0, <1>w, <2>1, <3>1, <3>3
    <2>3. CASE process[p].pc # "publish"
        <3>1. sent'[t] = sent[t]
            BY <1>10, <2>3 DEF Fault
        <3> QED
            BY <1>0, <1>w, <2>1, <3>1
    <2> QED
        BY <2>2, <2>3
<1>11. CASE Crash(p)
    <2>1. process'[p] = Idle
        BY <1>11 DEF Crash, TypeOK
    <2> QED
        BY <1>1, <1>11, <1>i, <2>1 DEF Crash
<1> QED
    BY <1>2, <1>3, <1>4, <1>5, <1>6, <1>7, <1>8, <1>9, <1>10, <1>11 DEF Acts, Proceeds


SendInv == RowsDistinct /\ SendsLeft

LEMMA SendInvariant == Spec => [](TypeOK /\ OutboxInv /\ SendInv)
<1>1. Init => SendInv
    <2> SUFFICES ASSUME Init PROVE SendInv
        OBVIOUS
    <2>1. RowsDistinct
        BY DEF Init, Idle, RowsDistinct
    <2>2. ASSUME NEW t \in Tasks
          PROVE  /\ IsFiniteSet(Senders(t))
                 /\ sent[t] + Cardinality(Senders(t)) + Spare(t) <= 2 + faults
        <3>1. Senders(t) = {}
            BY NoTaskIsNone DEF Init, Idle, Senders, CanStillSend
        <3>2. IsFiniteSet(Senders(t)) /\ Cardinality(Senders(t)) = 0
            BY <3>1, FS_EmptySet
        <3>3. sent[t] = 0 /\ Spare(t) = 2 /\ faults = 0
            BY DEF Init, Spare
        <3> QED
            BY <3>2, <3>3
    <2> QED
        BY <2>1, <2>2 DEF SendInv, SendsLeft
<1>2. TypeOK /\ OutboxInv /\ SendInv /\ TypeOK' /\ [Next]_vars => SendInv'
    <2> SUFFICES ASSUME TypeOK, OutboxInv, SendInv, TypeOK', [Next]_vars PROVE SendInv'
        OBVIOUS
    <2>1. ASSUME NEW p \in Processes, Acts(p) PROVE SendInv'
        <3>1. RowsDistinct'
            BY <2>1, DistinctStep DEF SendInv
        <3>2. ASSUME NEW t \in Tasks
              PROVE  /\ IsFiniteSet(Senders(t)')
                     /\ sent'[t] + Cardinality(Senders(t)') + Spare(t)' <= 2 + faults'
            <4>1. /\ IsFiniteSet(Senders(t))
                  /\ sent[t] + Cardinality(Senders(t)) + Spare(t) <= 2 + faults
                BY DEF SendInv, SendsLeft
            <4>2. /\ IsFiniteSet(Senders(t)')
                  /\ Cardinality(Senders(t)') + Weight(p, t) =
                        Cardinality(Senders(t)) + Weight(p, t)'
                BY <2>1, <4>1, SendersStep
            <4>3. sent'[t] + Weight(p, t)' + Spare(t)' + faults <=
                    sent[t] + Weight(p, t) + Spare(t) + faults'
                BY <2>1, SpendStep DEF SendInv
            <4>4. /\ Cardinality(Senders(t)) \in Nat /\ Cardinality(Senders(t)') \in Nat
                  /\ sent[t] \in Nat /\ sent'[t] \in Nat
                  /\ faults \in Nat /\ faults' \in Nat
                BY <4>1, <4>2, FS_CardinalityType DEF TypeOK
            <4>5. /\ Spare(t) \in {0, 1, 2} /\ Spare(t)' \in {0, 1, 2}
                  /\ Weight(p, t) \in {0, 1} /\ Weight(p, t)' \in {0, 1}
                BY DEF Spare, Weight
            <4> QED
                BY <4>1, <4>2, <4>3, <4>4, <4>5
        <3> QED
            BY <3>1, <3>2 DEF SendInv, SendsLeft
    <2>2. CASE UNCHANGED vars
        BY <2>2 DEF vars, SendInv, RowsDistinct, SendsLeft, Senders, CanStillSend, Spare
    <2> QED
        BY <2>1, <2>2 DEF Next, Acts
<1> QED
    BY <1>1, <1>2, OutboxTypeCorrect, OutboxInvariant, PTL DEF Spec

\* The messages sent for a task, with the processes that are about to send
\* one, are two at most, and one more for each call that has failed.
SendsBounded ==
    \A t \in Tasks :
        LET publishers == {p \in Processes : process[p].task = t /\ process[p].pc = "publish"}
        IN  /\ IsFiniteSet(publishers)
            /\ sent[t] + Cardinality(publishers) <= 2 + faults

\* However processes share, lose and repeat the claims of a row: it is sent
\* twice at most, and once more for each failing call.
THEOREM MessagesAreBounded == Spec => []SendsBounded
<1>1. TypeOK /\ SendInv => SendsBounded
    <2> SUFFICES ASSUME TypeOK, SendInv, NEW t \in Tasks,
                        NEW P, P = {p \in Processes : process[p].task = t /\ process[p].pc = "publish"}
                 PROVE  IsFiniteSet(P) /\ sent[t] + Cardinality(P) <= 2 + faults
        BY DEF SendsBounded
    <2>1. /\ IsFiniteSet(Senders(t))
          /\ sent[t] + Cardinality(Senders(t)) + Spare(t) <= 2 + faults
        BY DEF SendInv, SendsLeft
    <2>2. P \in SUBSET Senders(t)
        BY DEF Senders, CanStillSend
    <2>3. IsFiniteSet(P) /\ Cardinality(P) <= Cardinality(Senders(t))
        BY <2>1, <2>2, FS_Subset
    <2>4. /\ Cardinality(P) \in Nat /\ Cardinality(Senders(t)) \in Nat
          /\ sent[t] \in Nat /\ faults \in Nat /\ Spare(t) \in {0, 1, 2}
        BY <2>1, <2>3, FS_CardinalityType DEF TypeOK, Spare
    <2> QED
        BY <2>1, <2>3, <2>4
<1> QED
    BY <1>1, SendInvariant, PTL

-----------------------------------------------------------------------------
(* The refinement of Publisher.  A send is its Send, a call that raises is *)
(* its FailedCall, and every other step stutters.                          *)

LEMMA PublisherStep ==
    ASSUME TypeOK, TypeOK', SendInv, SendInv', NEW p \in Processes, Acts(p)
    PROVE  Messages!Next \/ UNCHANGED <<sent, faults>>
<1>0. ASSUME NEW t \in Tasks
      PROVE  sent[t] \in Nat /\ sent'[t] \in Nat /\ sent'[t] <= 2 + faults'
    <2>1. /\ IsFiniteSet(Senders(t)')
          /\ sent'[t] + Cardinality(Senders(t)') + Spare(t)' <= 2 + faults'
        BY DEF SendInv, SendsLeft
    <2>2. /\ Cardinality(Senders(t)') \in Nat /\ Spare(t)' \in {0, 1, 2}
          /\ sent[t] \in Nat /\ sent'[t] \in Nat /\ faults' \in Nat
        BY <2>1, FS_CardinalityType DEF TypeOK, Spare
    <2> QED
        BY <2>1, <2>2
<1>1. ASSUME NEW t \in Tasks, sent' = [sent EXCEPT ![t] = @ + 1]
      PROVE  sent[t] < Messages!Allowance' /\ Messages!Sent(t)
    <2>1. sent'[t] = sent[t] + 1
        BY <1>1 DEF TypeOK
    <2>2. faults' \in Nat
        BY DEF TypeOK
    <2>3. sent[t] < 2 + faults'
        BY <1>0, <2>1, <2>2
    <2> QED
        BY <1>1, <2>3 DEF Messages!Allowance, Messages!Sent
<1>2. CASE Publish(p)
    <2>1. process[p].task \in Tasks
        BY <1>2 DEF Publish, TypeOK
    <2>2. faults' = faults /\ sent' = [sent EXCEPT ![process[p].task] = @ + 1]
        BY <1>2 DEF Publish
    <2>3. /\ sent[process[p].task] < Messages!Allowance
          /\ Messages!Sent(process[p].task)
        BY <1>1, <2>1, <2>2 DEF Messages!Allowance
    <2> QED
        BY <2>1, <2>2, <2>3 DEF Messages!Next, Messages!Send
<1>3. CASE Fault(p)
    <2>1. faults' = faults + 1 /\ process[p].task \in Tasks
        BY <1>3 DEF Fault, TypeOK
    <2>2. UNCHANGED sent \/ sent' = [sent EXCEPT ![process[p].task] = @ + 1]
        BY <1>3 DEF Fault
    <2> QED
        BY <1>1, <2>1, <2>2 DEF Messages!Next, Messages!FailedCall
<1>4. CASE ~Publish(p) /\ ~Fault(p)
    BY <1>4 DEF Acts, Proceeds, Submit, Reconcile, Claim, Reread, Mark, AppendDispatched,
       MarkFailed, AppendFailed, Crash
<1> QED
    BY <1>2, <1>3, <1>4

\* DispatchOutbox implements Publisher.
THEOREM OutboxImplementsPublisher == Spec => ImplementsPublisher
<1>1. Init => Messages!Init
    BY DEF Init, Messages!Init
<1>2. /\ TypeOK /\ OutboxInv /\ SendInv
      /\ (TypeOK /\ OutboxInv /\ SendInv)'
      /\ [Next]_vars
      => [Messages!Next]_<<sent, faults>>
    BY PublisherStep DEF Next, vars, Acts
<1> QED
    BY <1>1, <1>2, SendInvariant, PTL DEF Spec, ImplementsPublisher, Messages!Spec

-----------------------------------------------------------------------------
(* Who may publish beside whom.                                            *)

SubmitterOf(p, t) ==
    process[p].kind = "submit" /\ (process[p].task = t \/ t \in process[p].todo)

SubmittersAlone ==
    \A t \in Tasks : \A p \in Processes : SubmitterOf(p, t) =>
        /\ status[t] # "none"
        /\ \A q \in Processes \ {p} : ~SubmitterOf(q, t)

LEMMA SubmitterStep ==
    ASSUME TypeOK, OutboxInv, NEW p \in Processes, Acts(p), ~Submit(p), NEW t \in Tasks,
           SubmitterOf(p, t)'
    PROVE  SubmitterOf(p, t)
<1>1. process'[p] # Idle
    BY NoTaskIsNone DEF SubmitterOf, Idle
<1>2. ASSUME NEW pc, Goto(p, pc) PROVE SubmitterOf(p, t)
    BY <1>2, GotoMoves DEF SubmitterOf
<1>3. ASSUME NEW C, Proceed(p, C) PROVE SubmitterOf(p, t)
    BY <1>1, <1>3, ProceedMoves DEF Continues, SubmitterOf
<1>4. CASE Reconcile(p)
    BY <1>4, ReconcileMoves DEF SubmitterOf
<1>5. CASE Proceeds(p)
    BY <1>2, <1>3, <1>5 DEF Proceeds, Claim, Reread, Publish, Mark, AppendDispatched,
       MarkFailed, AppendFailed
<1>6. CASE Fault(p)
    BY <1>1, <1>2, <1>3, <1>6, FaultMoves
<1>7. ~Crash(p)
    BY <1>1 DEF Crash, TypeOK
<1> QED
    BY <1>4, <1>5, <1>6, <1>7 DEF Acts

LEMMA RowsStay ==
    ASSUME TypeOK, OutboxInv, RowInv, NEW p \in Processes, Acts(p), NEW t \in Tasks,
           status[t] # "none"
    PROVE  status'[t] # "none"
BY RowStep DEF RowMove, FailedRowMove

LEMMA SubmittersInvariant == Spec => []SubmittersAlone
<1>1. Init => SubmittersAlone
    BY NoTaskIsNone DEF Init, Idle, SubmitterOf, SubmittersAlone
<1>2. TypeOK /\ OutboxInv /\ RowInv /\ SubmittersAlone /\ [Next]_vars => SubmittersAlone'
    <2> SUFFICES ASSUME TypeOK, OutboxInv, RowInv, SubmittersAlone, [Next]_vars
                 PROVE  SubmittersAlone'
        OBVIOUS
    <2>1. ASSUME NEW p \in Processes, Acts(p), NEW t \in Tasks
          PROVE  \A q \in Processes : SubmitterOf(q, t)' =>
                    /\ status'[t] # "none"
                    /\ \A r \in Processes \ {q} : ~SubmitterOf(r, t)'
        <3>0. \A q \in Processes : q # p => (SubmitterOf(q, t)' <=> SubmitterOf(q, t))
            BY <2>1, OthersWait DEF SubmitterOf
        <3>1. CASE Submit(p) /\ SubmitterOf(p, t)'
            <4>1. status[t] = "none" /\ status'[t] = "pending"
                BY <3>1, SubmitTakes DEF SubmitterOf
            <4>2. \A q \in Processes : ~SubmitterOf(q, t)
                BY <4>1 DEF SubmittersAlone
            <4> QED
                BY <3>0, <4>1, <4>2
        <3>2. CASE ~(Submit(p) /\ SubmitterOf(p, t)')
            <4>1. SubmitterOf(p, t)' => SubmitterOf(p, t)
                BY <2>1, <3>2, SubmitterStep
            <4>2. \A q \in Processes : SubmitterOf(q, t) =>
                    /\ status[t] # "none"
                    /\ \A r \in Processes \ {q} : ~SubmitterOf(r, t)
                BY DEF SubmittersAlone
            <4>3. status[t] # "none" => status'[t] # "none"
                BY <2>1, RowsStay
            <4> QED
                BY <3>0, <4>1, <4>2, <4>3
        <3> QED
            BY <3>1, <3>2
    <2>2. CASE UNCHANGED vars
        BY <2>2 DEF vars, SubmittersAlone, SubmitterOf
    <2> QED
        BY <2>1, <2>2 DEF Next, Acts, SubmittersAlone
<1> QED
    BY <1>1, <1>2, OutboxInvariant, RowInvariant, PTL DEF Spec

\* What is kept of PublishersDisjoint: until a call fails, two processes that
\* publish the same row are its submitter, which found it claimed, and one
\* reconcile.
PublishersMixed ==
    faults = 0 =>
        \A p, q \in Processes :
            /\ p # q /\ process[p].task = process[q].task
            /\ process[p].pc \in {"publish", "mark"} /\ process[q].pc \in {"publish", "mark"}
            => process[p].kind # process[q].kind

THEOREM OnlySubmitterAndReconcileCollide == Spec => []PublishersMixed
<1>1. TypeOK /\ OutboxInv /\ SubmittersAlone => PublishersMixed
    <2> SUFFICES ASSUME TypeOK, OutboxInv, SubmittersAlone, faults = 0,
                        NEW p \in Processes, NEW q \in Processes, p # q,
                        process[p].task = process[q].task,
                        process[p].pc \in {"publish", "mark"},
                        process[q].pc \in {"publish", "mark"}
                 PROVE  process[p].kind # process[q].kind
        BY DEF PublishersMixed
    <2>1. PICK t \in Tasks : process[p].task = t /\ process[q].task = t
        BY DEF TypeOK
    <2>2. Holds(p, t) /\ Holds(q, t)
        BY <2>1 DEF Holds
    <2>3. ~(process[p].kind = "reconcile" /\ process[q].kind = "reconcile")
        BY <2>2 DEF OutboxInv, ReconcilesDisjoint
    <2>4. ~(process[p].kind = "submit" /\ process[q].kind = "submit")
        BY <2>1 DEF SubmittersAlone, SubmitterOf
    <2>5. process[p] \in ProcessState /\ process[q] \in ProcessState
        BY DEF TypeOK
    <2> QED
        BY <2>3, <2>4, <2>5 DEF ProcessState
<1> QED
    BY <1>1, OutboxInvariant, SubmittersInvariant, PTL

-----------------------------------------------------------------------------
(* What Submission says of the outbox.  It has the rows of a submission    *)
(* come at once, as pending, and any of the pending ones be published at   *)
(* any time after: its Register and its Publish.                           *)

\* A row as Submission has it: pending until a message is out.
RowOf(t) ==
    IF status[t] = "none" THEN "none" ELSE IF sent[t] = 0 THEN "pending" ELSE "dispatched"

\* The rows S, and no others, go from a to b.
Move(S, a, b) ==
    \A t \in Tasks : IF t \in S THEN RowOf(t) = a /\ RowOf(t)' = b ELSE UNCHANGED RowOf(t)

Registers == \E S \in SUBSET Tasks : Move(S, "none", "pending")
Publishes == \E S \in SUBSET Tasks : Move(S, "pending", "dispatched")

\* Only a submission makes rows.
LEMMA RowsAreSubmitted ==
    ASSUME TypeOK, OutboxInv, RowInv, NEW p \in Processes, Acts(p), ~Submit(p), NEW t \in Tasks
    PROVE  status'[t] = "none" <=> status[t] = "none"
<1>1. ASSUME status[t] = "none" PROVE status'[t] = "none"
    <2>1. CASE Reconcile(p)
        BY <1>1, <2>1, ReconcileMoves DEF Claimable
    <2>2. CASE Claim(p)
        BY <1>1, <2>2 DEF Claim, Claimable, TypeOK
    <2>3. CASE Mark(p) \/ MarkFailed(p)
        <3>1. status[process[p].task] # "none"
            BY <2>3 DEF Mark, MarkFailed, RowInv, HandIsClaimed, DispatchStage, Claimed
        <3> QED
            BY <1>1, <2>3, <3>1 DEF Mark, MarkFailed, TypeOK
    <2>4. CASE UNCHANGED status
        BY <1>1, <2>4
    <2> QED
        BY <2>1, <2>2, <2>3, <2>4
        DEF Acts, Proceeds, Reread, Publish, AppendDispatched, AppendFailed, Fault, Crash
<1> QED
    BY <1>1, RowsStay

\* Whatever the processes do with claims, retries and failures, to a
\* submission it is one of two things: its rows appear, all at once and
\* pending, or a pending row is published.  No row is published before it is
\* there, and none is ever unpublished.
THEOREM OutboxAsSubmitted == Spec => [][Registers \/ Publishes]_vars
<1>1. ASSUME TypeOK, OutboxInv, RowInv, NEW p \in Processes, Acts(p)
      PROVE  Registers \/ Publishes
    <2>0. \A t \in Tasks : sent[t] \in Nat /\ (status[t] \in {"none", "pending"} => sent[t] = 0)
        BY <1>1 DEF TypeOK, RowInv, SentIsClaimed, Claimed
    <2>1. CASE Submit(p)
        <3> DEFINE S == {t \in Tasks : status[t] = "none" /\ status'[t] = "pending"}
        <3>1. sent' = sent
            BY <2>1 DEF Submit
        <3>2. Move(S, "none", "pending")
            BY <1>1, <2>0, <2>1, <3>1, SubmitMoves DEF Move, RowOf
        <3> QED
            BY <3>2 DEF Registers
    <2>2. CASE ~Submit(p)
        <3> DEFINE S == {t \in Tasks : RowOf(t) # RowOf(t)'}
        <3>1. ASSUME NEW t \in Tasks
              PROVE  \/ RowOf(t)' = RowOf(t)
                     \/ RowOf(t) = "pending" /\ RowOf(t)' = "dispatched"
            <4>1. status'[t] = "none" <=> status[t] = "none"
                BY <1>1, <2>2, RowsAreSubmitted
            <4>2. sent[t] # 0 => sent'[t] # 0
                <5>1. sent[t] > 0 => sent'[t] > 0
                    BY <1>1, SentGrows
                <5>2. sent[t] \in Nat
                    BY <2>0
                <5> QED
                    BY <5>1, <5>2
            <4> QED
                BY <4>1, <4>2 DEF RowOf
        <3>2. Move(S, "pending", "dispatched")
            BY <3>1 DEF Move
        <3> QED
            BY <3>2 DEF Publishes
    <2> QED
        BY <2>1, <2>2
<1>2. TypeOK /\ OutboxInv /\ RowInv /\ [Next]_vars => [Registers \/ Publishes]_vars
    BY <1>1 DEF Next, Acts
<1> QED
    BY <1>2, OutboxInvariant, RowInvariant, PTL DEF Spec

=============================================================================
