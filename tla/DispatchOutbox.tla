---------------------------- MODULE DispatchOutbox ----------------------------
(***************************************************************************)
(* The Postgres outbox of DispatchService.  A submission commits a task    *)
(* together with its task_dispatches row; API processes then claim rows,   *)
(* publish their messages and write what came of it, right after the       *)
(* submission (dispatch_task, dispatch_tasks) or when somebody asks for it *)
(* (reconcile_pending, from POST /dispatch/reconcile and from a submission *)
(* that is repeated).                                                      *)
(*                                                                         *)
(* A step is one SQL statement or one call of the broker.  A statement     *)
(* that raises has had no effect; a send that raises may have sent.        *)
(***************************************************************************)
EXTENDS Integers, FiniteSets

CONSTANTS
    NTasks,        \* tasks are numbered in the order of created_at
    Processes,     \* API processes, each with one request at a time
    MaxBatch,      \* bound: rows a submission commits
    Limits,        \* the limits reconcile_pending is called with
    MaxFaults,     \* bound: calls that raise
    MaxCrashes     \* bound: API processes lost in a request

ASSUME OutboxAssumption ==
    /\ {NTasks, MaxBatch, MaxFaults, MaxCrashes} \subseteq Nat
    /\ Limits \subseteq Nat \ {0}

Tasks == 1 .. NTasks
NoTask == 0

VARIABLES
    status,     \* task_dispatches.status, "none" before the row exists
    events,     \* the dispatch events in task_logs
    sent,       \* broker: how many messages were sent for a task
    process,    \* what each API process is doing
    faults, crashes

vars == <<status, events, sent, process, faults, crashes>>

DispatchStatus == {"pending", "dispatching", "dispatched", "failed"}
Claimable == {"pending", "failed"}

\* "claim" and "reread" are the statements of claim_task_dispatch, the other
\* stages those of _dispatch_record.
DispatchStage == {"publish", "mark", "event", "fail", "fail_event"}
Stage == {"claim", "reread"} \cup DispatchStage

ProcessState ==
    [pc      : Stage \cup {"idle"},
     kind    : {"submit", "reconcile"},
     todo    : SUBSET Tasks,             \* rows the loop has not reached
     task    : Tasks \cup {NoTask},      \* the row in hand
     counted : SUBSET Tasks]             \* answered as dispatched

Idle == [pc |-> "idle", kind |-> "submit", todo |-> {}, task |-> NoTask, counted |-> {}]

Init ==
    /\ status = [t \in Tasks |-> "none"]
    /\ events = [t \in Tasks |-> {}]
    /\ sent = [t \in Tasks |-> 0]
    /\ process = [p \in Processes |-> Idle]
    /\ faults = 0
    /\ crashes = 0

-----------------------------------------------------------------------------
(* Requests.                                                               *)

\* The transaction of a submission commits its rows; their dispatch follows.
Submit(p) ==
    /\ process[p].pc = "idle"
    /\ \E S \in SUBSET {t \in Tasks : status[t] = "none"} :
        \E t \in S :
            /\ Cardinality(S) <= MaxBatch
            /\ status' = [u \in Tasks |-> IF u \in S THEN "pending" ELSE status[u]]
            /\ process' = [process EXCEPT ![p] =
                    [Idle EXCEPT !.pc = "claim", !.todo = S \ {t}, !.task = t]]
    /\ UNCHANGED <<events, sent, faults, crashes>>

\* Mutant: rows that are being dispatched are claimed too.
OldestOfAll(limit) ==
    LET open == {t \in Tasks : status[t] \in Claimable \cup {"dispatching"}}
    IN  {t \in open : Cardinality({u \in open : u < t}) < limit}

\* Mutant: rows whose dispatch failed are not tried again.
OldestPending(limit) ==
    LET open == {t \in Tasks : status[t] = "pending"}
    IN  {t \in open : Cardinality({u \in open : u < t}) < limit}

\* The oldest claimable rows, up to the limit.
Oldest(limit) ==
    LET open == {t \in Tasks : status[t] \in Claimable}
    IN  {t \in open : Cardinality({u \in open : u < t}) < limit}

\* Mutant: the first record is taken without a look whether there is one.
ReconcileUnguarded(p) ==
    /\ process[p].pc = "idle"
    /\ \E limit \in Limits : \E t \in Oldest(limit) \cup {NoTask} :
        /\ status' = [u \in Tasks |->
                IF u \in Oldest(limit) THEN "dispatching" ELSE status[u]]
        /\ process' = [process EXCEPT ![p] =
                [Idle EXCEPT !.pc = "publish", !.kind = "reconcile",
                             !.todo = Oldest(limit) \ {t}, !.task = t]]
    /\ UNCHANGED <<events, sent, faults, crashes>>

\* reconcile_pending: one statement claims its rows, with FOR UPDATE SKIP
\* LOCKED, so two of them never take the same row.  With nothing to claim
\* the request ends at once.
Reconcile(p) ==
    /\ process[p].pc = "idle"
    /\ \E limit \in Limits : \E t \in Oldest(limit) :
        /\ status' = [u \in Tasks |->
                IF u \in Oldest(limit) THEN "dispatching" ELSE status[u]]
        /\ process' = [process EXCEPT ![p] =
                [Idle EXCEPT !.pc = "publish", !.kind = "reconcile",
                             !.todo = Oldest(limit) \ {t}, !.task = t]]
    /\ UNCHANGED <<events, sent, faults, crashes>>

-----------------------------------------------------------------------------
(* The dispatch of one row.                                                *)

Goto(p, pc) == process' = [process EXCEPT ![p].pc = pc]

\* The row in hand is done; C is what the answer counts as dispatched.  The
\* order in which the loops take the rows is left open.
Proceed(p, C) ==
    LET pr == process[p]
    IN  \/ /\ pr.todo = {}
           /\ process' = [process EXCEPT ![p] = Idle]
        \/ \E t \in pr.todo :
            process' = [process EXCEPT
                ![p].pc = IF pr.kind = "submit" THEN "claim" ELSE "publish",
                ![p].todo = @ \ {t},
                ![p].task = t,
                ![p].counted = C]

\* Mutant: the claim takes the row whatever its status is.
ClaimAny(p) ==
    LET pr == process[p]
    IN  /\ pr.pc = "claim"
        /\ status' = [status EXCEPT ![pr.task] = "dispatching"]
        /\ Goto(p, "publish")
        /\ UNCHANGED <<events, sent, faults, crashes>>

\* claim_task_dispatch, its UPDATE ... WHERE status IN ('pending', 'failed').
Claim(p) ==
    LET pr == process[p]
    IN  /\ pr.pc = "claim"
        /\ IF status[pr.task] \in Claimable
           THEN /\ status' = [status EXCEPT ![pr.task] = "dispatching"]
                /\ Goto(p, "publish")
           ELSE /\ Goto(p, "reread")
                /\ UNCHANGED status
        /\ UNCHANGED <<events, sent, faults, crashes>>

\* Its fallback, a SELECT of the row.  dispatch_task returns any record that
\* is not "dispatching", and publishes one that is, whoever has claimed it.
Reread(p) ==
    LET pr == process[p]
    IN  /\ pr.pc = "reread"
        /\ IF status[pr.task] = "dispatching"
           THEN Goto(p, "publish")
           ELSE Proceed(p, IF status[pr.task] = "dispatched"
                           THEN pr.counted \cup {pr.task} ELSE pr.counted)
        /\ UNCHANGED <<status, events, sent, faults, crashes>>

\* Mutant: a send that raises is passed over in silence.
PublishSwallowed(p) ==
    /\ process[p].pc = "publish"
    /\ sent' \in {sent, [sent EXCEPT ![process[p].task] = @ + 1]}
    /\ Goto(p, "mark")
    /\ UNCHANGED <<status, events, faults, crashes>>

\* celery_app.send_task.
Publish(p) ==
    /\ process[p].pc = "publish"
    /\ sent' = [sent EXCEPT ![process[p].task] = @ + 1]
    /\ Goto(p, "mark")
    /\ UNCHANGED <<status, events, faults, crashes>>

Mark(p) ==
    LET pr == process[p]
    IN  /\ pr.pc = "mark"
        /\ status' = [status EXCEPT ![pr.task] = "dispatched"]
        /\ Goto(p, "event")
        /\ UNCHANGED <<events, sent, faults, crashes>>

AppendDispatched(p) ==
    LET pr == process[p]
    IN  /\ pr.pc = "event"
        /\ events' = [events EXCEPT ![pr.task] = @ \cup {"TASK_DISPATCHED"}]
        /\ Proceed(p, pr.counted \cup {pr.task})
        /\ UNCHANGED <<status, sent, faults, crashes>>

\* Mutant: the error is noted and the row stays as it is.
MarkFailedQuietly(p) ==
    /\ process[p].pc = "fail"
    /\ Goto(p, "fail_event")
    /\ UNCHANGED <<status, events, sent, faults, crashes>>

\* The except block, whatever raised: the send, the UPDATE or the event.
MarkFailed(p) ==
    LET pr == process[p]
    IN  /\ pr.pc = "fail"
        /\ status' = [status EXCEPT ![pr.task] = "failed"]
        /\ Goto(p, "fail_event")
        /\ UNCHANGED <<events, sent, faults, crashes>>

AppendFailed(p) ==
    LET pr == process[p]
    IN  /\ pr.pc = "fail_event"
        /\ events' = [events EXCEPT ![pr.task] = @ \cup {"TASK_DISPATCH_FAILED"}]
        /\ Proceed(p, pr.counted)
        /\ UNCHANGED <<status, sent, faults, crashes>>

-----------------------------------------------------------------------------
(* Failures.                                                               *)

\* A call raises.  In the try block it leads to the except block, whose event
\* is optional; anywhere else it ends the request and its loop.
Fault(p) ==
    LET pr == process[p]
    IN  /\ pr.pc # "idle"
        /\ faults < MaxFaults
        /\ faults' = faults + 1
        /\ CASE pr.pc \in {"publish", "mark", "event"} -> Goto(p, "fail")
             [] pr.pc = "fail_event" -> Proceed(p, pr.counted)
             [] OTHER -> process' = [process EXCEPT ![p] = Idle]
        /\ \/ UNCHANGED sent
           \/ pr.pc = "publish" /\ sent' = [sent EXCEPT ![pr.task] = @ + 1]
        /\ UNCHANGED <<status, events, crashes>>

Crash(p) ==
    /\ process[p].pc # "idle"
    /\ crashes < MaxCrashes
    /\ crashes' = crashes + 1
    /\ process' = [process EXCEPT ![p] = Idle]
    /\ UNCHANGED <<status, events, sent, faults>>

-----------------------------------------------------------------------------
\* A request that has begun goes on by itself.
Proceeds(p) ==
    \/ Claim(p) \/ Reread(p) \/ Publish(p) \/ Mark(p) \/ AppendDispatched(p)
    \/ MarkFailed(p) \/ AppendFailed(p)

Next == \E p \in Processes :
            Submit(p) \/ Reconcile(p) \/ Proceeds(p) \/ Fault(p) \/ Crash(p)

Spec == Init /\ [][Next]_vars

\* API processes serve the requests they have, and somebody keeps asking for
\* a reconcile: the code has no timer for it, so this is asked of operators.
Fairness ==
    /\ \A p \in Processes : WF_vars(Proceeds(p))
    /\ WF_vars(\E p \in Processes : Reconcile(p))

FairSpec == Spec /\ Fairness

-----------------------------------------------------------------------------
(* Properties.                                                             *)

\* Every variable holds what the code can store in it, and a request in
\* progress has a row in hand that was committed.
TypeOK ==
    /\ status \in [Tasks -> DispatchStatus \cup {"none"}]
    /\ events \in [Tasks -> SUBSET {"TASK_DISPATCHED", "TASK_DISPATCH_FAILED"}]
    /\ sent \in [Tasks -> Nat]
    /\ process \in [Processes -> ProcessState]
    /\ \A p \in Processes : process[p].pc # "idle" => process[p].task \in Tasks
    /\ faults \in Nat /\ crashes \in Nat

\* Nothing claims a dispatch that did not happen: a row that says dispatched,
\* an event that says so and an answer that counts it all mean that a message
\* was sent, whoever else dispatched the row and failed.
DispatchedWasSent ==
    \A t \in Tasks :
        \/ status[t] = "dispatched"
        \/ "TASK_DISPATCHED" \in events[t]
        \/ \E p \in Processes : t \in process[p].counted
        => sent[t] > 0

\* The process that will write what came of the claim of t.
Holds(p, t) ==
    \/ process[p].task = t /\ process[p].pc \in {"publish", "mark", "fail"}
    \/ process[p].kind = "reconcile" /\ t \in process[p].todo

\* No row is stuck in "dispatching", where no reconcile looks for it: as long
\* as no process was lost and at most one call has failed, a live request
\* holds every row that is being dispatched.
ClaimsAreHeld ==
    crashes = 0 /\ faults < 2 =>
        \A t \in Tasks : status[t] = "dispatching" => \E p \in Processes : Holds(p, t)

\* Two reconciles never have the same row in hand (after a failed call they
\* may: a submitter that dispatched the row of another reports its own
\* failure in it).
ReconcilesDisjoint ==
    faults = 0 =>
        \A p, q \in Processes : \A t \in Tasks :
            /\ p # q
            /\ process[p].kind = "reconcile" /\ process[q].kind = "reconcile"
            => ~(Holds(p, t) /\ Holds(q, t))

\* A dispatched row is dispatched for good: until a call has failed nobody
\* claims it again, neither a reconcile nor the submitter that comes late.
DispatchedIsFinal ==
    [][faults' = 0 =>
        \A t \in Tasks : status[t] = "dispatched" => status'[t] = "dispatched"]_vars

\* While reconciles are asked for, one failing call is made good: every row
\* is dispatched in the end.
EveryRowDispatched ==
    [](crashes = 0 /\ faults < 2) =>
        \A t \in Tasks : status[t] # "none" ~> status[t] = "dispatched"

\* The outbox implements the publisher that the workers' side counts on
\* (TaskExecution has it as MaxPublishes): however processes share, lose and
\* repeat the claims of a row, two messages are sent for it at most, and one
\* more for each call that fails.
Messages == INSTANCE Publisher WITH published <- sent, failures <- faults

ImplementsPublisher == Messages!Spec

\* Said by the code and not kept by it.

\* A dispatch_task that finds the row claimed returns the record, and each
\* dispatch is claimed once: no two processes publish the same row.
PublishersDisjoint ==
    faults = 0 =>
        \A p, q \in Processes :
            p # q /\ process[p].pc \in {"publish", "mark"}
                  /\ process[q].pc \in {"publish", "mark"}
            => process[p].task # process[q].task

=============================================================================
