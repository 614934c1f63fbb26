---------------------------- MODULE TaskLifecycle ----------------------------
(***************************************************************************)
(* What the status column of a table promises to its readers: a row is     *)
(* created as queued and then follows the transition table, one legal move *)
(* at a time.  TaskExecution implements it, for tasks and for sessions, as *)
(* long as no two actors work on a row at the same time.  With any number  *)
(* of them it implements the contested lifecycle, which gives up no more   *)
(* than this: what is over may be overwritten.                             *)
(***************************************************************************)
EXTENDS Lifecycle

CONSTANT Rows

VARIABLE status

Init == status \in [Rows -> {"none", "queued"}]

Create(r) ==
    /\ status[r] = "none"
    /\ status' = [status EXCEPT ![r] = "queued"]

Move(r, target) ==
    /\ status[r] \in Status
    /\ target \in TASK_TRANSITIONS[status[r]]
    /\ status' = [status EXCEPT ![r] = target]

Next == \E r \in Rows : Create(r) \/ \E target \in Status : Move(r, target)

Spec == Init /\ [][Next]_status

-----------------------------------------------------------------------------
(* The UPDATE names the row by its id only.  A writer whose check has read  *)
(* an older status writes over a row that has ended since, and never puts  *)
(* one back in the queue.                                                  *)

Overwrite(r, target) ==
    /\ status[r] \in Terminal
    /\ target \in Status \ {"queued"}
    /\ status' = [status EXCEPT ![r] = target]

ContestedNext == Next \/ \E r \in Rows, target \in Status : Overwrite(r, target)

ContestedSpec == Init /\ [][ContestedNext]_status

=============================================================================
