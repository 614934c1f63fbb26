------------------------------ MODULE Lifecycle ------------------------------
(***************************************************************************)
(* src/core/status.py: the statuses of a task or a session and the moves   *)
(* its transition tables allow.  TASK_TRANSITIONS and SESSION_TRANSITIONS  *)
(* are two copies of one table in the source and one table here.           *)
(***************************************************************************)

Status == {"queued", "running", "completed", "failed", "cancelled"}

Terminal == {"completed", "failed", "cancelled"}

TASK_TRANSITIONS ==
    [queued    |-> {"running", "cancelled"},
     running   |-> {"completed", "failed", "cancelled"},
     completed |-> {},
     failed    |-> {},
     cancelled |-> {}]

\* ensure_task_transition and ensure_session_transition: TRUE where the
\* functions return, FALSE where they raise InvalidStateTransition.
CanMove(current, target) ==
    current = target \/ target \in TASK_TRANSITIONS[current]

=============================================================================
