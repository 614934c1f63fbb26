----------------------------- MODULE MCTaskRetry -----------------------------
(***************************************************************************)
(* One task whose agent at worst fails transiently, one worker, no other   *)
(* failure: what becomes of a retry.                                       *)
(***************************************************************************)
EXTENDS TaskExecution

CONSTANTS t1, w1, none

MCTasks == {t1}
MCWorkers == {w1}
MCOutcomes == {"ok", "transient"}

=============================================================================
