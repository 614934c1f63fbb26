---------------------------- MODULE MCBatchCancel ----------------------------
(***************************************************************************)
(* A batch of two tasks, one worker and one cancel request, for the batch  *)
(* or for one of its tasks.                                                *)
(***************************************************************************)
EXTENDS TaskExecution

CONSTANTS t1, t2, w1, c1, none

MCTasks == {t1, t2}
MCWorkers == {w1}
MCCancellers == {c1}
MCOutcomes == {"ok", "error"}

=============================================================================
