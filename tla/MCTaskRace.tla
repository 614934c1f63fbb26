------------------------------ MODULE MCTaskRace ------------------------------
(***************************************************************************)
(* One task, two workers and one cancel request: the smallest instance in  *)
(* which two deliveries of a task and a cancellation interleave.           *)
(***************************************************************************)
EXTENDS TaskExecution

CONSTANTS t1, w1, w2, c1, none

MCTasks == {t1}
MCWorkers == {w1, w2}
MCCancellers == {c1}
MCOutcomes == {"ok", "error", "transient"}

=============================================================================
