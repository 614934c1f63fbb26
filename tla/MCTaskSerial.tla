----------------------------- MODULE MCTaskSerial -----------------------------
(***************************************************************************)
(* Two tasks, one of them for an unknown agent, one worker and no cancel   *)
(* request: one actor at a time, with crashes, redeliveries, retries and   *)
(* failing calls.                                                          *)
(***************************************************************************)
EXTENDS TaskExecution

CONSTANTS t1, t2, w1, none

MCTasks == {t1, t2}
MCRoutable == {t1}
MCWorkers == {w1}
MCOutcomes == {"ok", "error", "transient"}
MCOk == {"ok"}

=============================================================================
