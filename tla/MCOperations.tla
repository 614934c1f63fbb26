---------------------------- MODULE MCOperations ----------------------------
(***************************************************************************)
(* A batch of two tasks, which has every status a batch can have, and a    *)
(* clock that outruns a payload while it is built and after.               *)
(***************************************************************************)
EXTENDS OperationsViews

CONSTANTS t1, t2

MCTasks == {t1, t2}

=============================================================================
