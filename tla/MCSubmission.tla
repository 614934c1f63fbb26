----------------------------- MODULE MCSubmission -----------------------------
(***************************************************************************)
(* Two batches under one idempotency key, of two files and of one, which   *)
(* race or come one after the other, and two single tasks, whose files     *)
(* share a directory that the worker of the first may prune under the      *)
(* second.                                                                 *)
(***************************************************************************)
EXTENDS Submission

CONSTANTS b1, b2, t1, t2, k

MCRequests == {b1, b2, t1, t2}
MCSingles == {t1, t2}
MCTotal == [r \in MCRequests |-> IF r = b1 THEN 2 ELSE 1]
MCKey == [r \in MCRequests |-> IF r \in MCSingles THEN NoKey ELSE k]

=============================================================================
