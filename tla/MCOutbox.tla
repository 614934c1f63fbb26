------------------------------- MODULE MCOutbox -------------------------------
(***************************************************************************)
(* Two tasks and three API processes: a batch of two or two submissions,   *)
(* and two reconciles that overlap with each other and with the submitters *)
(* of their rows.                                                          *)
(***************************************************************************)
EXTENDS DispatchOutbox

CONSTANTS p1, p2, p3

MCProcesses == {p1, p2, p3}
MCLimits == {1, 2}

=============================================================================
