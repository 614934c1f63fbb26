------------------------------ MODULE Publisher ------------------------------
(***************************************************************************)
(* What the outbox promises to those who receive its messages: how often   *)
(* one and the same task may be sent to them.  Sending is not exactly      *)
(* once.  A row is committed for one submitter and can be claimed by one   *)
(* reconcile beside it, so two messages are always possible, and each call *)
(* that fails may add one.                                                 *)
(***************************************************************************)
EXTENDS Naturals

CONSTANT Tasks

VARIABLES
    published,    \* how many messages were sent for a task
    failures      \* calls that have failed

Allowance == 2 + failures

Init ==
    /\ published = [t \in Tasks |-> 0]
    /\ failures = 0

Sent(t) == published' = [published EXCEPT ![t] = @ + 1]

Send(t) ==
    /\ published[t] < Allowance
    /\ Sent(t)
    /\ UNCHANGED failures

\* A call fails; a failed send may have sent, within what it adds itself.
FailedCall ==
    /\ failures' = failures + 1
    /\ \/ UNCHANGED published
       \/ \E t \in Tasks : published[t] < Allowance' /\ Sent(t)

Next == FailedCall \/ \E t \in Tasks : Send(t)

Spec == Init /\ [][Next]_<<published, failures>>

=============================================================================
