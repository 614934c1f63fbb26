-------------------------- MODULE IdempotentRegistry --------------------------
(***************************************************************************)
(* What the submission endpoints promise: a submission is registered whole *)
(* and once for an idempotency key, and every submission that is answered  *)
(* is answered with the registered one of its key.  README.md: "batch      *)
(* creation is transactional and supports basic idempotent reuse".         *)
(***************************************************************************)
CONSTANTS
    Requests,   \* submissions
    Key,        \* the idempotency key of each, NoKey when it has none
    NoKey

VARIABLES
    registered, \* submissions that became a batch or a task
    answer      \* what each was answered: {} until then, {b} for the batch b

vars == <<registered, answer>>

\* Submissions that stand for one another.
SameBatch(r, b) == r = b \/ (Key[r] # NoKey /\ Key[r] = Key[b])

Init ==
    /\ registered = {}
    /\ answer = [r \in Requests |-> {}]

Register(r) ==
    /\ ~ \E b \in registered : SameBatch(r, b)
    /\ registered' = registered \cup {r}
    /\ UNCHANGED answer

Answer(r) ==
    /\ answer[r] = {}
    /\ \E b \in registered :
        /\ SameBatch(r, b)
        /\ answer' = [answer EXCEPT ![r] = {b}]
    /\ UNCHANGED registered

Next == \E r \in Requests : Register(r) \/ Answer(r)

Spec == Init /\ [][Next]_vars

=============================================================================
