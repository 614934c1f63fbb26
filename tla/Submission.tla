------------------------------ MODULE Submission ------------------------------
(***************************************************************************)
(* SubmissionService with BatchService and StagingService: a submission    *)
(* stages its files, registers itself in one transaction and dispatches    *)
(* its tasks.  Several are in progress at once, in API processes of their  *)
(* own or at the awaits of one, while workers run and drop what was        *)
(* submitted before.                                                       *)
(*                                                                         *)
(* A step is one SQL statement or one operation on a directory or a file.  *)
(* The rows of an open transaction are seen by nobody; what others see of  *)
(* it is the entry its insert holds in the unique index of the key.        *)
(***************************************************************************)
EXTENDS Integers, FiniteSets

CONSTANTS
    Requests,      \* the submissions; the batch a request creates has its name
    Singles,       \* those of POST /tasks, the others are of POST /batches
    Key,           \* idempotency_key of each, once validated
    NoKey,
    Shared,        \* the directory "single", where all of POST /tasks stage
    Total,         \* len(files) of each
    MaxSubmitted,  \* bound: submissions of a behaviour
    MaxFaults      \* bound: calls that raise and API processes lost

ASSUME SubmissionAssumption ==
    /\ Singles \subseteq Requests
    /\ Total \in [Requests -> Nat \ {0}]
    /\ \A r \in Singles : Key[r] = NoKey /\ Total[r] = 1
    /\ Shared \notin Requests
    /\ {MaxSubmitted, MaxFaults} \subseteq Nat

Items(r) == {r} \X (1 .. Total[r])
Item == UNION {Items(r) : r \in Requests}

\* Mutant: batches are staged beside the single tasks.
SharedDir(r) == Shared

\* The directory a request stages in.
Dir(r) == IF r \in Singles THEN Shared ELSE r

VARIABLES
    dirs,       \* directories under local_storage_path
    files,      \* staged inputs
    committed,  \* submissions whose transaction is committed
    task,       \* tasks.status, and what the worker has done with the input
    outbox,     \* task_dispatches.status
    request,    \* what each request is doing
    mishap,     \* ghost: a commit that was not heard of, a file not deleted
    faults

vars == <<dirs, files, committed, task, outbox, request, mishap, faults>>
disk == <<dirs, files>>
rows == <<committed, task, outbox>>

\* "open": queued or running; "stranded": queued, its message spent on an
\* input that was not there; "dropped": ended and its input deleted.
TaskState == {"none", "open", "stranded", "ended", "dropped"}

\* "pending" stands for "pending" and "failed", the rows a reconcile takes.
OutboxState == {"none", "pending", "dispatched"}

Ended == {"answered", "failed", "crashed"}
Stage == {"start", "mkdir", "open", "stream", "lookup", "insert", "commit", "requery",
          "cleanup", "reuse", "dispatch"} \cup Ended

RequestState ==
    [pc     : Stage,
     staged : Nat,     \* len(staged_paths)
     batch  : Requests]       \* the batch the answer names

Init ==
    /\ dirs = {} /\ files = {} /\ committed = {}
    /\ task = [x \in Item |-> "none"]
    /\ outbox = [x \in Item |-> "none"]
    /\ request = [r \in Requests |-> [pc |-> "start", staged |-> 0, batch |-> r]]
    /\ mishap = [r \in Requests |-> "none"]
    /\ faults = 0

-----------------------------------------------------------------------------
(* Helpers.                                                                *)

At(r, pc) == request[r].pc = pc
Goto(r, pc) == request' = [request EXCEPT ![r].pc = pc]

Arrives(r) ==
    /\ At(r, "start")
    /\ Cardinality({q \in Requests : ~At(q, "start")}) < MaxSubmitted

\* get_batch_by_idempotency_key: committed batches of the key of r.
Existing(r) == {b \in committed : Key[r] # NoKey /\ Key[b] = Key[r]}

\* The request goes on with the batch that is there.
Adopt(r, b) == request' = [request EXCEPT ![r].pc = "reuse", ![r].batch = b]

\* Mutant: the directory goes with any of its files.
RemoveRecursively(r, X) ==
    /\ files' = files \ {x \in Item : Dir(x[1]) = Dir(r)}
    /\ dirs' = dirs \ {Dir(r)}

\* _prune_empty_parents, with the files F: rmdir fails on a directory in use.
Prune(r, F) ==
    dirs' = IF \E x \in F : Dir(x[1]) = Dir(r) THEN dirs ELSE dirs \ {Dir(r)}

\* delete_staged_input, file after file: unlink and prune, and neither of a
\* file that is not there.
Remove(r, X) ==
    /\ files' = files \ X
    /\ IF X \cap files = {} THEN UNCHANGED dirs ELSE Prune(r, files \ X)

\* The pending rows of X are claimed and some of them get to the broker.
Publish(X) ==
    \E S \in SUBSET {x \in X : outbox[x] = "pending"} :
        outbox' = [x \in Item |-> IF x \in S THEN "dispatched" ELSE outbox[x]]

\* Where an exception of the staging leads: only submit_batch catches it.
GivenUp(r) == IF r \in Singles THEN "failed" ELSE "cleanup"

-----------------------------------------------------------------------------
(* Validation and staging.                                                 *)

\* The validator turns the form down before anything is written.
Refuse(r) ==
    /\ Arrives(r)
    /\ Goto(r, "failed")
    /\ UNCHANGED <<disk, rows, mishap, faults>>

\* submit_batch looks its key up, submit_task begins to stage.
Begin(r) ==
    /\ Arrives(r)
    /\ \/ \E b \in Existing(r) : Adopt(r, b)
       \/ Existing(r) = {} /\ Goto(r, "mkdir")
    /\ UNCHANGED <<disk, rows, mishap, faults>>

\* The next file of a batch has a type that is not accepted.
RefuseFile(r) ==
    /\ At(r, "mkdir") /\ r \notin Singles
    /\ Goto(r, "cleanup")
    /\ UNCHANGED <<disk, rows, mishap, faults>>

Mkdir(r) ==
    /\ At(r, "mkdir")
    /\ dirs' = dirs \cup {Dir(r)}
    /\ Goto(r, "open")
    /\ UNCHANGED <<files, rows, mishap, faults>>

\* The file is opened, which fails when a worker has pruned the directory.
Open(r) ==
    /\ At(r, "open")
    /\ \/ /\ Dir(r) \in dirs
          /\ files' = files \cup {<<r, request[r].staged + 1>>}
          /\ Goto(r, "stream")
       \/ /\ Dir(r) \notin dirs
          /\ Goto(r, GivenUp(r))
          /\ UNCHANGED files
    /\ UNCHANGED <<dirs, rows, mishap, faults>>

\* Mutant: one file too many.
StoredPastTotal(r) ==
    /\ At(r, "stream")
    /\ request' = [request EXCEPT
            ![r].staged = @ + 1,
            ![r].pc = IF request[r].staged <= Total[r] THEN "mkdir" ELSE "insert"]
    /\ UNCHANGED <<disk, rows, mishap, faults>>

\* The last chunk is written and the path appended to staged_paths.
Stored(r) ==
    /\ At(r, "stream")
    /\ request' = [request EXCEPT
            ![r].staged = @ + 1,
            ![r].pc = IF request[r].staged + 1 < Total[r] THEN "mkdir"
                      ELSE IF Key[r] = NoKey THEN "insert" ELSE "lookup"]
    /\ UNCHANGED <<disk, rows, mishap, faults>>

\* stage_upload_stream raises: the read fails, or the file is empty or too
\* large.  It removes the file itself.
Reject(r) ==
    /\ At(r, "stream") /\ r \notin Singles
    /\ Remove(r, {<<r, request[r].staged + 1>>})
    /\ Goto(r, "cleanup")
    /\ UNCHANGED <<rows, mishap, faults>>

\* Mutant: the budget is checked before the path is appended.
OverBudgetUnlisted(r) ==
    /\ At(r, "stream") /\ r \notin Singles
    /\ Goto(r, "cleanup")
    /\ UNCHANGED <<disk, rows, mishap, faults>>

\* The file is staged and the batch is too large with it.
OverBudget(r) ==
    /\ At(r, "stream") /\ r \notin Singles
    /\ request' = [request EXCEPT ![r].staged = @ + 1, ![r].pc = "cleanup"]
    /\ UNCHANGED <<disk, rows, mishap, faults>>

\* The first n of staged_paths are deleted.
DeleteStaged(r, n) == Remove(r, {r} \X (1 .. n))

\* delete_staged_inputs, and the exception goes on to the client.
Cleanup(r) ==
    /\ At(r, "cleanup")
    /\ DeleteStaged(r, request[r].staged)
    /\ Goto(r, "failed")
    /\ UNCHANGED <<rows, mishap, faults>>

-----------------------------------------------------------------------------
(* The transaction.                                                        *)

\* The key is looked up again, in the transaction.
Lookup(r) ==
    /\ At(r, "lookup")
    /\ \/ \E b \in Existing(r) : Adopt(r, b)
       \/ Existing(r) = {} /\ Goto(r, "insert")
    /\ UNCHANGED <<disk, rows, mishap, faults>>

\* Mutant: a transaction that failed is not rolled back.
BlockedByFailed(r) ==
    \E q \in Requests :
        q # r /\ request[q].pc \in {"commit", "failed"} /\ Key[q] = Key[r] /\ Key[r] # NoKey

\* Another transaction has inserted the key and is not committed.
Blocked(r) == \E q \in Requests : At(q, "commit") /\ Key[q] = Key[r] /\ Key[r] # NoKey

\* Mutant: no unique index on idempotency_key.
InsertAnyway(r) ==
    /\ At(r, "insert")
    /\ Goto(r, "commit")
    /\ UNCHANGED <<disk, rows, mishap, faults>>

\* The insert of the batch waits for a transaction that holds its key, and
\* raises UniqueViolation when the key is there; that ends the transaction.
Insert(r) ==
    /\ At(r, "insert")
    /\ ~Blocked(r)
    /\ Goto(r, IF Existing(r) = {} THEN "commit" ELSE "requery")
    /\ UNCHANGED <<disk, rows, mishap, faults>>

\* The rows of the submission, all at once: its tasks and their dispatches.
Register(r) ==
    /\ committed' = committed \cup {r}
    /\ task' = [x \in Item |-> IF x \in Items(r) THEN "open" ELSE task[x]]
    /\ outbox' = [x \in Item |-> IF x \in Items(r) THEN "pending" ELSE outbox[x]]

Commit(r) ==
    /\ At(r, "commit")
    /\ Register(r)
    /\ Goto(r, "dispatch")
    /\ UNCHANGED <<disk, mishap, faults>>

\* Mutant: a submission that lost the race goes back to its own batch.
RequeryForgets(r) ==
    /\ At(r, "requery")
    /\ request' = [request EXCEPT ![r].pc = "reuse"]
    /\ UNCHANGED <<disk, rows, mishap, faults>>

\* except UniqueViolation: the batch of the key, outside the transaction.
Requery(r) ==
    /\ At(r, "requery")
    /\ IF Existing(r) = {} THEN Goto(r, "cleanup") ELSE \E b \in Existing(r) : Adopt(r, b)
    /\ UNCHANGED <<disk, rows, mishap, faults>>

-----------------------------------------------------------------------------
(* After the transaction.                                                  *)

\* dispatch_task or dispatch_tasks; DispatchOutbox has their steps.
Dispatch(r) ==
    /\ At(r, "dispatch")
    /\ Publish(Items(r))
    /\ Goto(r, "answered")
    /\ UNCHANGED <<disk, committed, task, mishap, faults>>

\* An existing batch: reconcile_pending and get_batch_with_tasks.
AnswerExisting(r) ==
    /\ At(r, "reuse")
    /\ Publish(Item)
    /\ Goto(r, "answered")
    /\ UNCHANGED <<disk, committed, task, mishap, faults>>

-----------------------------------------------------------------------------
(* Failures.                                                               *)

\* A call to the database raises.  The transaction is rolled back and the
\* staged files go; after it the client gets an error and the batch stays.
Fault(r) ==
    /\ faults < MaxFaults
    /\ faults' = faults + 1
    /\ \/ /\ request[r].pc \in {"lookup", "insert", "commit", "requery"}
          /\ Goto(r, "cleanup")
       \/ /\ request[r].pc \in {"reuse", "dispatch"}
          /\ Goto(r, "failed")
    /\ UNCHANGED <<disk, rows, mishap>>

\* COMMIT raises and has committed: the connection was lost under it.
CommitUnheard(r) ==
    /\ At(r, "commit")
    /\ faults < MaxFaults
    /\ faults' = faults + 1
    /\ Register(r)
    /\ mishap' = [mishap EXCEPT ![r] = "unheard"]
    /\ Goto(r, "cleanup")
    /\ UNCHANGED disk

\* mkdir or open raises; stage_upload_stream prunes the directory after open.
StageFault(r) ==
    /\ faults < MaxFaults
    /\ faults' = faults + 1
    /\ \/ At(r, "mkdir") /\ UNCHANGED dirs
       \/ At(r, "open") /\ IF r \in Singles THEN UNCHANGED dirs ELSE Prune(r, files)
    /\ Goto(r, GivenUp(r))
    /\ UNCHANGED <<files, rows, mishap>>

\* The file in hand stays.  stage_upload raises while it writes and deletes
\* nothing; in stage_upload_stream the unlink raises, after another
\* exception, and the path is not in staged_paths yet.
TearWrite(r) ==
    /\ At(r, "stream")
    /\ faults < MaxFaults
    /\ faults' = faults + 1
    /\ mishap' = [mishap EXCEPT ![r] = "left"]
    /\ Goto(r, GivenUp(r))
    /\ UNCHANGED <<disk, rows>>

\* An unlink of delete_staged_inputs raises something else than
\* FileNotFoundError: the files before are gone, this one and those after it
\* stay, and the new exception goes to the client.
CleanupFails(r) ==
    /\ At(r, "cleanup")
    /\ faults < MaxFaults
    /\ faults' = faults + 1
    /\ \E n \in 0 .. request[r].staged - 1 : DeleteStaged(r, n)
    /\ mishap' = [mishap EXCEPT ![r] = IF @ = "unheard" THEN @ ELSE "left"]
    /\ Goto(r, "failed")
    /\ UNCHANGED rows

\* The API process is lost, and with it the transaction; or the request is
\* cancelled at an await, which no except block here catches.
Crash(r) ==
    /\ request[r].pc \notin Ended \cup {"start"}
    /\ faults < MaxFaults
    /\ faults' = faults + 1
    /\ Goto(r, "crashed")
    /\ UNCHANGED <<disk, rows, mishap>>

-----------------------------------------------------------------------------
(* Workers and operators; TaskExecution has their steps.                   *)

\* The worker has loaded its input and completes or fails the task, at the
\* first delivery or at a retry; or the task is cancelled.
EndTask(x) ==
    /\ task[x] = "open"
    /\ task' = [task EXCEPT ![x] = "ended"]
    /\ UNCHANGED <<disk, committed, outbox, request, mishap, faults>>

\* The input is not there.  The transition table refuses to fail a queued
\* task, and the task stays queued with nothing to run it.
StrandTask(x) ==
    /\ task[x] = "open" /\ outbox[x] = "dispatched" /\ x \notin files
    /\ task' = [task EXCEPT ![x] = "stranded"]
    /\ UNCHANGED <<disk, committed, outbox, request, mishap, faults>>

\* delete_staged_input in the finally block of the worker.  It may never
\* come: NoInputForgotten of TaskExecution says when.
DropInput(x) ==
    /\ task[x] = "ended" /\ outbox[x] = "dispatched"
    /\ task' = [task EXCEPT ![x] = "dropped"]
    /\ Remove(x[1], {x})
    /\ UNCHANGED <<committed, outbox, request, mishap, faults>>

\* POST /dispatch/reconcile.
Reconcile ==
    /\ Publish(Item)
    /\ UNCHANGED <<disk, committed, task, request, mishap, faults>>

-----------------------------------------------------------------------------
Stages(r) ==
    \/ RefuseFile(r) \/ Mkdir(r) \/ Open(r) \/ Stored(r) \/ Reject(r) \/ OverBudget(r) \/ Cleanup(r)

Registers(r) ==
    \/ Lookup(r) \/ Insert(r) \/ Commit(r) \/ Requery(r)
    \/ Dispatch(r) \/ AnswerExisting(r)

Proceeds(r) == Stages(r) \/ Registers(r)

Fails(r) ==
    \/ Fault(r) \/ CommitUnheard(r) \/ StageFault(r) \/ TearWrite(r)
    \/ CleanupFails(r) \/ Crash(r)

Works(x) == EndTask(x) \/ StrandTask(x) \/ DropInput(x)

Next ==
    \/ \E r \in Requests : Refuse(r) \/ Begin(r) \/ Proceeds(r) \/ Fails(r)
    \/ \E x \in Item : Works(x)
    \/ Reconcile

Spec == Init /\ [][Next]_vars

-----------------------------------------------------------------------------
(* Properties.                                                             *)

\* Every variable holds what the code can store in it; staged_paths is short
\* of the files of the batch as long as one is being staged.
TypeOK ==
    /\ dirs \subseteq Requests \cup {Shared}
    /\ files \subseteq Item
    /\ committed \subseteq Requests
    /\ task \in [Item -> TaskState]
    /\ outbox \in [Item -> OutboxState]
    /\ request \in [Requests -> RequestState]
    /\ \A r \in Requests : request[r].pc \in {"mkdir", "open", "stream"} =>
           request[r].staged < Total[r]
    /\ mishap \in [Requests -> {"none", "unheard", "left"}]
    /\ faults \in Nat

\* However the lookups and the inserts of concurrent submissions interleave,
\* no idempotency key has two batches.
OneBatchPerKey ==
    \A b, c \in committed : Key[b] = Key[c] /\ Key[b] # NoKey => b = c

\* The input of a task that has yet to run, or runs, is on disk: neither the
\* cleanup of another submission nor the worker of another task takes it.
\* (A commit that was not heard of is the exception: its files are deleted
\* and its tasks are there.)
InputsKept ==
    \A x \in Item :
        task[x] \in {"open", "stranded"} /\ mishap[x[1]] # "unheard"
        => task[x] = "open" /\ x \in files

\* The directory of a batch is there from its mkdir to the open of its file,
\* whatever workers prune.  (The directory of POST /tasks may vanish.)
OwnDirectoryStays ==
    \A r \in Requests \ Singles : request[r].pc \in {"open", "stream"} => Dir(r) \in dirs

\* Whose file is on disk: that of a request in progress, that of a task to
\* run or at its worker, or one left behind.  Four leave files behind: a
\* process that was lost, a submission that found the batch of another under
\* its key, a write cut short or a file in hand that could not be deleted,
\* and a cleanup that raised half-way.  Any other submission that fails has
\* deleted all it staged.  (The file of an ended task goes with the delivery
\* of its message; a task cancelled without one keeps it.)
OnlyThoseLeaveFiles ==
    \A x \in files :
        LET r == x[1]
        IN  \/ request[r].pc \notin Ended
            \/ task[x] \in {"open", "ended"}
            \/ request[r].pc = "crashed"
            \/ request[r].batch # r
            \/ mishap[r] = "left"

\* The database and the answers, as a registry of submissions by key: one
\* insert registers all of a submission, and an answer names a batch that is
\* registered under the key of the request.
Registry == INSTANCE IdempotentRegistry WITH
    registered <- committed,
    answer <- [r \in Requests |->
                  IF At(r, "answered") THEN {request[r].batch} ELSE {}]

ImplementsRegistry == Registry!Spec

\* A request in progress can take its next step, and each brings it nearer
\* to its end, or it waits in its insert for another that can: no failure
\* leaves a key held.
NobodyWaitsForever ==
    \A r \in Requests :
        request[r].pc \notin Ended \cup {"start"} =>
            \/ ENABLED Proceeds(r)
            \/ \E q \in Requests : Key[q] = Key[r] /\ ENABLED Proceeds(q)

=============================================================================
