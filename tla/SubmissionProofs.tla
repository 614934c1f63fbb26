--------------------------- MODULE SubmissionProofs ---------------------------
(***************************************************************************)
(* Theorems about Submission, for every set of submissions, whatever keys  *)
(* and files they have, and every value of the bounds.                     *)
(***************************************************************************)
EXTENDS Submission, TLAPS

-----------------------------------------------------------------------------
(* The inductive invariant.                                                *)

\* Stages up to the end of the transaction.
Staging == {"mkdir", "open", "stream"}
InTransaction == {"lookup", "insert", "commit", "requery"}

TypeInv ==
    /\ dirs \subseteq Requests \cup {Shared}
    /\ files \subseteq Item
    /\ committed \subseteq Requests
    /\ task \in [Item -> TaskState]
    /\ outbox \in [Item -> OutboxState]
    /\ request \in [Requests -> RequestState]
    /\ mishap \in [Requests -> {"none", "unheard", "left"}]
    /\ faults \in Nat

\* How far a request is says whether it is committed and what it answers.
Progress(r) ==
    /\ At(r, "start") => request[r].staged = 0
    /\ request[r].pc \in Staging => request[r].staged < Total[r]
    /\ request[r].pc \in InTransaction => request[r].staged = Total[r]
    /\ r \in committed => request[r].pc \in {"dispatch", "cleanup"} \cup Ended
    /\ At(r, "dispatch") => r \in committed
    /\ At(r, "cleanup") /\ r \in committed => mishap[r] = "unheard"
    /\ mishap[r] = "unheard" => r \in committed
    /\ mishap[r] = "left" => request[r].pc \in {"cleanup"} \cup Ended
    /\ request[r].pc \notin {"reuse"} \cup Ended => request[r].batch = r
    /\ At(r, "reuse") => request[r].batch \in Existing(r)

\* The files it has on disk: those staged, and the one in hand.
OnDisk(r) == IF At(r, "stream") THEN request[r].staged + 1 ELSE request[r].staged

\* And which of its files are there.
Input(r, x) ==
    /\ request[r].pc \in Staging \cup InTransaction /\ x[2] <= OnDisk(r) => x \in files
    /\ x \in files /\ request[r].pc \notin Ended => x[2] <= OnDisk(r) \/ mishap[r] = "left"
    /\ task[x] = "none" <=> r \notin committed
    /\ task[x] \in {"stranded", "dropped"} => x \notin files
    /\ task[x] \in {"open", "stranded"} /\ mishap[r] # "unheard" => task[x] = "open" /\ x \in files
    /\ x \in files =>
           \/ request[r].pc \notin Ended
           \/ task[x] \in {"open", "ended"}
           \/ request[r].pc = "crashed"
           \/ request[r].batch # r
           \/ mishap[r] = "left"

OwnDirectory(r) == r \notin Singles /\ request[r].pc \in {"open", "stream"} => r \in dirs

RequestInv(r) == Progress(r) /\ OwnDirectory(r) /\ \A x \in Items(r) : Input(r, x)

\* The unique index: a transaction that has inserted a key is alone with it.
KeysHeld ==
    \A r \in Requests : At(r, "commit") /\ Key[r] # NoKey =>
        /\ Existing(r) = {}
        /\ \A q \in Requests : At(q, "commit") /\ Key[q] = Key[r] => q = r

IInv ==
    /\ TypeInv
    /\ \A r \in Requests : RequestInv(r)
    /\ KeysHeld
    /\ OneBatchPerKey

-----------------------------------------------------------------------------
(* Lemmas about the operators.                                             *)

LEMMA ItemFacts ==
    /\ \A x \in Item : x[1] \in Requests /\ x \in Items(x[1])
    /\ \A r \in Requests : \A x \in Items(r) :
           x \in Item /\ x[1] = r /\ x[2] \in 1 .. Total[r] /\ x = <<r, x[2]>>
BY DEF Item, Items

LEMMA DirFacts ==
    ASSUME NEW r \in Requests
    PROVE  /\ Dir(r) \in Requests \cup {Shared}
           /\ r \notin Singles => Dir(r) = r
           /\ \A q \in Requests \ Singles : Dir(r) = q => r = q
BY SubmissionAssumption DEF Dir, SubmissionAssumption

\* Removing files of a request takes no directory of another batch.
LEMMA RemoveFacts ==
    ASSUME NEW r \in Requests, NEW X, Remove(r, X)
    PROVE  /\ files' = files \ X
           /\ dirs' \subseteq dirs
           /\ \A q \in Requests \ Singles : q # r /\ q \in dirs => q \in dirs'
BY DirFacts DEF Remove, Prune

LEMMA PublishFacts ==
    ASSUME TypeInv, NEW X, Publish(X)
    PROVE  outbox' \in [Item -> OutboxState]
BY DEF Publish, TypeInv, OutboxState

LEMMA GotoFacts ==
    ASSUME TypeInv, NEW r \in Requests, NEW pc \in Stage, Goto(r, pc)
    PROVE  /\ request' \in [Requests -> RequestState]
           /\ \A q \in Requests \ {r} : request'[q] = request[q]
           /\ request'[r].pc = pc
           /\ request'[r].staged = request[r].staged
           /\ request'[r].batch = request[r].batch
BY DEF Goto, TypeInv, RequestState

LEMMA AdoptFacts ==
    ASSUME TypeInv, NEW r \in Requests, NEW b \in Existing(r), Adopt(r, b)
    PROVE  /\ request' \in [Requests -> RequestState]
           /\ \A q \in Requests \ {r} : request'[q] = request[q]
           /\ request'[r].pc = "reuse"
           /\ request'[r].staged = request[r].staged
           /\ request'[r].batch = b
<1> DEFINE next == [request[r] EXCEPT !.pc = "reuse", !.batch = b]
<1>1. b \in Requests /\ request[r] \in RequestState
    BY DEF Existing, TypeInv
<1>2. /\ next \in RequestState /\ next.pc = "reuse" /\ next.batch = b
      /\ next.staged = request[r].staged
    BY <1>1 DEF RequestState, Stage
<1>3. request' = [request EXCEPT ![r] = next]
    BY <1>1 DEF Adopt, TypeInv, RequestState
<1> QED
    BY <1>2, <1>3 DEF TypeInv

LEMMA StagedFacts ==
    ASSUME TypeInv, NEW r \in Requests, NEW pc \in Stage,
           request' = [request EXCEPT ![r].staged = @ + 1, ![r].pc = pc]
    PROVE  /\ request' \in [Requests -> RequestState]
           /\ \A q \in Requests \ {r} : request'[q] = request[q]
           /\ request'[r].pc = pc
           /\ request'[r].staged = request[r].staged + 1
           /\ request'[r].batch = request[r].batch
<1> DEFINE more == request[r].staged + 1
           next == [request[r] EXCEPT !.staged = more, !.pc = pc]
<1>0. request[r] \in RequestState
    BY DEF TypeInv
<1>1. request[r] \in RequestState /\ more \in Nat
    BY <1>0 DEF RequestState
<1> HIDE DEF more
<1>2. /\ next \in RequestState /\ next.pc = pc /\ next.batch = request[r].batch
      /\ next.staged = more
    BY <1>1 DEF RequestState
<1>3. request' = [request EXCEPT ![r] = next]
    BY <1>1 DEF more, TypeInv, RequestState
<1> QED
    BY <1>2, <1>3 DEF more, TypeInv

-----------------------------------------------------------------------------
(* What a step leaves alone.                                               *)

\* A request whose state, rows and files a step does not touch.
LEMMA Untouched ==
    ASSUME NEW q \in Requests, RequestInv(q), request'[q] = request[q],
           committed \subseteq committed', q \in committed' => q \in committed,
           mishap'[q] = mishap[q],
           \A x \in Items(q) : task'[x] = task[x] /\ (x \in files' <=> x \in files),
           q \notin Singles /\ q \in dirs => q \in dirs'
    PROVE  RequestInv(q)'
<1>1. Existing(q) \subseteq Existing(q)'
    BY DEF Existing
<1>2. Progress(q)'
    BY <1>1 DEF RequestInv, Progress, At
<1>3. OwnDirectory(q)'
    BY DEF RequestInv, OwnDirectory
<1>4. ASSUME NEW x \in Items(q) PROVE Input(q, x)'
    BY <1>4 DEF RequestInv, Input, OnDisk, At
<1>5. Items(q)' = Items(q)
    BY DEF Items
<1> QED
    BY <1>2, <1>3, <1>4, <1>5 DEF RequestInv

\* A step of a request that registers nothing.
LEMMA RequestStep ==
    ASSUME IInv, NEW r \in Requests, TypeInv',
           \A q \in Requests \ {r} : request'[q] = request[q] /\ mishap'[q] = mishap[q],
           UNCHANGED <<committed, task>>,
           \A x \in Item : x[1] # r => (x \in files' <=> x \in files),
           \A q \in Requests \ Singles : q # r /\ q \in dirs => q \in dirs',
           request'[r].pc = "commit" /\ Key[r] # NoKey =>
               Existing(r) = {} /\ ~ Blocked(r),
           RequestInv(r)'
    PROVE  IInv'
<1>1. ASSUME NEW q \in Requests, q # r PROVE RequestInv(q)'
    <2>1. \A x \in Items(q) : x \in files' <=> x \in files
        BY <1>1, ItemFacts
    <2> QED
        BY <1>1, <2>1, Untouched DEF IInv
<1>2. KeysHeld'
    <2>1. \A q \in Requests : Existing(q)' = Existing(q)
        BY DEF Existing
    <2> QED
        BY <2>1 DEF IInv, KeysHeld, Blocked, At
<1>3. OneBatchPerKey'
    BY DEF IInv, OneBatchPerKey
<1> QED
    BY <1>1, <1>2, <1>3 DEF IInv

\* One that leaves its files and directory alone.
LEMMA QuietStep ==
    ASSUME IInv, NEW r \in Requests,
           request' \in [Requests -> RequestState],
           \A q \in Requests \ {r} : request'[q] = request[q] /\ mishap'[q] = mishap[q],
           UNCHANGED <<disk, committed, task>>,
           outbox' \in [Item -> OutboxState],
           mishap' \in [Requests -> {"none", "unheard", "left"}],
           faults' \in Nat,
           request'[r].pc = "commit" /\ Key[r] # NoKey =>
               Existing(r) = {} /\ ~ Blocked(r),
           Progress(r)', OwnDirectory(r)', \A x \in Items(r) : Input(r, x)'
    PROVE  IInv'
<1>1. TypeInv'
    BY DEF IInv, TypeInv, disk
<1>2. Items(r)' = Items(r)
    BY DEF Items
<1>3. RequestInv(r)'
    BY <1>2 DEF RequestInv
<1> QED
    BY <1>1, <1>3, RequestStep DEF disk

-----------------------------------------------------------------------------
(* The steps of a request.                                                 *)

\* What the invariant says of one request.
LEMMA OfRequest ==
    ASSUME IInv, NEW r \in Requests
    PROVE  /\ TypeInv /\ Progress(r) /\ OwnDirectory(r)
           /\ \A x \in Items(r) : Input(r, x)
           /\ request[r].staged \in Nat /\ request[r].pc \in Stage
           /\ Total[r] \in Nat \ {0}
           /\ \A x \in Items(r) : x[2] \in 1 .. Total[r]
BY ItemFacts, SubmissionAssumption
   DEF IInv, RequestInv, TypeInv, RequestState, SubmissionAssumption

LEMMA RefuseStep == ASSUME IInv, NEW r \in Requests, Refuse(r) PROVE IInv'
<1>1. /\ At(r, "start") /\ Goto(r, "failed") /\ "failed" \in Stage
      /\ UNCHANGED <<dirs, files, committed, task, outbox, mishap, faults>>
    BY DEF Refuse, Arrives, disk, rows, Stage, Ended
<1>2. Progress(r)' /\ OwnDirectory(r)'
    BY <1>1, OfRequest, GotoFacts DEF Progress, OwnDirectory, At, Ended, Staging, InTransaction
<1>3. ASSUME NEW x \in Items(r) PROVE Input(r, x)'
    BY <1>1, <1>3, OfRequest, GotoFacts DEF Progress, Input, OnDisk, At, Ended, Staging, InTransaction
<1> QED
    BY <1>1, <1>2, <1>3, OfRequest, GotoFacts, QuietStep DEF TypeInv, disk

\* The request goes on with the batch that is there.
LEMMA AdoptStep ==
    ASSUME IInv, NEW r \in Requests, NEW b \in Existing(r), Adopt(r, b),
           request[r].pc \in {"start", "lookup", "requery"},
           UNCHANGED <<dirs, files, committed, task, outbox, mishap, faults>>
    PROVE  IInv'
<1>0. Existing(r)' = Existing(r)
    BY DEF Existing
<1>1. Progress(r)' /\ OwnDirectory(r)'
    BY <1>0, OfRequest, AdoptFacts DEF Progress, OwnDirectory, At, Ended, Staging, InTransaction
<1>2. ASSUME NEW x \in Items(r) PROVE Input(r, x)'
    BY <1>2, OfRequest, AdoptFacts DEF Input, OnDisk, At, Ended, Staging, InTransaction
<1> QED
    BY <1>1, <1>2, OfRequest, AdoptFacts, QuietStep DEF TypeInv, disk

LEMMA BeginStep == ASSUME IInv, NEW r \in Requests, Begin(r) PROVE IInv'
<1>1. /\ At(r, "start")
      /\ UNCHANGED <<dirs, files, committed, task, outbox, mishap, faults>>
    BY DEF Begin, Arrives, disk, rows
<1>2. CASE \E b \in Existing(r) : Adopt(r, b)
    BY <1>1, <1>2, AdoptStep DEF At
<1>3. CASE Goto(r, "mkdir")
    <2>0. "mkdir" \in Stage
        BY DEF Stage
    <2>1. Progress(r)' /\ OwnDirectory(r)'
        BY <1>1, <1>3, <2>0, OfRequest, GotoFacts
           DEF Progress, OwnDirectory, At, Ended, Staging, InTransaction
    <2>2. ASSUME NEW x \in Items(r) PROVE Input(r, x)'
        BY <1>1, <1>3, <2>0, <2>2, OfRequest, GotoFacts
           DEF Progress, Input, OnDisk, At, Ended, Staging, InTransaction
    <2> QED
        BY <1>1, <1>3, <2>0, <2>1, <2>2, OfRequest, GotoFacts, QuietStep DEF TypeInv, disk
<1> QED
    BY <1>2, <1>3 DEF Begin

LEMMA RefuseFileStep == ASSUME IInv, NEW r \in Requests, RefuseFile(r) PROVE IInv'
<1>1. /\ At(r, "mkdir") /\ Goto(r, "cleanup") /\ "cleanup" \in Stage
      /\ UNCHANGED <<dirs, files, committed, task, outbox, mishap, faults>>
    BY DEF RefuseFile, disk, rows, Stage
<1>2. Progress(r)' /\ OwnDirectory(r)'
    BY <1>1, OfRequest, GotoFacts DEF Progress, OwnDirectory, At, Ended, Staging, InTransaction
<1>3. ASSUME NEW x \in Items(r) PROVE Input(r, x)'
    BY <1>1, <1>3, OfRequest, GotoFacts DEF Progress, Input, OnDisk, At, Ended, Staging, InTransaction
<1> QED
    BY <1>1, <1>2, <1>3, OfRequest, GotoFacts, QuietStep DEF TypeInv, disk

LEMMA MkdirStep == ASSUME IInv, NEW r \in Requests, Mkdir(r) PROVE IInv'
<1>1. /\ At(r, "mkdir") /\ Goto(r, "open") /\ "open" \in Stage
      /\ dirs' = dirs \cup {Dir(r)}
      /\ UNCHANGED <<files, committed, task, outbox, mishap, faults>>
    BY DEF Mkdir, rows, Stage
<1>2. TypeInv'
    BY <1>1, OfRequest, GotoFacts, DirFacts DEF TypeInv
<1>3. Progress(r)' /\ OwnDirectory(r)'
    BY <1>1, OfRequest, GotoFacts, DirFacts
       DEF Progress, OwnDirectory, At, Ended, Staging, InTransaction
<1>4. ASSUME NEW x \in Items(r) PROVE Input(r, x)'
    BY <1>1, <1>4, OfRequest, GotoFacts DEF Progress, Input, OnDisk, At, Ended, Staging, InTransaction
<1>5. RequestInv(r)'
    BY <1>3, <1>4 DEF RequestInv, Items
<1> QED
    BY <1>1, <1>2, <1>5, OfRequest, GotoFacts, RequestStep

\* A directory or a file could not be had.
LEMMA GivenUpStep ==
    ASSUME IInv, NEW r \in Requests, request[r].pc \in {"mkdir", "open"},
           Goto(r, GivenUp(r)),
           UNCHANGED <<files, committed, task, outbox, mishap>>, faults' \in Nat,
           dirs' \subseteq dirs,
           \A q \in Requests \ Singles : q # r /\ q \in dirs => q \in dirs'
    PROVE  IInv'
<1> DEFINE pc == GivenUp(r)
<1>1. pc \in Stage /\ pc \in {"failed", "cleanup"}
    BY DEF GivenUp, Stage, Ended
<1>2. pc = "failed" => request[r].staged = 0
    BY OfRequest, SubmissionAssumption DEF GivenUp, Progress, Staging, SubmissionAssumption
<1>3. Goto(r, pc)
    OBVIOUS
<1> HIDE DEF pc
<1>4. TypeInv'
    BY <1>1, <1>3, OfRequest, GotoFacts DEF TypeInv
<1>5. Progress(r)' /\ OwnDirectory(r)'
    BY <1>1, <1>3, OfRequest, GotoFacts
       DEF Progress, OwnDirectory, At, Ended, Staging, InTransaction
<1>6. ASSUME NEW x \in Items(r) PROVE Input(r, x)'
    <2>1. r \notin committed /\ task[x] = "none"
        BY <1>6, OfRequest DEF Progress, Input, Ended
    <2>2. x \in files => x[2] <= request[r].staged
        BY <1>6, OfRequest DEF Progress, Input, OnDisk, At, Ended
    <2>3. pc = "failed" => x \notin files
        BY <1>2, <1>6, <2>2, OfRequest
    <2> QED
        BY <1>1, <1>3, <2>1, <2>2, <2>3, OfRequest, GotoFacts
           DEF Input, OnDisk, At, Ended, Staging, InTransaction
<1>7. RequestInv(r)'
    BY <1>5, <1>6 DEF RequestInv, Items
<1> QED
    BY <1>1, <1>3, <1>4, <1>7, OfRequest, GotoFacts, RequestStep

LEMMA OpenStep == ASSUME IInv, NEW r \in Requests, Open(r) PROVE IInv'
<1>1. /\ At(r, "open")
      /\ UNCHANGED <<dirs, committed, task, outbox, mishap, faults>>
    BY DEF Open, rows
<1>2. CASE /\ Dir(r) \in dirs /\ Goto(r, "stream")
           /\ files' = files \cup {<<r, request[r].staged + 1>>}
    <2>0. "stream" \in Stage
        BY DEF Stage
    <2>1. <<r, request[r].staged + 1>> \in Items(r)
        BY <1>1, OfRequest DEF Progress, At, Staging, Items
    <2>2. TypeInv'
        BY <1>1, <1>2, <2>0, <2>1, ItemFacts, OfRequest, GotoFacts DEF TypeInv
    <2>3. Progress(r)' /\ OwnDirectory(r)'
        BY <1>1, <1>2, <2>0, OfRequest, GotoFacts, DirFacts
           DEF Progress, OwnDirectory, At, Ended, Staging, InTransaction
    <2>4. ASSUME NEW x \in Items(r) PROVE Input(r, x)'
        <3>1. r \notin committed /\ task[x] = "none"
            BY <1>1, <2>4, OfRequest DEF Progress, Input, OnDisk, At, Ended
        <3>2. x \in files' <=> x \in files \/ x[2] = request[r].staged + 1
            BY <1>2, <2>4, ItemFacts
        <3>3. x \in files <=> x[2] <= request[r].staged
            BY <1>1, <2>4, OfRequest DEF Progress, Input, OnDisk, At, Staging, Ended
        <3>4. request'[r].pc = "stream" /\ OnDisk(r)' = request[r].staged + 1
            BY <1>2, <2>0, OfRequest, GotoFacts DEF OnDisk, At
        <3>5. x \in files' <=> x[2] <= OnDisk(r)'
            BY <2>4, <3>2, <3>3, <3>4, OfRequest
        <3> QED
            BY <1>1, <3>1, <3>4, <3>5 DEF Input, Ended, At
    <2>5. RequestInv(r)'
        BY <2>3, <2>4 DEF RequestInv, Items
    <2> QED
        BY <1>1, <1>2, <2>0, <2>2, <2>5, OfRequest, GotoFacts, RequestStep
<1>3. CASE Goto(r, GivenUp(r)) /\ UNCHANGED files
    BY <1>1, <1>3, OfRequest, GivenUpStep DEF At, TypeInv
<1> QED
    BY <1>2, <1>3 DEF Open

LEMMA StoredStep == ASSUME IInv, NEW r \in Requests, Stored(r) PROVE IInv'
<1> DEFINE pc == IF request[r].staged + 1 < Total[r] THEN "mkdir"
                 ELSE IF Key[r] = NoKey THEN "insert" ELSE "lookup"
<1>1. /\ At(r, "stream")
      /\ request' = [request EXCEPT ![r].staged = @ + 1, ![r].pc = pc]
      /\ UNCHANGED <<dirs, files, committed, task, outbox, mishap, faults>>
    BY DEF Stored, disk, rows
<1>0. /\ request[r].staged \in Nat /\ Total[r] \in Nat /\ request[r].staged < Total[r]
    BY <1>1, OfRequest, SubmissionAssumption DEF Progress, At, Staging, SubmissionAssumption
<1>2. /\ pc \in Stage /\ pc \in {"mkdir", "insert", "lookup"}
      /\ pc = "mkdir" => request[r].staged + 1 < Total[r]
      /\ pc # "mkdir" => request[r].staged + 1 = Total[r]
    <2>1. pc \in {"mkdir", "insert", "lookup"}
        OBVIOUS
    <2>2. pc = "mkdir" <=> request[r].staged + 1 < Total[r]
        OBVIOUS
    <2>3. request[r].staged + 1 < Total[r] \/ request[r].staged + 1 = Total[r]
        BY <1>0
    <2> HIDE DEF pc
    <2> QED
        BY <2>1, <2>2, <2>3 DEF Stage
<1> HIDE DEF pc
<1>3. Progress(r)' /\ OwnDirectory(r)'
    <2>1. /\ request'[r].pc = pc /\ request'[r].staged = request[r].staged + 1
          /\ request'[r].batch = request[r].batch
        BY <1>1, <1>2, OfRequest, StagedFacts
    <2>2. /\ request[r].batch = r /\ r \notin committed
          /\ mishap[r] # "left" /\ mishap[r] # "unheard"
        BY <1>1, OfRequest DEF Progress, At, Ended
    <2>3. Progress(r)'
        BY <1>1, <1>2, <2>1, <2>2 DEF Progress, At, Ended, Staging, InTransaction
    <2>4. OwnDirectory(r)'
        BY <1>1, <1>2, <2>1 DEF OwnDirectory
    <2> QED
        BY <2>3, <2>4
<1>4. ASSUME NEW x \in Items(r) PROVE Input(r, x)'
    <2>1. x[2] <= request[r].staged + 1 <=> x \in files
        BY <1>1, <1>4, OfRequest DEF Progress, Input, OnDisk, At, Staging, Ended
    <2>2. OnDisk(r)' = request[r].staged + 1 /\ request'[r].pc \notin Ended
        BY <1>1, <1>2, OfRequest, StagedFacts DEF OnDisk, At, Ended
    <2>3. r \notin committed /\ task[x] = "none"
        BY <1>1, <1>4, OfRequest DEF Progress, Input, At, Ended
    <2> QED
        BY <1>1, <2>1, <2>2, <2>3 DEF Input
<1> QED
    BY <1>1, <1>2, <1>3, <1>4, OfRequest, StagedFacts, QuietStep DEF TypeInv, disk

\* stage_upload_stream removes the file in hand, or the file is kept for the
\* cleanup to remove.
LEMMA RejectStep == ASSUME IInv, NEW r \in Requests, Reject(r) PROVE IInv'
<1> DEFINE y == <<r, request[r].staged + 1>>
<1>1. /\ At(r, "stream") /\ Goto(r, "cleanup") /\ "cleanup" \in Stage
      /\ Remove(r, {y})
      /\ UNCHANGED <<committed, task, outbox, mishap, faults>>
    BY DEF Reject, rows, Stage
<1>2. /\ files' = files \ {y} /\ dirs' \subseteq dirs
      /\ \A q \in Requests \ Singles : q # r /\ q \in dirs => q \in dirs'
    BY <1>1, RemoveFacts
<1>3. TypeInv'
    BY <1>1, <1>2, OfRequest, GotoFacts DEF TypeInv
<1>4. Progress(r)' /\ OwnDirectory(r)'
    BY <1>1, OfRequest, GotoFacts DEF Progress, OwnDirectory, At, Ended, Staging, InTransaction
<1>5. ASSUME NEW x \in Items(r) PROVE Input(r, x)'
    <2>1. r \notin committed /\ task[x] = "none"
        BY <1>1, <1>5, OfRequest DEF Progress, Input, At, Ended
    <2>2. x \in files' <=> x \in files /\ x[2] # request[r].staged + 1
        BY <1>2, <1>5, ItemFacts
    <2>3. x \in files <=> x[2] <= request[r].staged + 1
        BY <1>1, <1>5, OfRequest DEF Progress, Input, OnDisk, At, Staging, Ended
    <2>4. request'[r].pc = "cleanup" /\ OnDisk(r)' = request[r].staged
        BY <1>1, OfRequest, GotoFacts DEF OnDisk, At
    <2>5. x \in files' <=> x[2] <= OnDisk(r)'
        BY <1>5, <2>2, <2>3, <2>4, OfRequest
    <2> QED
        BY <1>1, <2>1, <2>4, <2>5 DEF Input, Ended, Staging, InTransaction
<1>6. RequestInv(r)'
    BY <1>4, <1>5 DEF RequestInv, Items
<1>7. \A x \in Item : x[1] # r => (x \in files' <=> x \in files)
    BY <1>2
<1> QED
    BY <1>1, <1>2, <1>3, <1>6, <1>7, OfRequest, GotoFacts, RequestStep

LEMMA OverBudgetStep == ASSUME IInv, NEW r \in Requests, OverBudget(r) PROVE IInv'
<1> DEFINE pc == "cleanup"
<1>1. /\ At(r, "stream") /\ pc \in Stage /\ pc = "cleanup"
      /\ request' = [request EXCEPT ![r].staged = @ + 1, ![r].pc = pc]
      /\ UNCHANGED <<dirs, files, committed, task, outbox, mishap, faults>>
    BY DEF OverBudget, disk, rows, Stage
<1> HIDE DEF pc
<1>0. /\ request' \in [Requests -> RequestState]
      /\ \A q \in Requests \ {r} : request'[q] = request[q]
      /\ request'[r].pc = "cleanup"
      /\ request'[r].staged = request[r].staged + 1
      /\ request'[r].batch = request[r].batch
    BY <1>1, OfRequest, StagedFacts
<1>2. Progress(r)' /\ OwnDirectory(r)'
    BY <1>0, <1>1, OfRequest
       DEF Progress, OwnDirectory, At, Ended, Staging, InTransaction
<1>3. ASSUME NEW x \in Items(r) PROVE Input(r, x)'
    <2>1. r \notin committed /\ task[x] = "none"
        BY <1>1, <1>3, OfRequest DEF Progress, Input, At, Ended
    <2>2. x \in files <=> x[2] <= request[r].staged + 1
        BY <1>1, <1>3, OfRequest DEF Progress, Input, OnDisk, At, Staging, Ended
    <2>3. request'[r].pc = "cleanup" /\ OnDisk(r)' = request[r].staged + 1
        BY <1>0 DEF OnDisk, At
    <2> QED
        BY <1>1, <2>1, <2>2, <2>3 DEF Input, Ended, Staging, InTransaction
<1> QED
    BY <1>0, <1>1, <1>2, <1>3, OfRequest, QuietStep DEF TypeInv, disk

\* The files of what is committed are those of tasks that may need them.
LEMMA CommittedFiles ==
    ASSUME IInv, NEW r \in Requests, r \in committed, NEW x \in Items(r), x \in files
    PROVE  task[x] \in {"open", "ended"}
<1>1. task[x] # "none" /\ task[x] \notin {"stranded", "dropped"}
    BY OfRequest DEF Input
<1>2. task[x] \in TaskState
    BY OfRequest, ItemFacts DEF TypeInv
<1> QED
    BY <1>1, <1>2 DEF TaskState

\* The first n of its staged files are deleted, and then all of them were or
\* the request is marked.
LEMMA DeletedStep ==
    ASSUME IInv, NEW r \in Requests, At(r, "cleanup"), Goto(r, "failed"),
           NEW n \in 0 .. request[r].staged, DeleteStaged(r, n),
           UNCHANGED <<committed, task, outbox>>, faults' \in Nat,
           mishap' \in [Requests -> {"none", "unheard", "left"}],
           \A q \in Requests \ {r} : mishap'[q] = mishap[q],
           n < request[r].staged => mishap'[r] \in {"unheard", "left"},
           mishap[r] # "none" => mishap'[r] = mishap[r],
           mishap'[r] = "unheard" => mishap[r] = "unheard"
    PROVE  IInv'
<1> DEFINE X == {r} \X (1 .. n)
<1>1. "failed" \in Stage
    BY DEF Stage, Ended
<1>2. /\ files' = files \ X /\ dirs' \subseteq dirs
      /\ \A q \in Requests \ Singles : q # r /\ q \in dirs => q \in dirs'
    BY RemoveFacts DEF DeleteStaged
<1>3. TypeInv'
    BY <1>1, <1>2, OfRequest, GotoFacts DEF TypeInv
<1>4. Progress(r)' /\ OwnDirectory(r)'
    BY <1>1, OfRequest, GotoFacts DEF Progress, OwnDirectory, At, Ended, Staging, InTransaction
<1>5. ASSUME NEW x \in Items(r) PROVE Input(r, x)'
    <2>1. r \in committed => mishap[r] = "unheard" /\ mishap'[r] = "unheard"
        BY OfRequest DEF Progress
    <2>2. task[x] = "none" <=> r \notin committed
        BY <1>5, OfRequest DEF Input
    <2>3. request'[r].pc = "failed"
        BY <1>1, OfRequest, GotoFacts
    <2>4. r \in committed /\ x \in files => task[x] \in {"open", "ended"}
        BY <1>5, CommittedFiles
    <2>5. r \notin committed /\ x \in files' => mishap'[r] = "left"
        <3> SUFFICES ASSUME r \notin committed, x \in files'
                     PROVE  mishap'[r] = "left"
            OBVIOUS
        <3>1. x \in files /\ ~(x[2] <= n)
            <4>1. x \in files /\ x \notin X
                BY <1>2
            <4>2. x = <<r, x[2]>> /\ x[2] \in Nat /\ x[2] >= 1
                BY <1>5, ItemFacts, OfRequest
            <4> QED
                BY <4>1, <4>2
        <3>2. x[2] <= request[r].staged \/ mishap[r] = "left"
            BY <1>5, <3>1, OfRequest DEF Input, OnDisk, At, Ended
        <3>3. x[2] \in Nat /\ n \in Nat /\ request[r].staged \in Nat
            BY <1>5, OfRequest
        <3>4. CASE n < request[r].staged
            <4>1. mishap'[r] # "unheard"
                <5>1. mishap[r] # "unheard"
                    BY OfRequest DEF Progress
                <5> QED
                    BY <5>1
            <4> QED
                BY <3>4, <4>1
        <3>5. CASE ~(n < request[r].staged)
            BY <3>1, <3>2, <3>3, <3>5
        <3> QED
            BY <3>4, <3>5
    <2>6. task[x] \in {"stranded", "dropped"} => x \notin files'
        BY <1>2, <1>5, OfRequest DEF Input
    <2> QED
        BY <2>1, <2>2, <2>3, <2>4, <2>5, <2>6, <1>2 DEF Input, Ended, Staging, InTransaction
<1>6. RequestInv(r)'
    BY <1>4, <1>5 DEF RequestInv, Items
<1>7. \A x \in Item : x[1] # r => (x \in files' <=> x \in files)
    BY <1>2
<1> QED
    BY <1>1, <1>2, <1>3, <1>6, <1>7, OfRequest, GotoFacts, RequestStep

LEMMA CleanupStep == ASSUME IInv, NEW r \in Requests, Cleanup(r) PROVE IInv'
<1>1. /\ At(r, "cleanup") /\ Goto(r, "failed")
      /\ UNCHANGED <<committed, task, outbox, mishap, faults>>
      /\ DeleteStaged(r, request[r].staged)
    BY DEF Cleanup, rows
<1>2. request[r].staged \in 0 .. request[r].staged /\ ~(request[r].staged < request[r].staged)
    BY OfRequest
<1> QED
    BY <1>1, <1>2, OfRequest, DeletedStep DEF TypeInv

LEMMA LookupStep == ASSUME IInv, NEW r \in Requests, Lookup(r) PROVE IInv'
<1>1. /\ At(r, "lookup")
      /\ UNCHANGED <<dirs, files, committed, task, outbox, mishap, faults>>
    BY DEF Lookup, disk, rows
<1>2. CASE \E b \in Existing(r) : Adopt(r, b)
    BY <1>1, <1>2, AdoptStep DEF At
<1>3. CASE Goto(r, "insert")
    <2>0. "insert" \in Stage
        BY DEF Stage
    <2>1. Progress(r)' /\ OwnDirectory(r)'
        BY <1>1, <1>3, <2>0, OfRequest, GotoFacts
           DEF Progress, OwnDirectory, At, Ended, Staging, InTransaction
    <2>2. ASSUME NEW x \in Items(r) PROVE Input(r, x)'
        BY <1>1, <1>3, <2>0, <2>2, OfRequest, GotoFacts
           DEF Input, OnDisk, At, Ended, Staging, InTransaction
    <2> QED
        BY <1>1, <1>3, <2>0, <2>1, <2>2, OfRequest, GotoFacts, QuietStep DEF TypeInv, disk
<1> QED
    BY <1>2, <1>3 DEF Lookup

LEMMA InsertStep == ASSUME IInv, NEW r \in Requests, Insert(r) PROVE IInv'
<1> DEFINE pc == IF Existing(r) = {} THEN "commit" ELSE "requery"
<1>1. /\ At(r, "insert") /\ ~ Blocked(r) /\ Goto(r, pc)
      /\ UNCHANGED <<dirs, files, committed, task, outbox, mishap, faults>>
    BY DEF Insert, disk, rows
<1>2. /\ pc \in Stage /\ pc \in {"commit", "requery"}
      /\ pc = "commit" => Existing(r) = {}
    BY DEF Stage
<1> HIDE DEF pc
<1>3. Progress(r)' /\ OwnDirectory(r)'
    BY <1>1, <1>2, OfRequest, GotoFacts
       DEF Progress, OwnDirectory, At, Ended, Staging, InTransaction
<1>4. ASSUME NEW x \in Items(r) PROVE Input(r, x)'
    BY <1>1, <1>2, <1>4, OfRequest, GotoFacts
       DEF Input, OnDisk, At, Ended, Staging, InTransaction
<1> QED
    BY <1>1, <1>2, <1>3, <1>4, OfRequest, GotoFacts, QuietStep DEF TypeInv, disk

LEMMA RequeryStep == ASSUME IInv, NEW r \in Requests, Requery(r) PROVE IInv'
<1>1. /\ At(r, "requery")
      /\ UNCHANGED <<dirs, files, committed, task, outbox, mishap, faults>>
    BY DEF Requery, disk, rows
<1>2. CASE \E b \in Existing(r) : Adopt(r, b)
    BY <1>1, <1>2, AdoptStep DEF At
<1>3. CASE Goto(r, "cleanup")
    <2>0. "cleanup" \in Stage
        BY DEF Stage
    <2>1. Progress(r)' /\ OwnDirectory(r)'
        BY <1>1, <1>3, <2>0, OfRequest, GotoFacts
           DEF Progress, OwnDirectory, At, Ended, Staging, InTransaction
    <2>2. ASSUME NEW x \in Items(r) PROVE Input(r, x)'
        BY <1>1, <1>3, <2>0, <2>2, OfRequest, GotoFacts
           DEF Input, OnDisk, At, Ended, Staging, InTransaction
    <2> QED
        BY <1>1, <1>3, <2>0, <2>1, <2>2, OfRequest, GotoFacts, QuietStep DEF TypeInv, disk
<1> QED
    BY <1>2, <1>3 DEF Requery

\* What was adopted belongs to another.
LEMMA AdoptedIsAnother ==
    ASSUME IInv, NEW r \in Requests, At(r, "reuse")
    PROVE  /\ r \notin committed /\ request[r].batch # r
           /\ request[r].batch \in committed /\ Key[r] # NoKey
           /\ Key[request[r].batch] = Key[r]
BY OfRequest DEF Progress, At, Ended, Existing

LEMMA DispatchStep == ASSUME IInv, NEW r \in Requests, Dispatch(r) PROVE IInv'
<1>1. /\ At(r, "dispatch") /\ Goto(r, "answered") /\ "answered" \in Stage
      /\ outbox' \in [Item -> OutboxState]
      /\ UNCHANGED <<dirs, files, committed, task, mishap, faults>>
    BY OfRequest, PublishFacts DEF Dispatch, disk, Stage, Ended
<1>2. Progress(r)' /\ OwnDirectory(r)'
    BY <1>1, OfRequest, GotoFacts DEF Progress, OwnDirectory, At, Ended, Staging, InTransaction
<1>3. ASSUME NEW x \in Items(r) PROVE Input(r, x)'
    <2>1. x \in files => task[x] \in {"open", "ended"}
        BY <1>1, <1>3, OfRequest, CommittedFiles DEF Progress, At
    <2> QED
        BY <1>1, <1>3, <2>1, OfRequest, GotoFacts DEF Input, At, Ended, Staging, InTransaction
<1> QED
    BY <1>1, <1>2, <1>3, OfRequest, GotoFacts, QuietStep DEF TypeInv, disk

LEMMA AnswerStep == ASSUME IInv, NEW r \in Requests, AnswerExisting(r) PROVE IInv'
<1>1. /\ At(r, "reuse") /\ Goto(r, "answered") /\ "answered" \in Stage
      /\ outbox' \in [Item -> OutboxState]
      /\ UNCHANGED <<dirs, files, committed, task, mishap, faults>>
    BY OfRequest, PublishFacts DEF AnswerExisting, disk, Stage, Ended
<1>2. Progress(r)' /\ OwnDirectory(r)'
    BY <1>1, OfRequest, GotoFacts DEF Progress, OwnDirectory, At, Ended, Staging, InTransaction
<1>3. ASSUME NEW x \in Items(r) PROVE Input(r, x)'
    BY <1>1, <1>3, OfRequest, GotoFacts, AdoptedIsAnother
       DEF Input, At, Ended, Staging, InTransaction
<1> QED
    BY <1>1, <1>2, <1>3, OfRequest, GotoFacts, QuietStep DEF TypeInv, disk

-----------------------------------------------------------------------------
(* Failures.                                                               *)

LEMMA FaultStep == ASSUME IInv, NEW r \in Requests, Fault(r) PROVE IInv'
<1>1. /\ faults' \in Nat /\ "cleanup" \in Stage /\ "failed" \in Stage
      /\ UNCHANGED <<dirs, files, committed, task, outbox, mishap>>
    BY OfRequest DEF Fault, disk, rows, Stage, Ended, TypeInv
<1>2. CASE request[r].pc \in InTransaction /\ Goto(r, "cleanup")
    <2>1. Progress(r)' /\ OwnDirectory(r)'
        BY <1>1, <1>2, OfRequest, GotoFacts
           DEF Progress, OwnDirectory, At, Ended, Staging, InTransaction
    <2>2. ASSUME NEW x \in Items(r) PROVE Input(r, x)'
        BY <1>1, <1>2, <2>2, OfRequest, GotoFacts
           DEF Input, OnDisk, At, Ended, Staging, InTransaction
    <2> QED
        BY <1>1, <1>2, <2>1, <2>2, OfRequest, GotoFacts, QuietStep DEF TypeInv, disk
<1>3. CASE request[r].pc \in {"reuse", "dispatch"} /\ Goto(r, "failed")
    <2>1. Progress(r)' /\ OwnDirectory(r)'
        BY <1>1, <1>3, OfRequest, GotoFacts
           DEF Progress, OwnDirectory, At, Ended, Staging, InTransaction
    <2>2. ASSUME NEW x \in Items(r) PROVE Input(r, x)'
        <3>1. x \in files => task[x] \in {"open", "ended"} \/ request[r].batch # r
            BY <1>3, <2>2, OfRequest, CommittedFiles, AdoptedIsAnother DEF Progress, At
        <3> QED
            BY <1>1, <1>3, <2>2, <3>1, OfRequest, GotoFacts
               DEF Input, At, Ended, Staging, InTransaction
    <2> QED
        BY <1>1, <1>3, <2>1, <2>2, OfRequest, GotoFacts, QuietStep DEF TypeInv, disk
<1> QED
    BY <1>2, <1>3 DEF Fault, InTransaction

LEMMA StageFaultStep == ASSUME IInv, NEW r \in Requests, StageFault(r) PROVE IInv'
<1>1. /\ request[r].pc \in {"mkdir", "open"} /\ Goto(r, GivenUp(r))
      /\ UNCHANGED <<files, committed, task, outbox, mishap>> /\ faults' \in Nat
    BY OfRequest DEF StageFault, rows, At, TypeInv
<1>2. /\ dirs' \subseteq dirs
      /\ \A q \in Requests \ Singles : q # r /\ q \in dirs => q \in dirs'
    BY DirFacts DEF StageFault, Prune
<1> QED
    BY <1>1, <1>2, GivenUpStep

LEMMA TearStep == ASSUME IInv, NEW r \in Requests, TearWrite(r) PROVE IInv'
<1> DEFINE pc == GivenUp(r)
<1>1. /\ At(r, "stream") /\ Goto(r, pc)
      /\ pc \in Stage /\ pc \in {"failed", "cleanup"}
      /\ mishap' = [mishap EXCEPT ![r] = "left"]
      /\ UNCHANGED <<dirs, files, committed, task, outbox>> /\ faults' \in Nat
    BY OfRequest DEF TearWrite, GivenUp, disk, rows, Stage, Ended, TypeInv
<1> HIDE DEF pc
<1>2. /\ mishap'[r] = "left" /\ mishap' \in [Requests -> {"none", "unheard", "left"}]
      /\ \A q \in Requests \ {r} : mishap'[q] = mishap[q]
    BY <1>1, OfRequest DEF TypeInv
<1>3. Progress(r)' /\ OwnDirectory(r)'
    BY <1>1, <1>2, OfRequest, GotoFacts
       DEF Progress, OwnDirectory, At, Ended, Staging, InTransaction
<1>4. ASSUME NEW x \in Items(r) PROVE Input(r, x)'
    <2>1. r \notin committed /\ task[x] = "none"
        BY <1>1, <1>4, OfRequest DEF Progress, Input, At, Ended
    <2> QED
        BY <1>1, <1>2, <2>1, OfRequest, GotoFacts DEF Input, At, Ended, Staging, InTransaction
<1> QED
    BY <1>1, <1>2, <1>3, <1>4, OfRequest, GotoFacts, QuietStep DEF TypeInv, disk

LEMMA CleanupFailsStep == ASSUME IInv, NEW r \in Requests, CleanupFails(r) PROVE IInv'
<1>1. /\ At(r, "cleanup") /\ Goto(r, "failed")
      /\ UNCHANGED <<committed, task, outbox>> /\ faults' \in Nat
      /\ mishap' = [mishap EXCEPT ![r] = IF @ = "unheard" THEN @ ELSE "left"]
    BY OfRequest DEF CleanupFails, rows, TypeInv
<1>2. PICK n \in 0 .. request[r].staged - 1 : DeleteStaged(r, n)
    BY DEF CleanupFails
<1>3. /\ mishap' \in [Requests -> {"none", "unheard", "left"}]
      /\ \A q \in Requests \ {r} : mishap'[q] = mishap[q]
      /\ mishap'[r] = IF mishap[r] = "unheard" THEN "unheard" ELSE "left"
      /\ mishap[r] \in {"none", "unheard", "left"}
    BY <1>1, OfRequest DEF TypeInv
<1>4. n \in 0 .. request[r].staged
    BY <1>2, OfRequest
<1> QED
    BY <1>1, <1>2, <1>3, <1>4, DeletedStep

LEMMA CrashStep == ASSUME IInv, NEW r \in Requests, Crash(r) PROVE IInv'
<1>1. /\ Goto(r, "crashed") /\ "crashed" \in Stage
      /\ UNCHANGED <<dirs, files, committed, task, outbox, mishap>> /\ faults' \in Nat
    BY OfRequest DEF Crash, disk, rows, Stage, Ended, TypeInv
<1>2. Progress(r)' /\ OwnDirectory(r)'
    BY <1>1, OfRequest, GotoFacts DEF Progress, OwnDirectory, At, Ended, Staging, InTransaction
<1>3. ASSUME NEW x \in Items(r) PROVE Input(r, x)'
    BY <1>1, <1>3, OfRequest, GotoFacts DEF Input, At, Ended, Staging, InTransaction
<1> QED
    BY <1>1, <1>2, <1>3, OfRequest, GotoFacts, QuietStep DEF TypeInv, disk

-----------------------------------------------------------------------------
(* The commit, heard of or not.                                            *)

LEMMA RegisterStep ==
    ASSUME IInv, NEW r \in Requests, At(r, "commit"), Register(r),
           NEW pc \in {"dispatch", "cleanup"}, Goto(r, pc),
           UNCHANGED <<dirs, files>>,
           mishap' \in [Requests -> {"none", "unheard", "left"}],
           \A q \in Requests \ {r} : mishap'[q] = mishap[q],
           mishap'[r] = IF pc = "cleanup" THEN "unheard" ELSE mishap[r],
           faults' \in Nat
    PROVE  IInv'
<1>1. pc \in Stage
    BY DEF Stage
<1>2. /\ committed' = committed \cup {r}
      /\ \A x \in Item : task'[x] = IF x \in Items(r) THEN "open" ELSE task[x]
    BY DEF Register
<1>3. TypeInv'
    <2>1. task' \in [Item -> TaskState]
        BY OfRequest DEF Register, TypeInv, TaskState
    <2>2. outbox' \in [Item -> OutboxState]
        BY OfRequest DEF Register, TypeInv, OutboxState
    <2> QED
        BY <1>1, <1>2, <2>1, <2>2, OfRequest, GotoFacts DEF TypeInv
<1>4. ASSUME NEW q \in Requests, q # r PROVE RequestInv(q)'
    <2>1. \A x \in Items(q) : task'[x] = task[x]
        BY <1>2, <1>4, ItemFacts
    <2> QED
        BY <1>1, <1>2, <1>4, <2>1, OfRequest, GotoFacts, Untouched DEF IInv
<1>5. RequestInv(r)'
    <2>1. Progress(r)' /\ OwnDirectory(r)'
        BY <1>1, <1>2, OfRequest, GotoFacts
           DEF Progress, OwnDirectory, At, Ended, Staging, InTransaction
    <2>2. ASSUME NEW x \in Items(r) PROVE Input(r, x)'
        <3>1. x \in files /\ x[2] <= request[r].staged
            BY <2>2, OfRequest DEF Progress, Input, OnDisk, At, InTransaction
        <3>2. task'[x] = "open" /\ r \in committed' /\ request'[r].pc = pc
              /\ OnDisk(r)' = request[r].staged
            BY <1>1, <1>2, <2>2, OfRequest, GotoFacts, ItemFacts DEF OnDisk, At
        <3> QED
            BY <3>1, <3>2 DEF Input, Ended, Staging, InTransaction
    <2> QED
        BY <2>1, <2>2 DEF RequestInv, Items
<1>6. KeysHeld'
    <2> SUFFICES ASSUME NEW q \in Requests, request'[q].pc = "commit", Key[q] # NoKey
                 PROVE  /\ \A b \in committed' : Key[b] # Key[q]
                        /\ \A p \in Requests :
                              request'[p].pc = "commit" /\ Key[p] = Key[q] => p = q
        BY DEF KeysHeld, At, Existing
    <2>1. q # r /\ At(q, "commit")
        BY <1>1, OfRequest, GotoFacts DEF At
    <2>2. Key[r] # Key[q] /\ \A b \in committed : Key[b] # Key[q]
        BY <2>1 DEF IInv, KeysHeld, Existing
    <2>3. \A p \in Requests : request'[p].pc = "commit" => At(p, "commit")
        BY <1>1, OfRequest, GotoFacts DEF At
    <2> QED
        BY <1>2, <2>1, <2>2, <2>3 DEF IInv, KeysHeld
<1>7. OneBatchPerKey'
    <2>1. Key[r] # NoKey => \A b \in committed : Key[b] # Key[r]
        BY DEF IInv, KeysHeld, Existing
    <2> QED
        BY <1>2, <2>1 DEF IInv, OneBatchPerKey
<1> QED
    BY <1>3, <1>4, <1>5, <1>6, <1>7 DEF IInv

LEMMA CommitStep == ASSUME IInv, NEW r \in Requests, Commit(r) PROVE IInv'
<1>1. /\ At(r, "commit") /\ Register(r) /\ Goto(r, "dispatch")
      /\ UNCHANGED <<dirs, files, mishap, faults>>
    BY DEF Commit, disk
<1> QED
    BY <1>1, OfRequest, RegisterStep DEF TypeInv

LEMMA UnheardStep == ASSUME IInv, NEW r \in Requests, CommitUnheard(r) PROVE IInv'
<1>1. /\ At(r, "commit") /\ Register(r) /\ Goto(r, "cleanup")
      /\ mishap' = [mishap EXCEPT ![r] = "unheard"]
      /\ UNCHANGED <<dirs, files>> /\ faults' \in Nat
    BY OfRequest DEF CommitUnheard, disk, TypeInv
<1>2. /\ mishap' \in [Requests -> {"none", "unheard", "left"}]
      /\ mishap'[r] = "unheard" /\ \A q \in Requests \ {r} : mishap'[q] = mishap[q]
    BY <1>1, OfRequest DEF TypeInv
<1> QED
    BY <1>1, <1>2, RegisterStep

-----------------------------------------------------------------------------
(* Workers.                                                                *)

\* A step of a task that is registered.
LEMMA WorkStep ==
    ASSUME IInv, NEW x \in Item, NEW s \in {"ended", "stranded", "dropped"},
           task' = [task EXCEPT ![x] = s], task[x] # "none",
           UNCHANGED <<request, committed, outbox, mishap, faults>>,
           dirs' \subseteq dirs,
           \A q \in Requests \ Singles : q # x[1] /\ q \in dirs => q \in dirs',
           files' = files \ {x} \/ files' = files,
           files' # files => task[x] = "ended" /\ s = "dropped",
           s = "ended" => task[x] = "open",
           s = "stranded" => task[x] = "open" /\ x \notin files,
           s = "dropped" => x \notin files'
    PROVE  IInv'
<1> DEFINE r == x[1]
<1>1. r \in Requests /\ x \in Items(r)
    BY ItemFacts
<1> HIDE DEF r
<1>2. r \in committed /\ request[r].pc \in {"dispatch", "cleanup"} \cup Ended
    BY <1>1, OfRequest DEF Progress, Input
<1>3. task'[x] = s /\ \A y \in Item \ {x} : task'[y] = task[y] /\ (y \in files' <=> y \in files)
    BY <1>1, OfRequest DEF TypeInv
<1>4. TypeInv'
    BY <1>1, OfRequest DEF TypeInv, TaskState
<1>5. ASSUME NEW q \in Requests, q # r PROVE RequestInv(q)'
    <2>1. \A y \in Items(q) : task'[y] = task[y] /\ (y \in files' <=> y \in files)
        BY <1>3, <1>5, ItemFacts DEF r
    <2> QED
        BY <1>5, <2>1, Untouched DEF IInv, r
<1>6. RequestInv(r)'
    <2>1. Progress(r)' /\ OwnDirectory(r)'
        BY <1>1, <1>2, OfRequest DEF Progress, OwnDirectory, At, Ended, Existing
    <2>2. ASSUME NEW y \in Items(r) PROVE Input(r, y)'
        <3>1. CASE y # x
            <4>1. task'[y] = task[y] /\ (y \in files' <=> y \in files)
                BY <1>1, <1>3, <2>2, <3>1, ItemFacts
            <4> QED
                BY <1>1, <2>2, <4>1, OfRequest DEF Input, OnDisk, At
        <3>2. CASE y = x
            <4>1. x \in files' => x \in files /\ s = "ended"
                BY <1>3
            <4>2. s = "stranded" => mishap[r] = "unheard"
                BY <1>1, OfRequest DEF Input
            <4> QED
                BY <1>1, <1>2, <1>3, <3>2, <4>1, <4>2, OfRequest
                   DEF Input, OnDisk, At, Ended, Staging, InTransaction
        <3> QED
            BY <3>1, <3>2
    <2> QED
        BY <2>1, <2>2 DEF RequestInv, Items
<1>7. KeysHeld' /\ OneBatchPerKey'
    BY DEF IInv, KeysHeld, OneBatchPerKey, Existing, At
<1> QED
    BY <1>4, <1>5, <1>6, <1>7 DEF IInv

LEMMA WorksStep == ASSUME IInv, NEW x \in Item, Works(x) PROVE IInv'
<1>1. CASE EndTask(x)
    BY <1>1, WorkStep DEF EndTask, disk
<1>2. CASE StrandTask(x)
    BY <1>2, WorkStep DEF StrandTask, disk
<1>3. CASE DropInput(x)
    <2>1. /\ task' = [task EXCEPT ![x] = "dropped"] /\ task[x] = "ended"
          /\ UNCHANGED <<request, committed, outbox, mishap, faults>>
        BY <1>3 DEF DropInput
    <2>2. /\ files' = files \ {x} /\ dirs' \subseteq dirs
          /\ \A q \in Requests \ Singles : q # x[1] /\ q \in dirs => q \in dirs'
        BY <1>3, ItemFacts, RemoveFacts DEF DropInput
    <2> QED
        BY <2>1, <2>2, WorkStep
<1> QED
    BY <1>1, <1>2, <1>3 DEF Works

LEMMA ReconcileStep == ASSUME IInv, Reconcile PROVE IInv'
<1>1. /\ outbox' \in [Item -> OutboxState]
      /\ UNCHANGED <<dirs, files, committed, task, request, mishap, faults>>
    BY PublishFacts DEF Reconcile, disk, IInv
<1>2. TypeInv'
    BY <1>1 DEF IInv, TypeInv
<1>3. ASSUME NEW q \in Requests PROVE RequestInv(q)'
    BY <1>1, <1>3, Untouched DEF IInv
<1>4. KeysHeld' /\ OneBatchPerKey'
    BY <1>1 DEF IInv, KeysHeld, OneBatchPerKey, Existing, At
<1> QED
    BY <1>2, <1>3, <1>4 DEF IInv

-----------------------------------------------------------------------------
(* The invariant.                                                          *)

LEMMA InitIInv == Init => IInv
<1> SUFFICES ASSUME Init PROVE IInv
    OBVIOUS
<1>1. /\ TypeInv
      /\ \A r \in Requests : At(r, "start") /\ request[r].staged = 0 /\ request[r].batch = r
    BY DEF Init, TypeInv, At, RequestState, Stage, TaskState, OutboxState
<1>2. ASSUME NEW r \in Requests PROVE RequestInv(r)
    <2>1. Progress(r) /\ OwnDirectory(r)
        BY <1>1, <1>2, SubmissionAssumption
           DEF Init, Progress, OwnDirectory, At, Ended, Staging, InTransaction, SubmissionAssumption
    <2>2. ASSUME NEW x \in Items(r) PROVE Input(r, x)
        BY <1>1, <1>2, <2>2, ItemFacts DEF Init, Input, At, Ended, Staging, InTransaction
    <2> QED
        BY <2>1, <2>2 DEF RequestInv
<1>3. KeysHeld /\ OneBatchPerKey
    BY <1>1 DEF Init, KeysHeld, OneBatchPerKey, At
<1> QED
    BY <1>1, <1>2, <1>3 DEF IInv

LEMMA RequestNext ==
    ASSUME IInv, NEW r \in Requests, Refuse(r) \/ Begin(r) \/ Proceeds(r) \/ Fails(r)
    PROVE  IInv'
<1>1. CASE Stages(r)
    BY <1>1, RefuseFileStep, MkdirStep, OpenStep, StoredStep, RejectStep, OverBudgetStep, CleanupStep
       DEF Stages
<1>2. CASE Registers(r)
    BY <1>2, LookupStep, InsertStep, CommitStep, RequeryStep, DispatchStep, AnswerStep DEF Registers
<1>3. CASE Fails(r)
    BY <1>3, FaultStep, UnheardStep, StageFaultStep, TearStep, CleanupFailsStep, CrashStep DEF Fails
<1> QED
    BY <1>1, <1>2, <1>3, RefuseStep, BeginStep DEF Proceeds

LEMMA NextIInv == IInv /\ [Next]_vars => IInv'
<1> SUFFICES ASSUME IInv, [Next]_vars PROVE IInv'
    OBVIOUS
<1>1. CASE UNCHANGED vars
    <2>1. /\ TypeInv' /\ KeysHeld' /\ OneBatchPerKey'
        BY <1>1 DEF IInv, vars, TypeInv, KeysHeld, OneBatchPerKey, Existing, At
    <2>2. ASSUME NEW q \in Requests PROVE RequestInv(q)'
        BY <1>1, <2>2, Untouched DEF IInv, vars
    <2> QED
        BY <2>1, <2>2 DEF IInv
<1> QED
    BY <1>1, RequestNext, WorksStep, ReconcileStep DEF Next

LEMMA SubmissionInvariant == Spec => []IInv
BY InitIInv, NextIInv, PTL DEF Spec

-----------------------------------------------------------------------------
(* Theorems.                                                               *)

\* What the services keep is always of its kind, and staged_paths is short of
\* the batch while a file is being staged.
THEOREM SubmissionTypeCorrect == Spec => []TypeOK
<1>1. IInv => TypeOK
    BY DEF IInv, TypeInv, TypeOK, RequestInv, Progress, Staging
<1> QED
    BY <1>1, SubmissionInvariant, PTL

\* No idempotency key ever has two batches.
THEOREM KeysAreIdempotent == Spec => []OneBatchPerKey
<1>1. IInv => OneBatchPerKey
    BY DEF IInv
<1> QED
    BY <1>1, SubmissionInvariant, PTL

\* The input of a task that may still run is on disk, unless the commit that
\* created the task was not heard of.
THEOREM InputsAreKept == Spec => []InputsKept
<1>1. ASSUME IInv, NEW x \in Item PROVE Input(x[1], x)
    BY <1>1, ItemFacts, OfRequest
<1>2. IInv => InputsKept
    BY <1>1 DEF InputsKept, Input
<1> QED
    BY <1>2, SubmissionInvariant, PTL

\* The directory of a batch is there when its next file is opened.
THEOREM DirectoriesStay == Spec => []OwnDirectoryStays
<1>1. IInv => OwnDirectoryStays
    BY DirFacts DEF IInv, RequestInv, OwnDirectory, OwnDirectoryStays
<1> QED
    BY <1>1, SubmissionInvariant, PTL

\* A file is of a request in progress, of a task that has not dropped it, or
\* was left by one of four: a lost process, a submission that found another's
\* batch, a write or a file in hand that nothing deleted, and a cleanup that
\* raised.
THEOREM NothingElseLeavesFiles == Spec => []OnlyThoseLeaveFiles
<1>1. ASSUME IInv, NEW x \in files PROVE Input(x[1], x)
    BY <1>1, ItemFacts, OfRequest DEF IInv, TypeInv
<1>2. IInv => OnlyThoseLeaveFiles
    BY <1>1 DEF OnlyThoseLeaveFiles, Input
<1> QED
    BY <1>2, SubmissionInvariant, PTL

-----------------------------------------------------------------------------
(* The refinement.                                                         *)

Answers == [r \in Requests |-> IF At(r, "answered") THEN {request[r].batch} ELSE {}]

\* A step that registers and answers nothing.
LEMMA NoAnswer ==
    ASSUME NEW r \in Requests, ~ At(r, "answered"), request'[r].pc # "answered",
           \A q \in Requests \ {r} : request'[q] = request[q], committed' = committed
    PROVE  UNCHANGED <<committed, Answers>>
<1>1. \A q \in Requests : (IF At(q, "answered") THEN {request[q].batch} ELSE {})'
                          = IF At(q, "answered") THEN {request[q].batch} ELSE {}
    BY DEF At
<1> QED
    BY <1>1 DEF Answers

LEMMA SilentStep ==
    ASSUME IInv, NEW r \in Requests,
           Refuse(r) \/ Begin(r) \/ Stages(r) \/ Lookup(r) \/ Insert(r) \/ Requery(r)
           \/ Fault(r) \/ StageFault(r) \/ TearWrite(r) \/ CleanupFails(r) \/ Crash(r)
    PROVE  UNCHANGED <<committed, Answers>>
<1> DEFINE next(pc) == /\ ~ At(r, "answered") /\ committed' = committed
                       /\ pc \in Stage /\ pc # "answered" /\ Goto(r, pc)
<1>1. ASSUME NEW pc, next(pc) PROVE UNCHANGED <<committed, Answers>>
    BY <1>1, OfRequest, GotoFacts, NoAnswer
<1>2. ASSUME NEW b \in Existing(r), Adopt(r, b), ~ At(r, "answered"), committed' = committed
      PROVE  UNCHANGED <<committed, Answers>>
    BY <1>2, OfRequest, AdoptFacts, NoAnswer
<1>3. CASE Refuse(r)
    BY <1>1, <1>3 DEF Refuse, Arrives, rows, At, Stage, Ended
<1>4. CASE Begin(r)
    BY <1>1, <1>2, <1>4 DEF Begin, Arrives, rows, At, Stage
<1>5. CASE RefuseFile(r) \/ Mkdir(r) \/ Open(r) \/ Reject(r) \/ Cleanup(r)
    <2>1. PICK pc \in {"cleanup", "open", "stream", "failed"} : Goto(r, pc)
        BY <1>5 DEF RefuseFile, Mkdir, Open, GivenUp, Reject, Cleanup
    <2>2. ~ At(r, "answered") /\ committed' = committed
        BY <1>5 DEF RefuseFile, Mkdir, Open, Reject, Cleanup, rows, At
    <2> QED
        BY <1>1, <2>1, <2>2 DEF Stage, Ended
<1>6. CASE Stored(r) \/ OverBudget(r)
    <2>1. PICK pc \in {"mkdir", "insert", "lookup", "cleanup"} :
              request' = [request EXCEPT ![r].staged = @ + 1, ![r].pc = pc]
        BY <1>6 DEF Stored, OverBudget
    <2>2. ~ At(r, "answered") /\ committed' = committed
        BY <1>6 DEF Stored, OverBudget, rows, At
    <2>3. pc \in Stage /\ pc # "answered"
        BY DEF Stage
    <2>4. /\ \A q \in Requests \ {r} : request'[q] = request[q]
          /\ request'[r].pc = pc
        BY <2>1, <2>3, OfRequest, StagedFacts
    <2> QED
        BY <2>2, <2>3, <2>4, NoAnswer
<1>7. CASE Lookup(r)
    BY <1>1, <1>2, <1>7 DEF Lookup, rows, At, Stage
<1>8. CASE Insert(r)
    <2>1. PICK pc \in {"commit", "requery"} : Goto(r, pc)
        BY <1>8 DEF Insert
    <2> QED
        BY <1>1, <1>8, <2>1 DEF Insert, rows, At, Stage
<1>9. CASE Requery(r)
    <2>1. Goto(r, "cleanup") \/ \E b \in Existing(r) : Adopt(r, b)
        BY <1>9 DEF Requery
    <2> QED
        BY <1>1, <1>2, <1>9, <2>1 DEF Requery, rows, At, Stage
<1>10. CASE Fault(r) \/ StageFault(r) \/ TearWrite(r) \/ CleanupFails(r) \/ Crash(r)
    <2>1. PICK pc \in {"cleanup", "failed", "crashed"} : Goto(r, pc)
        BY <1>10 DEF Fault, StageFault, TearWrite, CleanupFails, GivenUp, Crash
    <2>2. ~ At(r, "answered") /\ committed' = committed
        BY <1>10 DEF Fault, StageFault, TearWrite, CleanupFails, Crash, rows, At, Ended
    <2> QED
        BY <1>1, <2>1, <2>2 DEF Stage, Ended
<1> QED
    BY <1>3, <1>4, <1>5, <1>6, <1>7, <1>8, <1>9, <1>10 DEF Stages

\* The commit registers the submission.
LEMMA CommitRegisters ==
    ASSUME IInv, NEW r \in Requests, At(r, "commit"), Register(r),
           NEW pc \in {"dispatch", "cleanup"}, Goto(r, pc)
    PROVE  Registry!Register(r)
<1>1. \A b \in committed : b # r /\ (Key[r] # NoKey => Key[b] # Key[r])
    BY OfRequest DEF IInv, KeysHeld, Progress, At, Ended, Existing
<1>2. committed' = committed \cup {r}
    BY DEF Register
<1>3. Answers' = Answers
    <2>1. \A q \in Requests : (IF At(q, "answered") THEN {request[q].batch} ELSE {})'
                              = IF At(q, "answered") THEN {request[q].batch} ELSE {}
        <3>1. request'[r].pc = pc /\ \A q \in Requests \ {r} : request'[q] = request[q]
            BY OfRequest, GotoFacts DEF Stage
        <3> QED
            BY <3>1 DEF At
    <2> QED
        BY <2>1 DEF Answers
<1> QED
    BY <1>1, <1>2, <1>3 DEF Registry!Register, Registry!SameBatch, Answers

\* And the end of the request answers it.
LEMMA EndAnswers ==
    ASSUME IInv, NEW r \in Requests, Dispatch(r) \/ AnswerExisting(r)
    PROVE  Registry!Answer(r)
<1>1. /\ ~ At(r, "answered") /\ Goto(r, "answered") /\ committed' = committed
      /\ At(r, "dispatch") \/ At(r, "reuse")
    BY DEF Dispatch, AnswerExisting, At
<1>2. /\ request'[r].pc = "answered" /\ request'[r].batch = request[r].batch
      /\ \A q \in Requests \ {r} : request'[q] = request[q]
    BY <1>1, OfRequest, GotoFacts DEF Stage, Ended
<1>3. request[r].batch \in committed /\ Registry!SameBatch(r, request[r].batch)
    <2>1. CASE At(r, "dispatch")
        BY <2>1, OfRequest DEF Progress, At, Ended, Registry!SameBatch
    <2>2. CASE At(r, "reuse")
        BY <2>2, AdoptedIsAnother DEF Registry!SameBatch
    <2> QED
        BY <1>1, <2>1, <2>2
<1>4. Answers[r] = {} /\ Answers' = [Answers EXCEPT ![r] = {request[r].batch}]
    <2>1. \A q \in Requests : (IF At(q, "answered") THEN {request[q].batch} ELSE {})'
              = IF q = r THEN {request[r].batch}
                ELSE IF At(q, "answered") THEN {request[q].batch} ELSE {}
        BY <1>2 DEF At
    <2> QED
        BY <1>1, <2>1 DEF Answers
<1> QED
    BY <1>1, <1>3, <1>4 DEF Registry!Answer, Answers

\* The services implement the registry: a submission is registered whole and
\* once for its key, and its answer names the batch of its key.
THEOREM ServicesImplementRegistry == Spec => ImplementsRegistry
<1>1. Init => Registry!Init
    <2> SUFFICES ASSUME Init PROVE Registry!Init
        OBVIOUS
    <2>1. \A r \in Requests : ~ At(r, "answered")
        BY DEF Init, At
    <2> QED
        BY <2>1 DEF Init, Registry!Init
<1>2. ASSUME IInv, [Next]_vars PROVE [Registry!Next]_(Registry!vars)
    <2>1. ASSUME UNCHANGED <<committed, Answers>> PROVE UNCHANGED Registry!vars
        BY <2>1 DEF Registry!vars, Answers
    <2>2. CASE UNCHANGED <<committed, request>>
        <3>1. UNCHANGED <<committed, Answers>>
            BY <2>2 DEF Answers, At
        <3> QED
            BY <2>1, <3>1
    <2>3. ASSUME NEW r \in Requests, Refuse(r) \/ Begin(r) \/ Proceeds(r) \/ Fails(r)
          PROVE  [Registry!Next]_(Registry!vars)
        <3>1. CASE Commit(r) \/ CommitUnheard(r)
            BY <1>2, <3>1, CommitRegisters DEF Commit, CommitUnheard, Registry!Next
        <3>2. CASE Dispatch(r) \/ AnswerExisting(r)
            BY <1>2, <3>2, EndAnswers DEF Registry!Next
        <3>3. CASE \/ Refuse(r) \/ Begin(r) \/ Stages(r) \/ Lookup(r) \/ Insert(r)
                   \/ Requery(r) \/ Fault(r) \/ StageFault(r) \/ TearWrite(r)
                   \/ CleanupFails(r) \/ Crash(r)
            BY <1>2, <2>1, <3>3, SilentStep
        <3> QED
            BY <2>3, <3>1, <3>2, <3>3 DEF Proceeds, Registers, Fails
    <2>4. ASSUME NEW x \in Item, Works(x) PROVE UNCHANGED <<committed, request>>
        BY <2>4 DEF Works, EndTask, StrandTask, DropInput
    <2>5. Reconcile \/ UNCHANGED vars => UNCHANGED <<committed, request>>
        BY DEF Reconcile, vars
    <2> QED
        BY <1>2, <2>2, <2>3, <2>4, <2>5 DEF Next
<1> QED
    BY <1>1, <1>2, SubmissionInvariant, PTL DEF Spec, ImplementsRegistry, Registry!Spec

-----------------------------------------------------------------------------
(* Every submission comes to an end, and nobody waits for more than one.   *)

\* A bound on the steps that a request in stage pc, which has yet to stage
\* so many files, still takes.  A file takes three.
StepsLeft(pc, files_left) ==
    CASE pc = "mkdir" -> 8 + 3 * files_left
      [] pc = "open" -> 7 + 3 * files_left
      [] pc = "stream" -> 6 + 3 * files_left
      [] pc = "lookup" -> 6
      [] pc = "insert" -> 5
      [] pc \in {"commit", "requery"} -> 4
      [] pc \in {"dispatch", "reuse"} -> 2
      [] pc = "cleanup" -> 1
      [] pc \in Ended -> 0

Left(r) == StepsLeft(request[r].pc, Total[r] - request[r].staged)

LEMMA StepsLeftOf ==
    ASSUME NEW n \in Int
    PROVE  /\ StepsLeft("mkdir", n) = 8 + 3 * n
           /\ StepsLeft("open", n) = 7 + 3 * n
           /\ StepsLeft("stream", n) = 6 + 3 * n
           /\ StepsLeft("lookup", n) = 6 /\ StepsLeft("insert", n) = 5
           /\ StepsLeft("commit", n) = 4 /\ StepsLeft("requery", n) = 4
           /\ StepsLeft("dispatch", n) = 2 /\ StepsLeft("reuse", n) = 2
           /\ StepsLeft("cleanup", n) = 1 /\ StepsLeft("answered", n) = 0
           /\ StepsLeft("failed", n) = 0 /\ StepsLeft("crashed", n) = 0
BY DEF StepsLeft, Ended

LEMMA StepsLeftBounds ==
    ASSUME NEW pc \in Stage \ {"start"}, NEW n \in Int, NEW total \in Nat \ {0},
           n <= total, pc \in Staging => n >= 1
    PROVE  /\ StepsLeft(pc, n) \in 0 .. 8 + 3 * total
           /\ pc \notin Ended => StepsLeft(pc, n) >= 1
<1>0. /\ StepsLeft("mkdir", n) = 8 + 3 * n
      /\ StepsLeft("open", n) = 7 + 3 * n
      /\ StepsLeft("stream", n) = 6 + 3 * n
    BY StepsLeftOf
<1>1. CASE pc = "mkdir"
    BY <1>0, <1>1 DEF Staging, Ended
<1>2. CASE pc = "open"
    BY <1>0, <1>2 DEF Staging, Ended
<1>3. CASE pc = "stream"
    BY <1>0, <1>3 DEF Staging, Ended
<1>4. CASE pc \notin Staging
    <2>1. StepsLeft(pc, n) \in {1, 2, 4, 5, 6} \/ (pc \in Ended /\ StepsLeft(pc, n) = 0)
        BY <1>4, StepsLeftOf DEF Stage, Ended, Staging
    <2> QED
        BY <2>1
<1> QED
    BY <1>1, <1>2, <1>3, <1>4 DEF Staging

\* A request that goes on to another stage has fewer steps left.
LEMMA MovedLeft ==
    ASSUME IInv, NEW r \in Requests, NEW pc \in Stage,
           request'[r].pc = pc, request'[r].staged = request[r].staged,
           \/ At(r, "start") /\ pc \in {"failed", "mkdir", "reuse"}
           \/ At(r, "mkdir") /\ pc \in {"failed", "cleanup", "open", "crashed"}
           \/ At(r, "open") /\ pc \in {"stream", "failed", "cleanup", "crashed"}
           \/ At(r, "stream") /\ pc \in {"cleanup", "failed", "crashed"}
           \/ At(r, "cleanup") /\ pc \in {"failed", "crashed"}
           \/ At(r, "lookup") /\ pc \in {"reuse", "insert", "cleanup", "crashed"}
           \/ At(r, "insert") /\ pc \in {"commit", "requery", "cleanup", "crashed"}
           \/ At(r, "commit") /\ pc \in {"dispatch", "cleanup", "crashed"}
           \/ At(r, "requery") /\ pc \in {"reuse", "cleanup", "crashed"}
           \/ At(r, "dispatch") /\ pc \in {"answered", "failed", "crashed"}
           \/ At(r, "reuse") /\ pc \in {"answered", "failed", "crashed"}
    PROVE  ~At(r, "start") => Left(r)' < Left(r)
<1> DEFINE n == Total[r] - request[r].staged
<1>1. n \in Int /\ (request[r].pc \in Staging => n >= 1)
    BY OfRequest DEF Progress
<1>2. Left(r)' = StepsLeft(pc, n) /\ Left(r) = StepsLeft(request[r].pc, n)
    BY DEF Left
<1> HIDE DEF n
<1>0. /\ StepsLeft("mkdir", n) = 8 + 3 * n
      /\ StepsLeft("open", n) = 7 + 3 * n
      /\ StepsLeft("stream", n) = 6 + 3 * n
      /\ StepsLeft("lookup", n) = 6 /\ StepsLeft("insert", n) = 5
      /\ StepsLeft("commit", n) = 4 /\ StepsLeft("requery", n) = 4
      /\ StepsLeft("dispatch", n) = 2 /\ StepsLeft("reuse", n) = 2
      /\ StepsLeft("cleanup", n) = 1 /\ StepsLeft("answered", n) = 0
      /\ StepsLeft("failed", n) = 0 /\ StepsLeft("crashed", n) = 0
    BY <1>1, StepsLeftOf
<1>3. CASE request[r].pc \in Staging
    <2>1. n >= 1
        BY <1>1, <1>3
    <2>2. CASE At(r, "mkdir")
        BY <1>0, <1>1, <1>2, <2>1, <2>2 DEF At
    <2>3. CASE At(r, "open")
        BY <1>0, <1>1, <1>2, <2>1, <2>3 DEF At
    <2>4. CASE At(r, "stream")
        BY <1>0, <1>1, <1>2, <2>1, <2>4 DEF At
    <2> QED
        BY <1>3, <2>2, <2>3, <2>4 DEF At, Staging
<1>4. CASE request[r].pc \notin Staging
    BY <1>0, <1>2, <1>4 DEF At, Staging
<1> QED
    BY <1>3, <1>4

\* Its own step brings a request nearer to its end.
LEMMA RequestLeft ==
    ASSUME IInv, NEW r \in Requests, ~At(r, "start"), Proceeds(r) \/ Fails(r)
    PROVE  Left(r)' < Left(r) /\ request[r].pc \notin Ended
<1> DEFINE Lower == Left(r)' < Left(r) /\ request[r].pc \notin Ended
<1>1. ASSUME NEW pc \in Stage, Goto(r, pc)
      PROVE  request'[r].pc = pc /\ request'[r].staged = request[r].staged
    BY <1>1, OfRequest, GotoFacts
<1>2. ASSUME NEW b \in Existing(r), Adopt(r, b)
      PROVE  request'[r].pc = "reuse" /\ request'[r].staged = request[r].staged /\ "reuse" \in Stage
    BY <1>2, OfRequest, AdoptFacts DEF Stage
<1>3. CASE RefuseFile(r) \/ Mkdir(r) \/ Reject(r) \/ Cleanup(r)
    <2>1. PICK pc \in {"cleanup", "open", "failed"} :
              /\ Goto(r, pc)
              /\ \/ At(r, "mkdir") /\ pc \in {"cleanup", "open"}
                 \/ At(r, "stream") /\ pc = "cleanup"
                 \/ At(r, "cleanup") /\ pc = "failed"
        BY <1>3 DEF RefuseFile, Mkdir, Reject, Cleanup
    <2>2. pc \in Stage
        BY DEF Stage, Ended
    <2> QED
        BY <1>1, <2>1, <2>2, MovedLeft DEF At, Ended
<1>4. CASE Open(r)
    <2>1. PICK pc \in {"stream", "failed", "cleanup"} : At(r, "open") /\ Goto(r, pc)
        BY <1>4 DEF Open, GivenUp
    <2>2. pc \in Stage
        BY DEF Stage, Ended
    <2> QED
        BY <1>1, <2>1, <2>2, MovedLeft DEF At, Ended
<1>5. CASE Stored(r) \/ OverBudget(r)
    <2> DEFINE n == Total[r] - request[r].staged
    <2>1. At(r, "stream") /\ n \in Int /\ n >= 1
        BY <1>5, OfRequest DEF Stored, OverBudget, Progress, At, Staging
    <2>2. PICK pc \in {"mkdir", "insert", "lookup", "cleanup"} :
              /\ request' = [request EXCEPT ![r].staged = @ + 1, ![r].pc = pc]
              /\ pc = "mkdir" => request[r].staged + 1 < Total[r]
        BY <1>5 DEF Stored, OverBudget
    <2>3. pc \in Stage
        BY DEF Stage
    <2>4. request'[r].pc = pc /\ request'[r].staged = request[r].staged + 1
        BY <2>2, <2>3, OfRequest, StagedFacts
    <2>5. Left(r)' = StepsLeft(pc, n - 1) /\ Left(r) = StepsLeft("stream", n)
        BY <2>1, <2>4, OfRequest DEF Left, At
    <2> HIDE DEF n
    <2> QED
        BY <2>1, <2>5, StepsLeftOf DEF At, Ended
<1>6. CASE Lookup(r)
    <2>1. At(r, "lookup") /\ "insert" \in Stage
        BY <1>6 DEF Lookup, Stage
    <2>2. \/ \E b \in Existing(r) : Adopt(r, b)
          \/ Goto(r, "insert")
        BY <1>6 DEF Lookup
    <2> QED
        BY <1>1, <1>2, <2>1, <2>2, MovedLeft DEF At, Ended
<1>7. CASE Requery(r)
    <2>1. At(r, "requery") /\ "cleanup" \in Stage
        BY <1>7 DEF Requery, Stage
    <2>2. \/ \E b \in Existing(r) : Adopt(r, b)
          \/ Goto(r, "cleanup")
        BY <1>7 DEF Requery
    <2> QED
        BY <1>1, <1>2, <2>1, <2>2, MovedLeft DEF At, Ended
<1>8. CASE Insert(r) \/ Commit(r) \/ Dispatch(r) \/ AnswerExisting(r)
    <2>1. PICK pc \in {"commit", "requery", "dispatch", "answered"} :
              /\ Goto(r, pc)
              /\ \/ At(r, "insert") /\ pc \in {"commit", "requery"}
                 \/ At(r, "commit") /\ pc = "dispatch"
                 \/ At(r, "dispatch") /\ pc = "answered"
                 \/ At(r, "reuse") /\ pc = "answered"
        BY <1>8 DEF Insert, Commit, Dispatch, AnswerExisting
    <2>2. pc \in Stage
        BY DEF Stage, Ended
    <2> QED
        BY <1>1, <2>1, <2>2, MovedLeft DEF At, Ended
<1>9. CASE Fails(r)
    <2>1. PICK pc \in {"cleanup", "failed", "crashed"} :
              /\ Goto(r, pc)
              /\ \/ pc = "cleanup" /\ request[r].pc \in Staging \cup {"lookup", "insert", "commit", "requery"}
                 \/ pc = "failed" /\ request[r].pc \in Staging \cup {"cleanup", "reuse", "dispatch"}
                 \/ pc = "crashed" /\ request[r].pc \notin Ended \cup {"start"}
        BY <1>9 DEF Fails, Fault, CommitUnheard, StageFault, TearWrite, CleanupFails, GivenUp, Crash,
                    At, Staging
    <2>2. pc \in Stage /\ request[r].pc \in Stage
        BY OfRequest DEF Stage, Ended
    <2>3. \/ request[r].pc \in {"mkdir", "open", "stream", "cleanup", "reuse", "dispatch"}
          \/ request[r].pc \in {"lookup", "insert", "commit", "requery"}
        BY <2>1, <2>2 DEF Stage, Staging, Ended
    <2> QED
        BY <1>1, <2>1, <2>2, <2>3, MovedLeft DEF At, Ended, Staging
<1> QED
    BY <1>3, <1>4, <1>5, <1>6, <1>7, <1>8, <1>9 DEF Proceeds, Stages, Registers

\* A request is left alone by the steps of the others.
LEMMA RequestsApart ==
    ASSUME IInv, NEW q \in Requests, NEW r \in Requests, q # r,
           Refuse(r) \/ Begin(r) \/ Proceeds(r) \/ Fails(r)
    PROVE  request'[q] = request[q]
BY DEF IInv, TypeInv, Refuse, Begin, Proceeds, Stages, Registers, RefuseFile, Mkdir, Open,
       Stored, Reject, OverBudget, Cleanup, Lookup, Insert, Commit, Requery, Dispatch,
       AnswerExisting, Fails, Fault, CommitUnheard, StageFault, TearWrite, CleanupFails, Crash,
       Goto, Adopt

LEMMA NeverStarts ==
    ASSUME IInv, NEW r \in Requests, Proceeds(r) \/ Fails(r)
    PROVE  request'[r].pc # "start"
<1>1. ASSUME NEW pc \in {"open", "stream", "mkdir", "cleanup", "insert", "lookup", "commit",
                       "requery", "dispatch", "answered", "failed", "crashed", "reuse"},
             Goto(r, pc)
      PROVE  request'[r].pc # "start"
    BY <1>1 DEF Goto, IInv, TypeInv, RequestState
<1>2. ASSUME NEW b, Adopt(r, b) PROVE request'[r].pc # "start"
    BY <1>2 DEF Adopt, IInv, TypeInv, RequestState
<1>3. CASE Stored(r) \/ OverBudget(r)
    <2>1. PICK pc \in {"mkdir", "insert", "lookup", "cleanup"} :
              request' = [request EXCEPT ![r].staged = @ + 1, ![r].pc = pc]
        BY <1>3 DEF Stored, OverBudget
    <2> QED
        BY <2>1 DEF IInv, TypeInv, RequestState
<1>4. CASE RefuseFile(r) \/ Mkdir(r) \/ Open(r) \/ Reject(r) \/ Cleanup(r)
    BY <1>1, <1>4 DEF RefuseFile, Mkdir, Open, GivenUp, Reject, Cleanup
<1>5. CASE Registers(r)
    BY <1>1, <1>2, <1>5 DEF Registers, Lookup, Insert, Commit, Requery, Dispatch, AnswerExisting
<1>6. CASE Fails(r)
    BY <1>1, <1>6 DEF Fails, Fault, CommitUnheard, StageFault, TearWrite, CleanupFails, GivenUp, Crash
<1> QED
    BY <1>3, <1>4, <1>5, <1>6 DEF Proceeds, Stages

\* The steps of a request, its failures included, each leave it fewer to go,
\* whatever the others do: lost races, rollbacks and clean-ups never send it
\* back.  With its files staged it is over after six more.
THEOREM SubmissionsRunDown ==
    Spec => [][\A r \in Requests :
                  ~At(r, "start") /\ request'[r] # request[r] =>
                      /\ request[r].pc \notin Ended
                      /\ Left(r) \in 1 .. 8 + 3 * Total[r]
                      /\ Left(r)' \in 0 .. Left(r) - 1]_vars
<1> DEFINE Lower ==
        \A r \in Requests :
            ~At(r, "start") /\ request'[r] # request[r] =>
                /\ request[r].pc \notin Ended
                /\ Left(r) \in 1 .. 8 + 3 * Total[r]
                /\ Left(r)' \in 0 .. Left(r) - 1
<1>1. IInv /\ IInv' /\ [Next]_vars => Lower
    <2> SUFFICES ASSUME IInv, IInv', [Next]_vars, NEW r \in Requests,
                        ~At(r, "start"), request'[r] # request[r]
                 PROVE  /\ request[r].pc \notin Ended
                        /\ Left(r) \in 1 .. 8 + 3 * Total[r]
                        /\ Left(r)' \in 0 .. Left(r) - 1
        OBVIOUS
    <2>1. Proceeds(r) \/ Fails(r)
        <3>1. ~Refuse(r) /\ ~Begin(r)
            BY DEF Refuse, Begin, Arrives
        <3>2. ASSUME NEW x \in Item, Works(x) PROVE FALSE
            BY <3>2 DEF Works, EndTask, StrandTask, DropInput
        <3>3. ~Reconcile /\ ~UNCHANGED vars
            BY DEF Reconcile, vars
        <3> QED
            BY <3>1, <3>2, <3>3, RequestsApart DEF Next
    <2>2. Left(r)' < Left(r) /\ request[r].pc \notin Ended
        BY <2>1, RequestLeft
    <2>3. Left(r) \in 1 .. 8 + 3 * Total[r]
        <3> DEFINE n == Total[r] - request[r].staged
        <3>1. /\ request[r].pc \in Stage \ {"start"} /\ request[r].pc \notin Ended
              /\ n \in Int /\ n <= Total[r]
              /\ Total[r] \in Nat \ {0}
              /\ request[r].pc \in Staging => n >= 1
            BY <2>2, OfRequest DEF Progress, At
        <3>2. Left(r) = StepsLeft(request[r].pc, n)
            BY DEF Left
        <3> HIDE DEF n
        <3>3. /\ StepsLeft(request[r].pc, n) \in 0 .. 8 + 3 * Total[r]
              /\ StepsLeft(request[r].pc, n) >= 1
            BY <3>1, StepsLeftBounds
        <3> QED
            BY <3>2, <3>3
    <2>4. Left(r)' \in Int /\ Left(r)' >= 0
        <3> DEFINE n == Total[r] - request'[r].staged
        <3>1. /\ request' \in [Requests -> RequestState]
              /\ request'[r].pc \in Staging => request'[r].staged < Total[r]
            BY DEF IInv, TypeInv, RequestInv, Progress
        <3>2. request'[r].pc # "start"
            BY <2>1, NeverStarts
        <3>3. /\ request'[r].pc \in Stage \ {"start"}
              /\ n \in Int /\ n <= Total[r]
              /\ Total[r] \in Nat \ {0}
              /\ request'[r].pc \in Staging => n >= 1
            BY <3>1, <3>2, OfRequest DEF RequestState
        <3>4. Left(r)' = StepsLeft(request'[r].pc, n)
            BY DEF Left
        <3> HIDE DEF n
        <3>5. StepsLeft(request'[r].pc, n) \in 0 .. 8 + 3 * Total[r]
            BY <3>3, StepsLeftBounds
        <3>6. /\ StepsLeft(request'[r].pc, n) \in Int
              /\ StepsLeft(request'[r].pc, n) >= 0
            BY <3>3, <3>5
        <3> QED
            BY <3>4, <3>6
    <2> QED
        BY <2>2, <2>3, <2>4
<1>2. IInv /\ IInv' /\ [Next]_vars => [Lower]_vars
    BY <1>1
<1> QED
    BY <1>2, SubmissionInvariant, PTL DEF Spec

\* Who waits in its insert waits for one other submission, which has its
\* entry in the index and waits for nobody: there is no second transaction
\* with the key, and no batch of the key that could come first.
THEOREM TheKeyHasOneHolder ==
    Spec => [](\A r \in Requests :
                  At(r, "insert") /\ Blocked(r) =>
                      /\ Existing(r) = {}
                      /\ \E q \in Requests \ {r} :
                            \A p \in Requests :
                                At(p, "commit") /\ Key[p] = Key[r] <=> p = q)
<1> DEFINE OneHolder ==
        \A r \in Requests :
            At(r, "insert") /\ Blocked(r) =>
                /\ Existing(r) = {}
                /\ \E q \in Requests \ {r} :
                      \A p \in Requests :
                          At(p, "commit") /\ Key[p] = Key[r] <=> p = q
<1>1. IInv => OneHolder
    <2> SUFFICES ASSUME IInv, NEW r \in Requests, At(r, "insert"), Blocked(r)
                 PROVE  /\ Existing(r) = {}
                        /\ \E q \in Requests \ {r} :
                              \A p \in Requests :
                                  At(p, "commit") /\ Key[p] = Key[r] <=> p = q
        OBVIOUS
    <2>1. PICK q \in Requests : At(q, "commit") /\ Key[q] = Key[r] /\ Key[r] # NoKey
        BY DEF Blocked
    <2>2. q # r
        BY <2>1 DEF At
    <2>3. /\ Existing(q) = {}
          /\ \A p \in Requests : At(p, "commit") /\ Key[p] = Key[q] => p = q
        BY <2>1 DEF IInv, KeysHeld
    <2> QED
        BY <2>1, <2>2, <2>3 DEF Existing
<1> QED
    BY <1>1, SubmissionInvariant, PTL

-----------------------------------------------------------------------------
(* That nobody waits for ever.  NobodyWaitsForever speaks of ENABLED;      *)
(* here a step is named for every state that is asked for one.             *)

\* In progress, and not waiting for the key in its insert.
Ready(r) ==
    /\ request[r].pc \notin Ended \cup {"start"}
    /\ At(r, "insert") => ~Blocked(r)

\* The next step of r when no file is turned down and nothing gets to the
\* broker.  It gives every variable one value, so there always is a state
\* for r to go on to.
NextRequest(r) ==
    LET there == Existing(r)
        to(pc) == [request EXCEPT ![r].pc = pc]
        adopted == [request EXCEPT ![r].pc = "reuse", ![r].batch = CHOOSE b \in there : TRUE]
    IN  CASE At(r, "mkdir") -> to("open")
          [] At(r, "open") -> to(IF Dir(r) \in dirs THEN "stream"
                                 ELSE IF r \in Singles THEN "failed" ELSE "cleanup")
          [] At(r, "stream") ->
                [request EXCEPT
                    ![r].staged = @ + 1,
                    ![r].pc = IF request[r].staged + 1 < Total[r] THEN "mkdir"
                              ELSE IF Key[r] = NoKey THEN "insert" ELSE "lookup"]
          [] At(r, "lookup") -> IF there = {} THEN to("insert") ELSE adopted
          [] At(r, "insert") -> to(IF there = {} THEN "commit" ELSE "requery")
          [] At(r, "commit") -> to("dispatch")
          [] At(r, "requery") -> IF there = {} THEN to("cleanup") ELSE adopted
          [] At(r, "cleanup") -> to("failed")
          [] OTHER -> to("answered")

GoesOn(r) ==
    /\ request' = NextRequest(r)
    /\ CASE At(r, "mkdir") -> dirs' = dirs \cup {Dir(r)} /\ files' = files
         [] At(r, "open") /\ Dir(r) \in dirs ->
                files' = files \cup {<<r, request[r].staged + 1>>} /\ dirs' = dirs
         [] At(r, "cleanup") -> DeleteStaged(r, request[r].staged)
         [] OTHER -> dirs' = dirs /\ files' = files
    /\ IF At(r, "commit") THEN Register(r)
                          ELSE committed' = committed /\ task' = task /\ outbox' = outbox
    /\ mishap' = mishap /\ faults' = faults

\* Whoever is in progress and not blocked has a step of its own to take.
LEMMA ReadyRequestsCanGoOn ==
    ASSUME TypeOK, NEW r \in Requests, Ready(r), GoesOn(r)
    PROVE  Proceeds(r)
<1>0. request[r].pc \in Stage \ (Ended \cup {"start"}) /\ request[r].staged \in Nat
    BY DEF TypeOK, RequestState, Ready
<1>p. ASSUME NEW X, outbox' = outbox PROVE Publish(X)
    <2> SUFFICES \E S \in SUBSET {x \in X : outbox[x] = "pending"} :
                    outbox' = [x \in Item |-> IF x \in S THEN "dispatched" ELSE outbox[x]]
        BY DEF Publish
    <2> WITNESS {} \in SUBSET {x \in X : outbox[x] = "pending"}
    <2> QED
        BY <1>p DEF TypeOK
<1>e. Existing(r) # {} => (CHOOSE b \in Existing(r) : TRUE) \in Existing(r)
    OBVIOUS
<1>1. CASE At(r, "mkdir")
    <2>1. Mkdir(r)
        BY <1>1 DEF GoesOn, NextRequest, Mkdir, Goto, At, rows
    <2> QED
        BY <2>1 DEF Proceeds, Stages
<1>2. CASE At(r, "open")
    <2>1. Open(r)
        BY <1>2 DEF GoesOn, NextRequest, Open, GivenUp, Goto, At, rows
    <2> QED
        BY <2>1 DEF Proceeds, Stages
<1>3. CASE At(r, "stream")
    <2>1. Stored(r)
        BY <1>3 DEF GoesOn, NextRequest, Stored, At, rows, disk
    <2> QED
        BY <2>1 DEF Proceeds, Stages
<1>4. CASE At(r, "lookup")
    <2>1. Lookup(r)
        BY <1>4, <1>e DEF GoesOn, NextRequest, Lookup, Adopt, Goto, At, rows, disk
    <2> QED
        BY <2>1 DEF Proceeds, Registers
<1>5. CASE At(r, "insert")
    <2>1. Insert(r)
        BY <1>5 DEF GoesOn, NextRequest, Insert, Ready, Goto, At, rows, disk
    <2> QED
        BY <2>1 DEF Proceeds, Registers
<1>6. CASE At(r, "commit")
    <2>1. Commit(r)
        BY <1>6 DEF GoesOn, NextRequest, Commit, Goto, At, disk
    <2> QED
        BY <2>1 DEF Proceeds, Registers
<1>7. CASE At(r, "requery")
    <2>1. Requery(r)
        BY <1>7, <1>e DEF GoesOn, NextRequest, Requery, Adopt, Goto, At, rows, disk
    <2> QED
        BY <2>1 DEF Proceeds, Registers
<1>8. CASE At(r, "cleanup")
    <2>1. Cleanup(r)
        BY <1>0, <1>8 DEF GoesOn, NextRequest, Cleanup, Goto, At, rows, disk
    <2> QED
        BY <2>1 DEF Proceeds, Stages
<1>9. CASE At(r, "reuse")
    <2>1. AnswerExisting(r)
        BY <1>9, <1>p DEF GoesOn, NextRequest, AnswerExisting, Goto, At, disk
    <2> QED
        BY <2>1 DEF Proceeds, Registers
<1>10. CASE At(r, "dispatch")
    <2>1. Dispatch(r)
        BY <1>10, <1>p DEF GoesOn, NextRequest, Dispatch, Goto, At, disk
    <2> QED
        BY <2>1 DEF Proceeds, Registers
<1> QED
    BY <1>0, <1>1, <1>2, <1>3, <1>4, <1>5, <1>6, <1>7, <1>8, <1>9, <1>10 DEF Stage, At

\* NobodyWaitsForever for any number of submissions, without ENABLED: of a
\* submission in progress, itself or one of its key is ready, and goes on.
THEOREM SomebodyCanGoOn ==
    ASSUME TypeOK, NEW r \in Requests, request[r].pc \notin Ended \cup {"start"}
    PROVE  \E q \in Requests :
               Key[q] = Key[r] /\ Ready(q) /\ (GoesOn(q) => Proceeds(q))
<1>1. ASSUME NEW q \in Requests, Ready(q) PROVE GoesOn(q) => Proceeds(q)
    BY <1>1, ReadyRequestsCanGoOn
<1>2. \E q \in Requests : Key[q] = Key[r] /\ Ready(q)
    <2>1. CASE Ready(r)
        BY <2>1
    <2>2. CASE ~Ready(r)
        <3>1. PICK q \in Requests : At(q, "commit") /\ Key[q] = Key[r]
            BY <2>2 DEF Ready, Blocked
        <3>2. Ready(q)
            BY <3>1 DEF Ready, At, Ended
        <3> QED
            BY <3>1, <3>2
    <2> QED
        BY <2>1, <2>2
<1> QED
    BY <1>1, <1>2

=============================================================================
