------------------------ MODULE OperationsViewsProofs ------------------------
(***************************************************************************)
(* Theorems about OperationsViews, for batches of every size, every        *)
(* lifetime of the cache and every value of the bounds.                    *)
(***************************************************************************)
EXTENDS OperationsViews, FiniteSetTheorems, TLAPS

-----------------------------------------------------------------------------
(* The derived status, without the counts.                                 *)

LEMMA CountFacts ==
    ASSUME NEW f, NEW s
    PROVE  /\ Count(f, s) \in Nat
           /\ Count(f, s) = total_tasks <=> \A t \in Tasks : f[t] = s
           /\ Count(f, s) > 0 <=> \E t \in Tasks : f[t] = s
<1> DEFINE S == {t \in Tasks : f[t] = s}
<1>1. IsFiniteSet(Tasks) /\ S \in SUBSET Tasks
    BY ViewsAssumption DEF ViewsAssumption
<1>2. IsFiniteSet(S) /\ (Cardinality(Tasks) = Cardinality(S) => Tasks = S)
    BY <1>1, FS_Subset
<1>3. Cardinality(S) \in Nat /\ (Cardinality(S) = 0 <=> S = {})
    BY <1>2, FS_CardinalityType, FS_EmptySet
<1>4. Cardinality(S) = Cardinality(Tasks) <=> \A t \in Tasks : f[t] = s
    BY <1>2
<1>5. Cardinality(S) > 0 <=> \E t \in Tasks : f[t] = s
    BY <1>3
<1> QED
    BY <1>3, <1>4, <1>5 DEF Count, total_tasks

LEMMA StatusFacts ==
    ASSUME NEW f \in [Tasks -> Status]
    PROVE  /\ BatchStatus(f) \in BatchStatuses
           /\ BatchStatus(f) = "queued" <=> \A t \in Tasks : f[t] = "queued"
           /\ \A e \in Terminal : BatchStatus(f) = e <=> \A t \in Tasks : f[t] = e
           /\ BatchStatus(f) \in {"queued", "running"} <=> \E t \in Tasks : f[t] \notin Terminal
<1> DEFINE all(s) == \A t \in Tasks : f[t] = s
           some(s) == \E t \in Tasks : f[t] = s
<1>1. BatchStatus(f) =
          IF all("cancelled") THEN "cancelled"
          ELSE IF all("completed") THEN "completed"
          ELSE IF all("failed") THEN "failed"
          ELSE IF all("queued") THEN "queued"
          ELSE IF some("running") \/ some("queued") THEN "running"
          ELSE "partial"
    <2>1. \A s : Count(f, s) = total_tasks <=> all(s)
        BY CountFacts
    <2>2. \A s : Count(f, s) > 0 <=> some(s)
        BY CountFacts
    <2> HIDE DEF all, some
    <2> QED
        BY <2>1, <2>2 DEF BatchStatus
<1>2. PICK u \in Tasks : TRUE
    BY ViewsAssumption DEF ViewsAssumption
<1>3. \A t \in Tasks : f[t] \in Status
    OBVIOUS
<1>4. \A s, e : all(s) /\ all(e) => s = e
    BY <1>2
<1>5. (\E t \in Tasks : f[t] \notin Terminal) <=> some("running") \/ some("queued")
    BY <1>3 DEF Status, Terminal
<1>6. \A s : all(s) => some(s)
    BY <1>2
<1>7. \A s \in {"running", "queued"} : some(s) => \A e \in Terminal : ~ all(e)
    BY DEF Terminal
<1> HIDE DEF all, some
<1>8. BatchStatus(f) = "queued" <=> all("queued")
    BY <1>1, <1>4
<1>9. \A e \in Terminal : BatchStatus(f) = e <=> all(e)
    BY <1>1, <1>4 DEF Terminal
<1>10. BatchStatus(f) \in {"queued", "running"} <=> some("running") \/ some("queued")
    BY <1>1, <1>6, <1>7 DEF Terminal
<1>11. BatchStatus(f) \in BatchStatuses
    BY <1>1 DEF BatchStatuses, Status
<1> QED
    BY <1>5, <1>8, <1>9, <1>10, <1>11 DEF all

-----------------------------------------------------------------------------
(* The inductive invariant.                                                *)

TypeInv ==
    /\ task \in [Tasks -> Status]
    /\ row \in [Tasks -> RowStatus]
    /\ clock \in Nat
    /\ reader \in ReaderState /\ reader.polls <= MaxPolls
    /\ cache \in [payload : Payload, expires_at : Nat]
    /\ stale \in Nat /\ faults \in Nat

\* Each kind of view has its own stages.
Stages ==
    reader.pc \in IF reader.kind = "batch"
                  THEN {"idle", "status", "tasks", "decide", "details", "done"}
                  ELSE {"idle", "pending", "waiting", "done"}
                           \cup (IF reader.kind = "metrics" THEN {"store"} ELSE {})

\* The end of a batch is seen after it, and lasts.
EndSeen ==
    reader.kind = "batch" /\ reader.status \in Terminal =>
        /\ reader.pc \in {"tasks", "decide", "details", "done"}
        /\ stale = 0 =>
            /\ \A t \in Tasks : task[t] = reader.status
            /\ reader.pc # "tasks" => \A t \in Tasks : reader.list[t] = reader.status

\* Where a task that waits is found: in the first list, or not yet read, or
\* in the second.
Covered(pending, waiting) == \A t \in Tasks : task[t] = "queued" => t \in pending \cup waiting

Found ==
    faults = 0 =>
        /\ reader.pc = "waiting" =>
               \A t \in Tasks : t \notin reader.pending => row[t] = "dispatched"
        /\ reader.kind # "batch" /\ reader.pc \in {"store", "done"} =>
               Covered(reader.pending, reader.waiting)
        /\ cache.expires_at > 0 => Covered(cache.payload.pending, cache.payload.waiting)

\* The times of a build are in order.
Times ==
    /\ reader.kind = "metrics" =>
        /\ reader.pc \in {"pending", "waiting", "store"} => reader.started <= clock
        /\ reader.pc \in {"waiting", "store"} => reader.started <= reader.read
        /\ reader.pc = "done" => reader.started < reader.read + Lifetime
    /\ cache.expires_at > 0 => cache.expires_at <= cache.payload.read + Lifetime

IInv == TypeInv /\ Stages /\ EndSeen /\ Found /\ Times

-----------------------------------------------------------------------------
(* The parts of the invariant hold initially and are kept.                 *)

LEMMA LifetimeFacts == Lifetime \in Nat /\ Lifetime > 0
BY ViewsAssumption DEF Lifetime, ViewsAssumption

LEMMA IdleFacts ==
    ASSUME NEW kind \in {"batch", "summary", "metrics"}
    PROVE  /\ Idle(kind) \in ReaderState
           /\ Idle(kind).kind = kind /\ Idle(kind).pc = "idle"
           /\ Idle(kind).status = "queued" /\ Idle(kind).polls = 0
BY DEF Idle, ReaderState, AllQueued, BatchStatuses, Status

LEMMA InitIInv == Init => IInv
<1> SUFFICES ASSUME Init PROVE IInv
    OBVIOUS
<1>1. PICK kind \in {"batch", "summary", "metrics"} : reader = Idle(kind)
    BY DEF Init
<1>2. /\ reader \in ReaderState /\ reader.pc = "idle" /\ reader.status = "queued"
      /\ reader.polls = 0 /\ reader.kind \in {"batch", "summary", "metrics"}
    BY <1>1, IdleFacts
<1>3. cache \in [payload : Payload, expires_at : Nat] /\ cache.expires_at = 0
    BY DEF Init, Payload, NoPayload
<1>4. TypeInv
    BY <1>2, <1>3, ViewsAssumption
       DEF Init, TypeInv, AllQueued, Status, RowStatus, ViewsAssumption
<1> QED
    BY <1>2, <1>3, <1>4 DEF IInv, Stages, EndSeen, Found, Times, Terminal

\* What goes on meanwhile, as far as the readers are concerned: no task goes
\* back to the queue, ends are final, and dispatches are, but for faults.
Meanwhile ==
    /\ UNCHANGED <<reader, cache>>
    /\ task' \in [Tasks -> Status] /\ row' \in [Tasks -> RowStatus]
    /\ \A t \in Tasks : task'[t] = "queued" => task[t] = "queued"
    /\ stale' \in Nat /\ faults' \in Nat
    /\ stale' = 0 => stale = 0 /\ \A t \in Tasks : task[t] \in Terminal => task'[t] = task[t]
    /\ faults' = 0 =>
           faults = 0 /\ \A t \in Tasks : row[t] = "dispatched" => row'[t] = "dispatched"
    /\ clock' \in Nat /\ clock' >= clock

LEMMA MoveFacts ==
    ASSUME TypeInv, NEW t \in Tasks, MoveTask(t)
    PROVE  /\ task' \in [Tasks -> Status]
           /\ task[t] \notin Terminal /\ task'[t] # "queued"
           /\ \A u \in Tasks \ {t} : task'[u] = task[u]
<1>1. PICK s \in TASK_TRANSITIONS[task[t]] : task' = [task EXCEPT ![t] = s]
    BY DEF MoveTask
<1>2. task[t] \in Status
    BY DEF TypeInv
<1>3. s \in Status \ {"queued"} /\ task[t] \notin Terminal
    BY <1>1, <1>2 DEF TASK_TRANSITIONS, Status, Terminal
<1> QED
    BY <1>1, <1>3 DEF TypeInv

LEMMA WorldMoves ==
    ASSUME TypeInv,
           \/ \E t \in Tasks : MoveTask(t) \/ OverwriteTask(t) \/ DispatchRow(t) \/ UndoDispatch(t)
           \/ Tick
           \/ UNCHANGED vars
    PROVE  Meanwhile
<1>1. ASSUME NEW t \in Tasks, MoveTask(t) PROVE Meanwhile
    <2>1. UNCHANGED <<row, clock, reader, cache, stale, faults>>
        BY <1>1 DEF MoveTask
    <2> QED
        BY <1>1, <2>1, MoveFacts DEF TypeInv, Meanwhile
<1>2. ASSUME NEW t \in Tasks, OverwriteTask(t) PROVE Meanwhile
    BY <1>2 DEF OverwriteTask, TypeInv, Meanwhile, Terminal, Status
<1>3. ASSUME NEW t \in Tasks, DispatchRow(t) PROVE Meanwhile
    BY <1>3 DEF DispatchRow, TypeInv, Meanwhile, RowStatus
<1>4. ASSUME NEW t \in Tasks, UndoDispatch(t) PROVE Meanwhile
    BY <1>4 DEF UndoDispatch, TypeInv, Meanwhile, RowStatus
<1>5. CASE Tick
    BY <1>5 DEF Tick, database, TypeInv, Meanwhile
<1>6. CASE UNCHANGED vars
    BY <1>6 DEF vars, TypeInv, Meanwhile
<1> QED
    BY <1>1, <1>2, <1>3, <1>4, <1>5, <1>6

LEMMA MeanwhileStep == ASSUME IInv, Meanwhile PROVE IInv'
<1>1. TypeInv' /\ Stages'
    BY DEF IInv, TypeInv, Stages, Meanwhile
<1>2. EndSeen'
    BY DEF IInv, EndSeen, Meanwhile
<1>3. Found'
    BY DEF IInv, Found, Covered, Meanwhile
<1>4. Times'
    BY DEF IInv, TypeInv, ReaderState, Times, Meanwhile, Lifetime
<1> QED
    BY <1>1, <1>2, <1>3, <1>4 DEF IInv

LEMMA AfterFacts ==
    /\ reader.kind = "batch" => After("status") = "tasks" /\ After("tasks") = "decide"
    /\ reader.kind = "summary" => After("pending") = "waiting" /\ After("waiting") = "done"
    /\ reader.kind = "metrics" => After("pending") = "waiting" /\ After("waiting") = "store"
    /\ Selects("batch")[1] = "status" /\ Selects("summary")[1] = "pending"
    /\ Selects("metrics")[1] = "pending"
BY DEF After, Selects

\* What the invariant says of the reader.
LEMMA ReaderFacts ==
    ASSUME IInv
    PROVE  /\ TypeInv /\ reader \in ReaderState
           /\ reader.kind \in {"batch", "summary", "metrics"}
           /\ reader.kind = "batch" =>
                 reader.pc \in {"idle", "status", "tasks", "decide", "details", "done"}
           /\ reader.kind = "summary" => reader.pc \in {"idle", "pending", "waiting", "done"}
           /\ reader.kind = "metrics" =>
                 reader.pc \in {"idle", "pending", "waiting", "store", "done"}
BY DEF IInv, TypeInv, ReaderState, Stages

-----------------------------------------------------------------------------
(* The steps of the reader.                                                *)

\* A read that leaves the database and the cache alone.
Read == UNCHANGED <<task, row, stale, faults, clock, cache>>

LEMMA AskStep == ASSUME IInv, Ask PROVE IInv'
<1> DEFINE pc == Selects(reader.kind)[1]
           next == [Idle(reader.kind) EXCEPT !.pc = pc]
<1>1. /\ reader.kind # "metrics" /\ reader' = next /\ Read
    BY DEF Ask, database, Read
<1>2. /\ reader.kind = "batch" => pc = "status"
      /\ reader.kind = "summary" => pc = "pending"
    BY AfterFacts
<1>3. pc \in {"status", "pending"}
    BY <1>1, <1>2, ReaderFacts
<1> HIDE DEF pc
<1>4. /\ next \in ReaderState /\ next.kind = reader.kind /\ next.pc = pc
      /\ next.status = "queued" /\ next.polls = 0
    BY <1>3, ReaderFacts, IdleFacts DEF ReaderState
<1> HIDE DEF next
<1>5. TypeInv'
    BY <1>1, <1>4, ReaderFacts, ViewsAssumption DEF TypeInv, Read, ViewsAssumption
<1>6. Stages' /\ EndSeen' /\ Found' /\ Times'
    BY <1>1, <1>2, <1>3, <1>4, ReaderFacts
       DEF IInv, Stages, EndSeen, Found, Covered, Times, Read, Terminal, Lifetime
<1> QED
    BY <1>5, <1>6 DEF IInv

LEMMA StatusStep == ASSUME IInv, ReadStatus PROVE IInv'
<1> DEFINE s == BatchStatus(task)
           next == [reader EXCEPT !.status = s, !.pc = "tasks"]
<1>1. reader.kind = "batch" /\ reader.pc = "status" /\ Read
    BY ReaderFacts DEF ReadStatus, database, Read
<1>2. reader' = next
    BY <1>1, AfterFacts DEF ReadStatus
<1>3. s \in BatchStatuses /\ \A e \in Terminal : s = e => \A t \in Tasks : task[t] = e
    BY ReaderFacts, StatusFacts DEF TypeInv
<1> HIDE DEF s
<1>4. /\ next \in ReaderState /\ next.kind = "batch" /\ next.pc = "tasks"
      /\ next.status = s /\ next.polls = reader.polls
    BY <1>1, <1>3, ReaderFacts DEF ReaderState
<1> HIDE DEF next
<1>5. TypeInv'
    BY <1>1, <1>2, <1>4, ReaderFacts DEF TypeInv, Read
<1>6. EndSeen'
    BY <1>1, <1>2, <1>3, <1>4 DEF EndSeen, Read
<1>7. Stages' /\ Found' /\ Times'
    BY <1>1, <1>2, <1>4 DEF IInv, Stages, Found, Covered, Times, Read, Lifetime
<1> QED
    BY <1>5, <1>6, <1>7 DEF IInv

LEMMA TasksStep == ASSUME IInv, ReadTasks PROVE IInv'
<1> DEFINE next == [reader EXCEPT !.list = task, !.pc = "decide"]
<1>1. reader.kind = "batch" /\ reader.pc = "tasks" /\ Read
    BY ReaderFacts DEF ReadTasks, database, Read
<1>2. reader' = next
    BY <1>1, AfterFacts DEF ReadTasks
<1>3. /\ next \in ReaderState /\ next.kind = "batch" /\ next.pc = "decide"
      /\ next.status = reader.status /\ next.polls = reader.polls /\ next.list = task
    BY <1>1, ReaderFacts DEF ReaderState, TypeInv
<1> HIDE DEF next
<1>4. TypeInv'
    BY <1>1, <1>2, <1>3, ReaderFacts DEF TypeInv, Read
<1>5. EndSeen'
    BY <1>1, <1>2, <1>3 DEF IInv, EndSeen, Read
<1>6. Stages' /\ Found' /\ Times'
    BY <1>1, <1>2, <1>3 DEF IInv, Stages, Found, Covered, Times, Read, Lifetime
<1> QED
    BY <1>4, <1>5, <1>6 DEF IInv

LEMMA DecideStep == ASSUME IInv, Decide PROVE IInv'
<1>1. reader.kind = "batch" /\ reader.pc = "decide" /\ Read
    BY ReaderFacts DEF Decide, database, Read
<1>2. ASSUME NEW pc \in {"details", "done"}, reader' = [reader EXCEPT !.pc = pc]
      PROVE  IInv'
    <2>1. /\ reader' \in ReaderState /\ reader'.kind = "batch" /\ reader'.pc = pc
          /\ reader'.status = reader.status /\ reader'.polls = reader.polls
          /\ reader'.list = reader.list
        BY <1>1, <1>2, ReaderFacts DEF ReaderState
    <2>2. TypeInv'
        BY <1>1, <2>1, ReaderFacts DEF TypeInv, Read
    <2>3. EndSeen'
        BY <1>1, <1>2, <2>1 DEF IInv, EndSeen, Read
    <2>4. Stages' /\ Found' /\ Times'
        BY <1>1, <1>2, <2>1 DEF IInv, Stages, Found, Covered, Times, Read, Lifetime
    <2> QED
        BY <2>2, <2>3, <2>4 DEF IInv
<1>3. CASE /\ reader.status \notin Terminal /\ reader.polls < MaxPolls
           /\ reader' = [reader EXCEPT !.polls = @ + 1, !.pc = "status"]
    <2>0. reader.polls \in Nat /\ reader.polls + 1 \in Nat /\ reader.polls + 1 <= MaxPolls
        BY <1>3, ReaderFacts, ViewsAssumption DEF ReaderState, ViewsAssumption
    <2>1. /\ reader' \in ReaderState /\ reader'.kind = "batch" /\ reader'.pc = "status"
          /\ reader'.status = reader.status /\ reader'.polls = reader.polls + 1
        BY <1>1, <1>3, <2>0, ReaderFacts DEF ReaderState
    <2>2. TypeInv'
        BY <1>1, <2>0, <2>1, ReaderFacts DEF TypeInv, Read
    <2>3. Stages' /\ EndSeen' /\ Found' /\ Times'
        BY <1>1, <1>3, <2>1 DEF IInv, Stages, EndSeen, Found, Covered, Times, Read, Lifetime
    <2> QED
        BY <2>2, <2>3 DEF IInv
<1>4. reader.polls \in Nat /\ MaxPolls \in Nat
    BY ReaderFacts, ViewsAssumption DEF ReaderState, ViewsAssumption
<1>5. \/ \E pc \in {"details", "done"} : reader' = [reader EXCEPT !.pc = pc]
      \/ /\ reader.status \notin Terminal /\ reader.polls < MaxPolls
         /\ reader' = [reader EXCEPT !.polls = @ + 1, !.pc = "status"]
    <2>1. Selects("batch")[1] = "status"
        BY DEF Selects
    <2>2. CASE reader.status \in Terminal
        BY <2>2 DEF Decide
    <2>3. CASE reader.status \notin Terminal /\ reader.polls >= MaxPolls
        BY <2>3 DEF Decide
    <2>4. CASE reader.status \notin Terminal /\ reader.polls < MaxPolls
        BY <1>4, <2>1, <2>4 DEF Decide
    <2> QED
        BY <1>4, <2>2, <2>3, <2>4
<1> QED
    BY <1>2, <1>3, <1>5

LEMMA DetailsStep == ASSUME IInv, ReadDetails PROVE IInv'
<1>1. reader.kind = "batch" /\ reader.pc = "details" /\ Read
    BY ReaderFacts DEF ReadDetails, database, Read
<1>2. reader' = [reader EXCEPT !.list = task, !.pc = "done"]
    BY DEF ReadDetails
<1>3. /\ reader' \in ReaderState /\ reader'.kind = "batch" /\ reader'.pc = "done"
      /\ reader'.status = reader.status /\ reader'.polls = reader.polls /\ reader'.list = task
    BY <1>1, <1>2, ReaderFacts DEF ReaderState, TypeInv
<1>4. TypeInv'
    BY <1>1, <1>3, ReaderFacts DEF TypeInv, Read
<1>5. EndSeen'
    BY <1>1, <1>3 DEF IInv, EndSeen, Read
<1>6. Stages' /\ Found' /\ Times'
    BY <1>1, <1>3 DEF IInv, Stages, Found, Covered, Times, Read, Lifetime
<1> QED
    BY <1>4, <1>5, <1>6 DEF IInv

LEMMA PendingStep == ASSUME IInv, ReadPending PROVE IInv'
<1> DEFINE pc == After("pending")
<1>1. reader.kind # "batch" /\ reader.pc = "pending" /\ Read /\ pc = "waiting"
    BY ReaderFacts, AfterFacts DEF ReadPending, database, Read
<1>2. reader' = [reader EXCEPT !.pending = Pending, !.read = clock, !.pc = "waiting"]
    BY <1>1 DEF ReadPending
<1>3. Pending \in SUBSET Tasks /\ clock \in Nat
    BY ReaderFacts DEF Pending, TypeInv
<1>4. /\ reader' \in ReaderState /\ reader'.kind = reader.kind /\ reader'.pc = "waiting"
      /\ reader'.polls = reader.polls /\ reader'.pending = Pending
      /\ reader'.read = clock /\ reader'.started = reader.started
    BY <1>1, <1>2, <1>3, ReaderFacts DEF ReaderState
<1>5. TypeInv'
    BY <1>1, <1>4, ReaderFacts DEF TypeInv, Read
<1>6. \A t \in Tasks : t \notin Pending => row[t] = "dispatched"
    BY ReaderFacts DEF Pending, TypeInv, RowStatus
<1>7. Found'
    BY <1>1, <1>4, <1>6 DEF IInv, Found, Covered, Read
<1>8. Stages' /\ EndSeen' /\ Times'
    BY <1>1, <1>4, ReaderFacts DEF IInv, Stages, EndSeen, Times, Read, Lifetime
<1> QED
    BY <1>5, <1>7, <1>8 DEF IInv

LEMMA WaitingStep == ASSUME IInv, ReadWaiting PROVE IInv'
<1>1. /\ reader.pc = "waiting" /\ Read
      /\ \/ reader.kind = "summary" /\ After("waiting") = "done"
         \/ reader.kind = "metrics" /\ After("waiting") = "store"
    BY ReaderFacts, AfterFacts DEF ReadWaiting, database, Read
<1>2. PICK pc \in {"done", "store"} :
          /\ reader' = [reader EXCEPT !.waiting = Waiting, !.pc = pc]
          /\ \/ reader.kind = "summary" /\ pc = "done"
             \/ reader.kind = "metrics" /\ pc = "store"
    BY <1>1 DEF ReadWaiting
<1>3. Waiting \in SUBSET Tasks
    BY DEF Waiting
<1>4. /\ reader' \in ReaderState /\ reader'.kind = reader.kind /\ reader'.pc = pc
      /\ reader'.polls = reader.polls /\ reader'.pending = reader.pending
      /\ reader'.waiting = Waiting
      /\ reader'.read = reader.read /\ reader'.started = reader.started
    BY <1>1, <1>2, <1>3, ReaderFacts DEF ReaderState
<1>5. TypeInv'
    BY <1>1, <1>4, ReaderFacts DEF TypeInv, Read
<1>6. faults = 0 => Covered(reader.pending, Waiting)
    BY <1>1 DEF IInv, Found, Covered, Waiting
<1>7. Found'
    BY <1>1, <1>2, <1>4, <1>6 DEF IInv, Found, Covered, Read
<1>8. Stages' /\ EndSeen' /\ Times'
    BY <1>1, <1>2, <1>4 DEF IInv, Stages, EndSeen, Times, Read, Lifetime
<1> QED
    BY <1>5, <1>7, <1>8 DEF IInv

LEMMA ScrapeStep == ASSUME IInv, Scrape PROVE IInv'
<1>1. reader.kind = "metrics" /\ Read
    BY DEF Scrape, database, Read
<1>2. CASE /\ clock < cache.expires_at
           /\ reader' = [Idle("metrics") EXCEPT !.pc = "done", !.started = clock,
                                                !.pending = cache.payload.pending,
                                                !.waiting = cache.payload.waiting,
                                                !.read = cache.payload.read]
    <2>1. /\ clock \in Nat /\ cache.expires_at \in Nat /\ cache.payload \in Payload
          /\ cache.payload.pending \in SUBSET Tasks /\ cache.payload.waiting \in SUBSET Tasks
          /\ cache.payload.read \in Nat
        BY ReaderFacts DEF TypeInv, Payload
    <2>2. /\ reader' \in ReaderState /\ reader'.kind = "metrics" /\ reader'.pc = "done"
          /\ reader'.polls = 0 /\ reader'.pending = cache.payload.pending
          /\ reader'.waiting = cache.payload.waiting
          /\ reader'.read = cache.payload.read /\ reader'.started = clock
        BY <1>2, <2>1, IdleFacts DEF ReaderState
    <2>3. TypeInv'
        BY <1>1, <2>2, ReaderFacts, ViewsAssumption DEF TypeInv, Read, ViewsAssumption
    <2>4. cache.expires_at > 0
        BY <1>2, <2>1
    <2>5. Found'
        BY <1>1, <2>2, <2>4 DEF IInv, Found, Covered, Read
    <2>6. clock < cache.payload.read + Lifetime
        BY <1>2, <2>1, <2>4, LifetimeFacts DEF IInv, Times
    <2>7. Stages' /\ EndSeen' /\ Times'
        BY <1>1, <2>2, <2>6 DEF IInv, Stages, EndSeen, Times, Read, Lifetime
    <2> QED
        BY <2>3, <2>5, <2>7 DEF IInv
<1>3. CASE reader' = [Idle("metrics") EXCEPT !.pc = "pending", !.started = clock]
    <2>1. clock \in Nat
        BY ReaderFacts DEF TypeInv
    <2>2. /\ reader' \in ReaderState /\ reader'.kind = "metrics" /\ reader'.pc = "pending"
          /\ reader'.polls = 0 /\ reader'.started = clock
        BY <1>3, <2>1, IdleFacts DEF ReaderState
    <2>3. TypeInv'
        BY <1>1, <2>2, ReaderFacts, ViewsAssumption DEF TypeInv, Read, ViewsAssumption
    <2>4. Stages' /\ EndSeen' /\ Found' /\ Times'
        BY <1>1, <2>1, <2>2 DEF IInv, Stages, EndSeen, Found, Covered, Times, Read, Lifetime
    <2> QED
        BY <2>3, <2>4 DEF IInv
<1> QED
    BY <1>2, <1>3, AfterFacts DEF Scrape

LEMMA StoreStep == ASSUME IInv, Store PROVE IInv'
<1>1. /\ reader.pc = "store" /\ reader.kind = "metrics"
      /\ reader' = [reader EXCEPT !.pc = "done"]
      /\ cache' = [payload |-> Built, expires_at |-> reader.started + Lifetime]
      /\ UNCHANGED <<task, row, stale, faults, clock>>
    BY ReaderFacts DEF Store, database
<1>2. /\ reader' \in ReaderState /\ reader'.kind = "metrics" /\ reader'.pc = "done"
      /\ reader'.polls = reader.polls /\ reader'.pending = reader.pending
      /\ reader'.waiting = reader.waiting /\ reader'.read = reader.read
      /\ reader'.started = reader.started
      /\ reader.started \in Nat /\ reader.read \in Nat
    BY <1>1, ReaderFacts DEF ReaderState
<1>3. Built \in Payload
    BY ReaderFacts DEF Built, Payload, ReaderState
<1>4. /\ cache' \in [payload : Payload, expires_at : Nat]
      /\ cache'.expires_at = reader.started + Lifetime
      /\ cache'.payload = Built
    BY <1>1, <1>2, <1>3, LifetimeFacts
<1>5. TypeInv'
    BY <1>1, <1>2, <1>4, ReaderFacts DEF TypeInv
<1>6. Found'
    BY <1>1, <1>2, <1>4 DEF IInv, Found, Covered, Built
<1>7. reader.started <= reader.read
    BY <1>1 DEF IInv, Times
<1>8. Times'
    BY <1>1, <1>2, <1>4, <1>7, LifetimeFacts DEF Times, Built, Lifetime
<1>9. Stages' /\ EndSeen'
    BY <1>1, <1>2 DEF Stages, EndSeen
<1> QED
    BY <1>5, <1>6, <1>8, <1>9 DEF IInv

LEMMA NextIInv == IInv /\ [Next]_vars => IInv'
<1> SUFFICES ASSUME IInv, [Next]_vars PROVE IInv'
    OBVIOUS
<1>1. CASE Reads
    BY <1>1, AskStep, StatusStep, TasksStep, DecideStep, DetailsStep, PendingStep, WaitingStep,
       ScrapeStep, StoreStep DEF Reads
<1>2. CASE \/ \E t \in Tasks :
                 MoveTask(t) \/ OverwriteTask(t) \/ DispatchRow(t) \/ UndoDispatch(t)
           \/ Tick
           \/ UNCHANGED vars
    BY <1>2, WorldMoves, MeanwhileStep DEF IInv
<1> QED
    BY <1>1, <1>2 DEF Next

LEMMA ViewsInvariant == Spec => []IInv
BY InitIInv, NextIInv, PTL DEF Spec

-----------------------------------------------------------------------------
(* Theorems.                                                               *)

\* What a view holds is always of its kind, and a poll ends.
THEOREM ViewsTypeCorrect == Spec => []TypeOK
<1>1. IInv => TypeOK
    BY DEF IInv, TypeInv, TypeOK
<1> QED
    BY <1>1, ViewsInvariant, PTL

\* The derived status says of a batch of any size what its tasks are.
THEOREM StatusIsDerived == Spec => []DerivedStatus
<1>1. ASSUME IInv PROVE DerivedStatus
    <2>1. task \in [Tasks -> Status]
        BY <1>1 DEF IInv, TypeInv
    <2> QED
        BY <2>1, StatusFacts DEF DerivedStatus, IsOpen
<1>2. IInv => DerivedStatus
    BY <1>1
<1> QED
    BY <1>2, ViewsInvariant, PTL

\* As long as no status is written over an end, a batch only moves on.
THEOREM StatusMovesForward == Spec => StatusForward
<1>1. ASSUME IInv, [Next]_vars, stale' = 0
      PROVE  /\ Rank(BatchStatus(task)) <= Rank(BatchStatus(task'))
             /\ Rank(BatchStatus(task)) = 2 => BatchStatus(task') = BatchStatus(task)
    <2>1. task \in [Tasks -> Status] /\ TypeInv
        BY <1>1 DEF IInv, TypeInv
    <2>2. CASE \E t \in Tasks : MoveTask(t)
        <3>1. PICK t \in Tasks : MoveTask(t)
            BY <2>2
        <3>2. /\ task' \in [Tasks -> Status]
              /\ task[t] \notin Terminal /\ task'[t] # "queued"
              /\ \A u \in Tasks \ {t} : task'[u] = task[u]
            BY <2>1, <3>1, MoveFacts
        <3>3. BatchStatus(task) \in {"queued", "running"}
            BY <2>1, <3>2, StatusFacts
        <3>4. BatchStatus(task') # "queued" /\ BatchStatus(task') \in BatchStatuses
            BY <3>2, StatusFacts
        <3> QED
            BY <3>3, <3>4 DEF Rank
    <2>3. CASE task' = task
        BY <2>3 DEF Rank
    <2>4. (\E t \in Tasks : MoveTask(t)) \/ task' = task
        <3>1. stale \in Nat
            BY <2>1 DEF TypeInv
        <3>2. ASSUME NEW t \in Tasks, OverwriteTask(t) PROVE FALSE
            BY <1>1, <3>1, <3>2 DEF OverwriteTask
        <3> QED
            BY <1>1, <3>2 DEF Next, Reads, Ask, ReadStatus, ReadTasks, Decide, ReadDetails,
               ReadPending, ReadWaiting, Scrape, Store, DispatchRow, UndoDispatch, Tick,
               database, vars
    <2> QED
        BY <2>2, <2>3, <2>4
<1>2. IInv /\ [Next]_vars =>
          [stale' = 0 => LET s == BatchStatus(task)  n == BatchStatus(task')
                         IN  Rank(s) <= Rank(n) /\ (Rank(s) = 2 => n = s)]_vars
    BY <1>1
<1> QED
    BY <1>2, ViewsInvariant, PTL DEF Spec, StatusForward

\* An answer that says how a batch ended lists tasks that ended so, though it
\* was read in two SELECTs, and the report of a poll is right.
THEOREM AnswersAreWhole == Spec => []AnswerNotTorn
<1>1. ASSUME IInv PROVE AnswerNotTorn
    <2>1. PICK t \in Tasks : TRUE
        BY ViewsAssumption DEF ViewsAssumption
    <2> QED
        BY <1>1, <2>1 DEF IInv, EndSeen, AnswerNotTorn, MeetsTarget
<1>2. IInv => AnswerNotTorn
    BY <1>1
<1> QED
    BY <1>2, ViewsInvariant, PTL

\* A task that still waits is in one of the two lists.
THEOREM NobodyIsOverlooked == Spec => []QueuedNotOverlooked
<1>1. IInv => QueuedNotOverlooked
    BY DEF IInv, Found, Covered, QueuedNotOverlooked
<1> QED
    BY <1>1, ViewsInvariant, PTL

\* Nothing a scrape shows is older than a payload may be.
THEOREM ScrapesAreFresh == Spec => []ScrapeFresh
<1>1. IInv => ScrapeFresh
    BY DEF IInv, Times, ScrapeFresh
<1> QED
    BY <1>1, ViewsInvariant, PTL

-----------------------------------------------------------------------------
(* The tasks the readers see.  TaskExecution implements the contested       *)
(* lifecycle of TaskLifecycle (TasksKeepContestedLifecycle); here the same  *)
(* promise is all that is asked of the tasks behind a view, and no less.    *)

TaskRows == INSTANCE TaskLifecycle WITH Rows <- Tasks, status <- task

\* The statuses and the moves of the lifecycle are those of the views.
LEMMA SameTables ==
    /\ TaskRows!Status = Status /\ TaskRows!Terminal = Terminal
    /\ TaskRows!TASK_TRANSITIONS = TASK_TRANSITIONS
BY DEF TaskRows!Status, TaskRows!Terminal, TaskRows!TASK_TRANSITIONS,
       Status, Terminal, TASK_TRANSITIONS

\* A view is read over tasks that do what the lifecycle with overlapping
\* writers allows and nothing else.
THEOREM ViewedTasksKeepLifecycle == Spec => TaskRows!ContestedSpec
<1>1. Init => TaskRows!Init
    BY DEF Init, AllQueued, TaskRows!Init
<1>2. ASSUME TypeInv, [Next]_vars PROVE [TaskRows!ContestedNext]_task
    <2>1. ASSUME NEW t \in Tasks, MoveTask(t) PROVE TaskRows!ContestedNext
        <3>1. task[t] \in Status
            BY <1>2 DEF TypeInv
        <3>2. PICK s \in TASK_TRANSITIONS[task[t]] : task' = [task EXCEPT ![t] = s]
            BY <2>1 DEF MoveTask
        <3>3. s \in Status
            BY <3>1, <3>2 DEF TASK_TRANSITIONS, Status
        <3>4. TaskRows!Move(t, s)
            BY <3>1, <3>2, <3>3, SameTables DEF TaskRows!Move
        <3> QED
            BY <3>3, <3>4, SameTables DEF TaskRows!ContestedNext, TaskRows!Next
    <2>2. ASSUME NEW t \in Tasks, OverwriteTask(t) PROVE TaskRows!ContestedNext
        <3>1. PICK s \in Status \ {"queued"} : task' = [task EXCEPT ![t] = s]
            BY <2>2 DEF OverwriteTask
        <3>2. TaskRows!Overwrite(t, s)
            BY <2>2, <3>1, SameTables DEF OverwriteTask, TaskRows!Overwrite
        <3> QED
            BY <3>1, <3>2, SameTables DEF TaskRows!ContestedNext
    <2>3. CASE \A t \in Tasks : ~MoveTask(t) /\ ~OverwriteTask(t)
        <3>1. task' = task
            BY <1>2, <2>3 DEF Next, Reads, vars, database, DispatchRow, UndoDispatch, Tick,
               Ask, ReadStatus, ReadTasks, Decide, ReadDetails, ReadPending, ReadWaiting,
               Scrape, Store
        <3> QED
            BY <3>1
    <2> QED
        BY <2>1, <2>2, <2>3
<1>3. TypeInv /\ [Next]_vars => [TaskRows!ContestedNext]_task
    BY <1>2
<1>4. IInv => TypeInv
    BY DEF IInv
<1> QED
    BY <1>1, <1>3, <1>4, ViewsInvariant, PTL DEF Spec, TaskRows!ContestedSpec

\* The other way round: whatever the contested lifecycle lets a task do, a
\* view may meet, as long as nobody starts a task whose message cannot have
\* been sent and the bound on overwritten statuses is not reached.
THEOREM ViewsMeetEveryMove ==
    ASSUME TypeInv, TaskRows!ContestedNext,
           UNCHANGED <<row, clock, reader, cache, faults>>,
           \A t \in Tasks :
               task[t] = "queued" /\ task'[t] = "running" => row[t] # "pending",
           stale < MaxStale,
           stale' = IF \E t \in Tasks : task[t] \in Terminal /\ task'[t] # task[t]
                    THEN stale + 1 ELSE stale
    PROVE  (\E t \in Tasks : MoveTask(t) \/ OverwriteTask(t)) \/ UNCHANGED vars
<1>1. \A t \in Tasks : task[t] \in Status /\ task[t] # "none"
    BY DEF TypeInv, Status
<1>2. ASSUME NEW t \in Tasks, NEW s \in Status, TaskRows!Move(t, s) PROVE MoveTask(t)
    <2>1. /\ s \in TASK_TRANSITIONS[task[t]] /\ task' = [task EXCEPT ![t] = s]
          /\ task'[t] = s /\ \A u \in Tasks \ {t} : task'[u] = task[u]
        BY <1>2, SameTables DEF TaskRows!Move, TypeInv
    <2>2. task[t] \notin Terminal /\ (s = "running" => task[t] = "queued")
        BY <1>1, <2>1 DEF TASK_TRANSITIONS, Status, Terminal
    <2>3. stale' = stale
        BY <2>1, <2>2
    <2>4. s = "running" => row[t] # "pending"
        BY <2>1, <2>2
    <2> QED
        BY <2>1, <2>3, <2>4 DEF MoveTask
<1>3. ASSUME NEW t \in Tasks, NEW s \in Status, TaskRows!Overwrite(t, s)
      PROVE  OverwriteTask(t) \/ UNCHANGED vars
    <2>1. /\ task[t] \in Terminal /\ s \in Status \ {"queued"}
          /\ task' = [task EXCEPT ![t] = s] /\ task'[t] = s
          /\ task' \in [Tasks -> Status]
          /\ \A u \in Tasks \ {t} : task'[u] = task[u]
        BY <1>3, SameTables DEF TaskRows!Overwrite, TypeInv
    <2>2. CASE s = task[t]
        <3>1. \A u \in Tasks : task'[u] = task[u]
            BY <2>1, <2>2
        <3>2. task' = task
            BY <2>1, <3>1 DEF TypeInv
        <3> QED
            BY <3>1, <3>2 DEF vars
    <2>3. CASE s # task[t]
        BY <2>1, <2>3 DEF OverwriteTask
    <2> QED
        BY <2>2, <2>3
<1>4. \A t \in Tasks : ~TaskRows!Create(t)
    BY <1>1 DEF TaskRows!Create
<1> QED
    BY <1>2, <1>3, <1>4, SameTables DEF TaskRows!ContestedNext, TaskRows!Next

=============================================================================
