--------------------------- MODULE MigrationLedger ---------------------------
(***************************************************************************)
(* src/core/migration_governance.py: appliers bring a database up to date  *)
(* with the migrations of their checkout.  An applier reads the ledger     *)
(* once, without a lock, and then runs each migration that was not in it,  *)
(* with its ledger row, in a transaction of its own.  Several appliers may *)
(* run at once, from checkouts of different age, and any may be lost       *)
(* between two statements.  Nobody rewrites an applied file but by         *)
(* mistake: a checkout may hold an edited one.                             *)
(***************************************************************************)
EXTENDS Integers, FiniteSets

CONSTANTS
    Appliers,
    Versions,      \* the last migration any checkout has; they count from 1
    MaxCrashes     \* bound: appliers lost

ASSUME LedgerAssumption == Versions \in Nat /\ MaxCrashes \in Nat

Version == 1 .. Versions

\* sha256 of a file: as it was written, or as somebody changed it later.
Checksum == {"original", "edited"}

\* The checksums of the files of a checkout, which discover_repo_migrations
\* accepts when their numbers are contiguous from 1.
Checkout == UNION {[1 .. n -> Checksum] : n \in Version}

VARIABLES
    ledger,     \* repo_migrations: the checksum of each applied version
    runs,       \* how often the SQL of each version was committed
    applier,    \* what each applier is doing
    crashes

vars == <<ledger, runs, applier, crashes>>

Unapplied == "none"
Stage == {"start", "next", "execute", "insert", "commit", "report",
          "done", "mismatch", "conflict", "crashed"}

ApplierState ==
    [pc       : Stage,
     repo     : Checkout,                           \* migrations
     existing : [Version -> Checksum \cup {Unapplied}], \* the ledger as read
     at       : Nat,                                \* the migration in hand
     applied  : SUBSET Version,
     skipped  : SUBSET Version]

Init ==
    /\ ledger = [v \in Version |-> Unapplied]
    /\ runs = [v \in Version |-> 0]
    /\ applier \in [Appliers ->
           {[pc |-> "start", repo |-> c, at |-> 1, applied |-> {}, skipped |-> {},
             existing |-> [v \in Version |-> Unapplied]] : c \in Checkout}]
    /\ crashes = 0

-----------------------------------------------------------------------------
At(p, pc) == applier[p].pc = pc
Goto(p, pc) == applier' = [applier EXCEPT ![p].pc = pc]
Repo(p) == DOMAIN applier[p].repo

\* load_applied_repo_migrations: the table is created if need be, and read.
ReadLedger(p) ==
    /\ At(p, "start")
    /\ applier' = [applier EXCEPT ![p].existing = ledger, ![p].pc = "next"]
    /\ UNCHANGED <<ledger, runs, crashes>>

\* Mutant: what is in the ledger is taken for what is in the file.
NextUnchecked(p) ==
    LET a == applier[p]
    IN  /\ At(p, "next")
        /\ applier' = [applier EXCEPT ![p] =
               IF a.at \notin Repo(p) THEN [a EXCEPT !.pc = "report"]
               ELSE IF a.existing[a.at] = Unapplied THEN [a EXCEPT !.pc = "execute"]
               ELSE [a EXCEPT !.skipped = @ \cup {a.at}, !.at = @ + 1]]
        /\ UNCHANGED <<ledger, runs, crashes>>

\* Mutant: the loop runs past the last file.
NextPastEnd(p) ==
    LET a == applier[p]
    IN  /\ At(p, "next")
        /\ applier' = [applier EXCEPT ![p] =
               IF a.at \notin Version THEN [a EXCEPT !.pc = "report"]
               ELSE IF a.existing[a.at] = Unapplied THEN [a EXCEPT !.pc = "execute"]
               ELSE [a EXCEPT !.skipped = @ \cup {a.at}, !.at = @ + 1]]
        /\ UNCHANGED <<ledger, runs, crashes>>

\* The head of the loop: a migration the ledger had is skipped, or raises
\* when its file has changed since.
NextMigration(p) ==
    LET a == applier[p]
    IN  /\ At(p, "next")
        /\ applier' = [applier EXCEPT ![p] =
               IF a.at \notin Repo(p) THEN [a EXCEPT !.pc = "report"]
               ELSE IF a.existing[a.at] = Unapplied THEN [a EXCEPT !.pc = "execute"]
               ELSE IF a.existing[a.at] # a.repo[a.at] THEN [a EXCEPT !.pc = "mismatch"]
               ELSE [a EXCEPT !.skipped = @ \cup {a.at}, !.at = @ + 1]]
        /\ UNCHANGED <<ledger, runs, crashes>>

\* The SQL of the migration, in a transaction.  It may fail when it runs
\* beside or after the same SQL of another applier; that ends the applier.
Execute(p) ==
    /\ At(p, "execute")
    /\ \/ Goto(p, "insert")
       \/ /\ \/ ledger[applier[p].at] # Unapplied
             \/ \E q \in Appliers \ {p} :
                    applier[q].pc \in {"insert", "commit"} /\ applier[q].at = applier[p].at
          /\ Goto(p, "conflict")
    /\ UNCHANGED <<ledger, runs, crashes>>

\* Mutant: the ledger has no primary key, a row replaces the one before.
InsertOver(p) ==
    /\ At(p, "insert")
    /\ Goto(p, "commit")
    /\ UNCHANGED <<ledger, runs, crashes>>

\* The ledger row.  The primary key makes the insert wait for an applier that
\* has inserted the version and has not committed; when the row is there the
\* insert raises, and the SQL is rolled back with it.
InsertRow(p) ==
    /\ At(p, "insert")
    /\ ~ \E q \in Appliers : At(q, "commit") /\ applier[q].at = applier[p].at
    /\ Goto(p, IF ledger[applier[p].at] = Unapplied THEN "commit" ELSE "conflict")
    /\ UNCHANGED <<ledger, runs, crashes>>

\* Mutant: the file in hand is noted and the next one is taken.
CommitAndJump(p) ==
    LET v == applier[p].at
    IN  /\ At(p, "commit")
        /\ ledger' = [ledger EXCEPT ![v] = applier[p].repo[v]]
        /\ runs' = [runs EXCEPT ![v] = @ + 1]
        /\ applier' = [applier EXCEPT ![p].pc = "next", ![p].at = @ + 2,
                                      ![p].applied = @ \cup {v}]
        /\ UNCHANGED crashes

Commit(p) ==
    LET v == applier[p].at
    IN  /\ At(p, "commit")
        /\ ledger' = [ledger EXCEPT ![v] = applier[p].repo[v]]
        /\ runs' = [runs EXCEPT ![v] = @ + 1]
        /\ applier' = [applier EXCEPT ![p].pc = "next", ![p].at = @ + 1,
                                      ![p].applied = @ \cup {v}]
        /\ UNCHANGED crashes

\* The report, from a ledger that is read again.
Report(p) ==
    /\ At(p, "report")
    /\ Goto(p, "done")
    /\ UNCHANGED <<ledger, runs, crashes>>

\* The process or its connection is lost, and with it an open transaction.
Crash(p) ==
    /\ applier[p].pc \in {"next", "execute", "insert", "commit", "report"}
    /\ crashes < MaxCrashes
    /\ crashes' = crashes + 1
    /\ Goto(p, "crashed")
    /\ UNCHANGED <<ledger, runs>>

Next == \E p \in Appliers :
    \/ ReadLedger(p) \/ NextMigration(p) \/ Execute(p) \/ InsertRow(p) \/ Commit(p)
    \/ Report(p) \/ Crash(p)

Spec == Init /\ [][Next]_vars

-----------------------------------------------------------------------------
(* verify_repo_migrations, of the database as it is, with a checkout.      *)

missing_versions(repo) == {v \in DOMAIN repo : ledger[v] = Unapplied}
checksum_mismatches(repo) ==
    {v \in DOMAIN repo : ledger[v] # Unapplied /\ ledger[v] # repo[v]}
unexpected_versions(repo) == {v \in Version : ledger[v] # Unapplied} \ DOMAIN repo

-----------------------------------------------------------------------------
(* Properties.                                                             *)

\* Every variable holds what the code can store in it, and a migration in
\* hand is one of the checkout.
TypeOK ==
    /\ ledger \in [Version -> Checksum \cup {Unapplied}]
    /\ runs \in [Version -> Nat]
    /\ applier \in [Appliers -> ApplierState]
    /\ \A p \in Appliers : applier[p].pc \in {"execute", "insert", "commit"} =>
           applier[p].at \in Repo(p)
    /\ crashes \in Nat

\* However appliers overlap and wherever they are lost, the SQL of a
\* migration is committed once, and exactly when the ledger has its row.
AppliedOnce ==
    \A v \in Version : runs[v] = IF ledger[v] = Unapplied THEN 0 ELSE 1

\* The applied migrations are a prefix of the sequence: none is applied
\* before those it builds on, by whichever appliers.
LedgerIsPrefix ==
    \A v, w \in Version : v < w /\ ledger[w] # Unapplied => ledger[v] # Unapplied

\* An applier that reports success leaves nothing of its checkout missing,
\* each version either applied by itself or found as it is in its files; and
\* what a verification did not expect is in the checkout of another.
SuccessIsUpToDate ==
    \A p \in Appliers : At(p, "done") =>
        /\ missing_versions(applier[p].repo) = {}
        /\ checksum_mismatches(applier[p].repo) = {}
        /\ applier[p].applied \cup applier[p].skipped = Repo(p)
        /\ applier[p].applied \cap applier[p].skipped = {}
        /\ \A v \in unexpected_versions(applier[p].repo) : \E q \in Appliers : v \in Repo(q)

=============================================================================
