------------------------ MODULE MigrationLedgerProofs ------------------------
(***************************************************************************)
(* Theorems about MigrationLedger, for every set of appliers, every number *)
(* of migrations and whatever is lost.                                     *)
(***************************************************************************)
EXTENDS MigrationLedger, FiniteSetTheorems, TLAPS

-----------------------------------------------------------------------------
(* The inductive invariant.                                                *)

\* What an applier has read of the ledger is still there.
ReadStillTrue == \A p \in Appliers : \A v \in Version :
    applier[p].existing[v] # Unapplied => ledger[v] = applier[p].existing[v]

\* What an applier has behind it is in the ledger as in its files, and is
\* accounted for once.
Behind == \A p \in Appliers :
    /\ applier[p].at \in Nat \ {0}
    /\ \A v \in 1 .. applier[p].at - 1 : v \in Repo(p) /\ ledger[v] = applier[p].repo[v]
    /\ applier[p].applied \cup applier[p].skipped = 1 .. applier[p].at - 1
    /\ applier[p].applied \cap applier[p].skipped = {}

\* The primary key: who is about to commit a version is alone and the first.
Exclusive == \A p \in Appliers : At(p, "commit") =>
    /\ ledger[applier[p].at] = Unapplied
    /\ \A q \in Appliers : At(q, "commit") /\ applier[q].at = applier[p].at => q = p

\* An applier that reports has been through its checkout.
Through == \A p \in Appliers :
    applier[p].pc \in {"report", "done"} => applier[p].at \notin Repo(p)

\* Applied versions come from a checkout.
FromFiles == \A v \in Version : ledger[v] # Unapplied => \E q \in Appliers : v \in Repo(q)

IInv ==
    /\ TypeOK /\ ReadStillTrue /\ Behind /\ Exclusive /\ Through /\ FromFiles
    /\ AppliedOnce /\ LedgerIsPrefix

-----------------------------------------------------------------------------
(* Lemmas.                                                                 *)

LEMMA Checkouts ==
    ASSUME NEW c \in Checkout
    PROVE  \E n \in Version : DOMAIN c = 1 .. n /\ \A v \in 1 .. n : c[v] \in Checksum
BY DEF Checkout, Version

LEMMA RepoFacts ==
    ASSUME TypeOK, NEW p \in Appliers
    PROVE  /\ applier[p] \in ApplierState
           /\ Repo(p) \subseteq Version
           /\ \A v \in Repo(p) : applier[p].repo[v] \in Checksum /\ applier[p].repo[v] # Unapplied
           /\ \A v \in Repo(p) : 1 .. v \subseteq Repo(p)
<1>1. applier[p] \in ApplierState /\ applier[p].repo \in Checkout
    BY DEF TypeOK, ApplierState
<1>2. PICK n \in Version : /\ Repo(p) = 1 .. n
                           /\ \A v \in 1 .. n : applier[p].repo[v] \in Checksum
    BY <1>1, Checkouts DEF Repo
<1> QED
    BY <1>1, <1>2, LedgerAssumption DEF Version, Checksum, Unapplied, LedgerAssumption

LEMMA InitIInv == Init => IInv
<1> SUFFICES ASSUME Init PROVE IInv
    OBVIOUS
<1>1. ASSUME NEW p \in Appliers
      PROVE  /\ applier[p] \in ApplierState /\ applier[p].pc = "start"
             /\ applier[p].at = 1 /\ applier[p].applied = {} /\ applier[p].skipped = {}
             /\ \A v \in Version : applier[p].existing[v] = Unapplied
    BY DEF Init, ApplierState, Stage, Unapplied, Checksum
<1>2. applier \in [Appliers -> ApplierState]
    BY <1>1 DEF Init
<1>3. TypeOK
    BY <1>1, <1>2 DEF Init, TypeOK
<1>4. ReadStillTrue /\ Through /\ Exclusive /\ FromFiles
    BY <1>1 DEF Init, ReadStillTrue, Through, Exclusive, FromFiles, At
<1>5. Behind
    BY <1>1 DEF Behind
<1>6. AppliedOnce /\ LedgerIsPrefix
    BY DEF Init, AppliedOnce, LedgerIsPrefix
<1> QED
    BY <1>3, <1>4, <1>5, <1>6 DEF IInv

\* A step of an applier that leaves the ledger, and goes on with the files it
\* had, preserves what is said of the ledger and of the other appliers.
LEMMA LocalStep ==
    ASSUME IInv, NEW p \in Appliers, NEW next \in ApplierState,
           applier' = [applier EXCEPT ![p] = next],
           next.repo = applier[p].repo,
           UNCHANGED <<ledger, runs>>, crashes' \in Nat,
           \A v \in Version : next.existing[v] # Unapplied => ledger[v] = next.existing[v],
           next.pc \in {"execute", "insert", "commit"} => next.at \in Repo(p),
           next.pc \in {"report", "done"} => next.at \notin Repo(p),
           next.pc = "commit" =>
               /\ ledger[next.at] = Unapplied
               /\ ~ \E q \in Appliers : At(q, "commit") /\ applier[q].at = next.at,
           next.at \in Nat \ {0},
           \A v \in 1 .. next.at - 1 : v \in Repo(p) /\ ledger[v] = applier[p].repo[v],
           next.applied \cup next.skipped = 1 .. next.at - 1,
           next.applied \cap next.skipped = {}
    PROVE  IInv'
<1>1. applier'[p] = next /\ \A q \in Appliers \ {p} : applier'[q] = applier[q]
    BY DEF IInv, TypeOK
<1>2. \A q \in Appliers : Repo(q)' = Repo(q)
    BY <1>1 DEF Repo
<1>3. TypeOK'
    BY <1>1, <1>2 DEF IInv, TypeOK
<1>4. ReadStillTrue'
    BY <1>1 DEF IInv, ReadStillTrue
<1>5. Behind'
    BY <1>1, <1>2 DEF IInv, Behind
<1>6. Exclusive'
    BY <1>1 DEF IInv, Exclusive, At
<1>7. Through'
    BY <1>1, <1>2 DEF IInv, Through
<1>8. FromFiles'
    BY <1>2 DEF IInv, FromFiles
<1>9. AppliedOnce' /\ LedgerIsPrefix'
    BY DEF IInv, AppliedOnce, LedgerIsPrefix
<1> QED
    BY <1>3, <1>4, <1>5, <1>6, <1>7, <1>8, <1>9 DEF IInv

\* The same for a step that only goes on to another stage.
LEMMA StageStep ==
    ASSUME IInv, NEW p \in Appliers, NEW pc \in Stage, Goto(p, pc),
           UNCHANGED <<ledger, runs>>, crashes' \in Nat,
           pc \in {"execute", "insert", "commit"} => applier[p].at \in Repo(p),
           pc \in {"report", "done"} => applier[p].at \notin Repo(p),
           pc = "commit" =>
               /\ ledger[applier[p].at] = Unapplied
               /\ ~ \E q \in Appliers : At(q, "commit") /\ applier[q].at = applier[p].at
    PROVE  IInv'
<1> DEFINE next == [applier[p] EXCEPT !.pc = pc]
<1>1. applier[p] \in ApplierState
    BY DEF IInv, TypeOK
<1>2. next \in ApplierState
    BY <1>1 DEF ApplierState
<1>3. /\ next.pc = pc /\ next.repo = applier[p].repo /\ next.existing = applier[p].existing
      /\ next.at = applier[p].at /\ next.applied = applier[p].applied
      /\ next.skipped = applier[p].skipped
    BY <1>1 DEF ApplierState
<1>4. applier' = [applier EXCEPT ![p] = next]
    BY DEF Goto, IInv, TypeOK
<1>5. \A v \in Version : next.existing[v] # Unapplied => ledger[v] = next.existing[v]
    BY <1>3 DEF IInv, ReadStillTrue
<1>6. /\ next.at \in Nat \ {0}
      /\ \A v \in 1 .. next.at - 1 : v \in Repo(p) /\ ledger[v] = applier[p].repo[v]
      /\ next.applied \cup next.skipped = 1 .. next.at - 1
      /\ next.applied \cap next.skipped = {}
    BY <1>3 DEF IInv, Behind
<1>7. /\ next.pc \in {"execute", "insert", "commit"} => next.at \in Repo(p)
      /\ next.pc \in {"report", "done"} => next.at \notin Repo(p)
      /\ next.pc = "commit" =>
            /\ ledger[next.at] = Unapplied
            /\ ~ \E q \in Appliers : At(q, "commit") /\ applier[q].at = next.at
    BY <1>3
<1>8. next.repo = applier[p].repo
    BY <1>3
<1> HIDE DEF next
<1> QED
    BY <1>2, <1>4, <1>5, <1>6, <1>7, <1>8, LocalStep

LEMMA ReadStep ==
    ASSUME IInv, NEW p \in Appliers, ReadLedger(p) PROVE IInv'
<1> DEFINE next == [applier[p] EXCEPT !.existing = ledger, !.pc = "next"]
<1>1. applier[p] \in ApplierState
    BY DEF IInv, TypeOK
<1>2. next \in ApplierState
    BY <1>1 DEF IInv, TypeOK, ApplierState, Stage
<1>3. /\ next.pc = "next" /\ next.repo = applier[p].repo /\ next.existing = ledger
      /\ next.at = applier[p].at /\ next.applied = applier[p].applied
      /\ next.skipped = applier[p].skipped
    BY <1>1 DEF ApplierState
<1>4. applier' = [applier EXCEPT ![p] = next] /\ UNCHANGED <<ledger, runs>> /\ crashes' \in Nat
    BY DEF ReadLedger, IInv, TypeOK
<1>5. /\ next.at \in Nat \ {0}
      /\ \A v \in 1 .. next.at - 1 : v \in Repo(p) /\ ledger[v] = applier[p].repo[v]
      /\ next.applied \cup next.skipped = 1 .. next.at - 1
      /\ next.applied \cap next.skipped = {}
    BY <1>3 DEF IInv, Behind
<1> HIDE DEF next
<1> QED
    BY <1>2, <1>3, <1>4, <1>5, LocalStep

LEMMA NextStep ==
    ASSUME IInv, NEW p \in Appliers, NextMigration(p) PROVE IInv'
<1>0. /\ At(p, "next") /\ UNCHANGED <<ledger, runs, crashes>> /\ crashes' \in Nat
      /\ applier[p] \in ApplierState /\ TypeOK
    BY DEF NextMigration, IInv, TypeOK
<1> DEFINE skip == [applier[p] EXCEPT !.skipped = @ \cup {applier[p].at}, !.at = @ + 1]
<1>1. CASE applier[p].at \notin Repo(p)
    <2>1. Goto(p, "report")
        BY <1>1 DEF NextMigration, Goto, IInv, TypeOK
    <2> QED
        BY <1>0, <1>1, <2>1, StageStep DEF Stage
<1>2. CASE applier[p].at \in Repo(p) /\ applier[p].existing[applier[p].at] = Unapplied
    <2>1. Goto(p, "execute")
        BY <1>2 DEF NextMigration, Goto, IInv, TypeOK
    <2> QED
        BY <1>0, <1>2, <2>1, StageStep DEF Stage
<1>3. CASE /\ applier[p].at \in Repo(p) /\ applier[p].existing[applier[p].at] # Unapplied
           /\ applier[p].existing[applier[p].at] # applier[p].repo[applier[p].at]
    <2>1. Goto(p, "mismatch")
        BY <1>3 DEF NextMigration, Goto, IInv, TypeOK
    <2> QED
        BY <1>0, <2>1, StageStep DEF Stage
<1>4. CASE /\ applier[p].at \in Repo(p) /\ applier[p].existing[applier[p].at] # Unapplied
           /\ applier[p].existing[applier[p].at] = applier[p].repo[applier[p].at]
    <2>1. applier' = [applier EXCEPT ![p] = skip]
        BY <1>4 DEF NextMigration
    <2>2. applier[p].at \in Version /\ applier[p].at \in Nat \ {0}
        BY <1>0, <1>4, RepoFacts DEF IInv, Behind
    <2>3. skip \in ApplierState
        <3>1. applier[p].skipped \cup {applier[p].at} \in SUBSET Version
            BY <1>0, <2>2 DEF ApplierState
        <3>2. applier[p].at + 1 \in Nat
            BY <2>2
        <3> QED
            BY <1>0, <3>1, <3>2 DEF ApplierState
    <2>4. /\ skip.pc = "next" /\ skip.repo = applier[p].repo
          /\ skip.existing = applier[p].existing /\ skip.at = applier[p].at + 1
          /\ skip.applied = applier[p].applied
          /\ skip.skipped = applier[p].skipped \cup {applier[p].at}
        BY <1>0 DEF ApplierState, At
    <2>5. \A v \in Version : skip.existing[v] # Unapplied => ledger[v] = skip.existing[v]
        BY <2>4 DEF IInv, ReadStillTrue
    <2>6. ledger[applier[p].at] = applier[p].repo[applier[p].at]
        BY <1>4, <2>2 DEF IInv, ReadStillTrue
    <2>7. 1 .. skip.at - 1 = (1 .. applier[p].at - 1) \cup {applier[p].at}
        BY <2>2, <2>4
    <2>8. /\ skip.at \in Nat \ {0}
          /\ \A v \in 1 .. skip.at - 1 : v \in Repo(p) /\ ledger[v] = applier[p].repo[v]
        BY <1>4, <2>2, <2>4, <2>6, <2>7 DEF IInv, Behind
    <2>9. applier[p].at \notin 1 .. applier[p].at - 1
        BY <2>2
    <2>10. /\ skip.applied \cup skip.skipped = 1 .. skip.at - 1
           /\ skip.applied \cap skip.skipped = {}
        BY <2>4, <2>7, <2>9 DEF IInv, Behind
    <2> HIDE DEF skip
    <2> QED
        BY <1>0, <2>1, <2>3, <2>4, <2>5, <2>8, <2>10, LocalStep
<1> QED
    BY <1>1, <1>2, <1>3, <1>4

LEMMA ExecuteStep ==
    ASSUME IInv, NEW p \in Appliers, Execute(p) PROVE IInv'
<1>1. /\ UNCHANGED <<ledger, runs>> /\ crashes' \in Nat /\ applier[p].at \in Repo(p)
      /\ Goto(p, "insert") \/ Goto(p, "conflict")
    BY DEF Execute, IInv, TypeOK, At
<1> QED
    BY <1>1, StageStep DEF Stage

LEMMA InsertStep ==
    ASSUME IInv, NEW p \in Appliers, InsertRow(p) PROVE IInv'
<1>1. /\ UNCHANGED <<ledger, runs>> /\ crashes' \in Nat /\ applier[p].at \in Repo(p)
      /\ ~ \E q \in Appliers : At(q, "commit") /\ applier[q].at = applier[p].at
      /\ \/ ledger[applier[p].at] = Unapplied /\ Goto(p, "commit")
         \/ Goto(p, "conflict")
    BY DEF InsertRow, IInv, TypeOK, At
<1> QED
    BY <1>1, StageStep DEF Stage

LEMMA ReportStep ==
    ASSUME IInv, NEW p \in Appliers, Report(p) PROVE IInv'
<1>1. /\ UNCHANGED <<ledger, runs>> /\ crashes' \in Nat /\ applier[p].at \notin Repo(p)
      /\ Goto(p, "done")
    BY DEF Report, IInv, TypeOK, Through, At
<1> QED
    BY <1>1, StageStep DEF Stage

LEMMA CrashStep ==
    ASSUME IInv, NEW p \in Appliers, Crash(p) PROVE IInv'
<1>1. UNCHANGED <<ledger, runs>> /\ crashes' \in Nat /\ Goto(p, "crashed")
    BY DEF Crash, IInv, TypeOK
<1> QED
    BY <1>1, StageStep DEF Stage

\* The only step that writes the ledger.
LEMMA CommitStep ==
    ASSUME IInv, NEW p \in Appliers, Commit(p) PROVE IInv'
<1> DEFINE v == applier[p].at
           next == [applier[p] EXCEPT !.pc = "next", !.at = @ + 1, !.applied = @ \cup {v}]
<1>1. /\ applier[p] \in ApplierState /\ TypeOK /\ applier[p].pc = "commit"
      /\ ledger' = [ledger EXCEPT ![v] = applier[p].repo[v]]
      /\ runs' = [runs EXCEPT ![v] = @ + 1]
      /\ applier' = [applier EXCEPT ![p] = next]
      /\ crashes' = crashes
    BY DEF Commit, IInv, TypeOK, At
<1>2. /\ v \in Repo(p) /\ v \in Version /\ v \in Nat \ {0}
      /\ applier[p].repo[v] \in Checksum /\ applier[p].repo[v] # Unapplied
      /\ ledger[v] = Unapplied
    BY <1>1, RepoFacts DEF IInv, TypeOK, Exclusive, Behind, At
<1>3. next \in ApplierState
    <2>1. applier[p].applied \cup {v} \in SUBSET Version
        BY <1>1, <1>2 DEF ApplierState
    <2>2. applier[p].at + 1 \in Nat
        BY <1>2
    <2> QED
        BY <1>1, <2>1, <2>2 DEF ApplierState, Stage
<1>4. /\ next.pc = "next" /\ next.repo = applier[p].repo
      /\ next.existing = applier[p].existing /\ next.at = v + 1
      /\ next.applied = applier[p].applied \cup {v} /\ next.skipped = applier[p].skipped
    BY <1>1 DEF ApplierState
<1>5. ledger'[v] = applier[p].repo[v] /\ \A w \in Version \ {v} : ledger'[w] = ledger[w]
    BY <1>1, <1>2 DEF TypeOK
<1> HIDE DEF next
<1>6. applier'[p] = next /\ \A q \in Appliers \ {p} : applier'[q] = applier[q]
    BY <1>1 DEF TypeOK
<1>7. \A q \in Appliers : Repo(q)' = Repo(q)
    BY <1>4, <1>6 DEF Repo
<1>8. TypeOK'
    <2>1. ledger' \in [Version -> Checksum \cup {Unapplied}] /\ runs' \in [Version -> Nat]
        BY <1>1, <1>2 DEF TypeOK
    <2>2. applier' \in [Appliers -> ApplierState]
        BY <1>1, <1>3 DEF TypeOK
    <2>3. \A q \in Appliers : applier'[q].pc \in {"execute", "insert", "commit"} =>
              applier'[q].at \in Repo(q)'
        BY <1>1, <1>4, <1>6, <1>7 DEF TypeOK
    <2> QED
        BY <1>1, <2>1, <2>2, <2>3 DEF TypeOK
<1>9. ReadStillTrue'
    BY <1>2, <1>4, <1>5, <1>6 DEF IInv, ReadStillTrue
<1>10. Behind'
    <2> SUFFICES ASSUME NEW q \in Appliers
                 PROVE  /\ applier'[q].at \in Nat \ {0}
                        /\ \A w \in 1 .. applier'[q].at - 1 :
                              w \in Repo(q)' /\ ledger'[w] = applier'[q].repo[w]
                        /\ applier'[q].applied \cup applier'[q].skipped = 1 .. applier'[q].at - 1
                        /\ applier'[q].applied \cap applier'[q].skipped = {}
        BY DEF Behind
    <2>1. CASE q = p
        <3>1. 1 .. next.at - 1 = (1 .. v - 1) \cup {v} /\ v \notin 1 .. v - 1
            BY <1>2, <1>4
        <3>2. \A w \in 1 .. v - 1 : w \in Repo(p) /\ ledger'[w] = applier[p].repo[w]
            BY <1>1, <1>5, <3>1, RepoFacts DEF IInv, Behind
        <3>3. /\ applier[p].applied \cup applier[p].skipped = 1 .. v - 1
              /\ applier[p].applied \cap applier[p].skipped = {}
            BY DEF IInv, Behind
        <3> QED
            BY <1>2, <1>4, <1>5, <1>6, <1>7, <2>1, <3>1, <3>2, <3>3
    <2>2. CASE q # p
        <3>1. \A w \in 1 .. applier[q].at - 1 :
                  w \in Repo(q) /\ w \in Version /\ ledger[w] = applier[q].repo[w] /\ w # v
            BY <1>1, <1>2, RepoFacts DEF IInv, Behind
        <3> QED
            BY <1>5, <1>6, <1>7, <2>2, <3>1 DEF IInv, Behind
    <2> QED
        BY <2>1, <2>2
<1>11. Exclusive'
    <2> SUFFICES ASSUME NEW q \in Appliers, applier'[q].pc = "commit"
                 PROVE  /\ ledger'[applier'[q].at] = Unapplied
                        /\ \A r \in Appliers :
                              applier'[r].pc = "commit" /\ applier'[r].at = applier'[q].at => r = q
        BY DEF Exclusive, At
    <2>1. q # p /\ applier[q].pc = "commit" /\ applier'[q] = applier[q]
        BY <1>4, <1>6
    <2>2. applier[q].at # v /\ applier[q].at \in Version
        BY <1>1, <2>1, RepoFacts DEF IInv, Exclusive, TypeOK, At
    <2> QED
        BY <1>4, <1>5, <1>6, <2>1, <2>2 DEF IInv, Exclusive, At
<1>12. Through'
    BY <1>4, <1>6, <1>7 DEF IInv, Through
<1>13. FromFiles'
    BY <1>2, <1>5, <1>7 DEF IInv, FromFiles
<1>14. AppliedOnce'
    BY <1>1, <1>2, <1>5 DEF IInv, AppliedOnce, TypeOK
<1>15. LedgerIsPrefix'
    <2>1. \A w \in Version : w < v => ledger[w] # Unapplied
        <3>1. \A w \in Version : w < v => w \in 1 .. v - 1
            BY <1>2 DEF Version
        <3> QED
            BY <1>1, <3>1, RepoFacts DEF IInv, Behind
    <2> QED
        BY <1>2, <1>5, <2>1 DEF IInv, LedgerIsPrefix
<1> QED
    BY <1>8, <1>9, <1>10, <1>11, <1>12, <1>13, <1>14, <1>15 DEF IInv

-----------------------------------------------------------------------------
(* Theorems.                                                               *)

LEMMA NextIInv == IInv /\ [Next]_vars => IInv'
<1>1. ASSUME IInv, NEW p \in Appliers,
             \/ ReadLedger(p) \/ NextMigration(p) \/ Execute(p) \/ InsertRow(p)
             \/ Commit(p) \/ Report(p) \/ Crash(p)
      PROVE  IInv'
    BY <1>1, ReadStep, NextStep, ExecuteStep, InsertStep, CommitStep, ReportStep, CrashStep
<1>2. ASSUME IInv, UNCHANGED vars PROVE IInv'
    BY <1>2 DEF vars, IInv, TypeOK, ReadStillTrue, Behind, Exclusive, Through, FromFiles,
                AppliedOnce, LedgerIsPrefix, Repo, At
<1> QED
    BY <1>1, <1>2 DEF Next

LEMMA LedgerInvariant == Spec => []IInv
BY InitIInv, NextIInv, PTL DEF Spec

\* What the appliers keep in hand is always of its kind, and a migration in
\* hand is one of the checkout.
THEOREM LedgerTypeCorrect == Spec => []TypeOK
<1>1. IInv => TypeOK
    BY DEF IInv
<1> QED
    BY <1>1, LedgerInvariant, PTL

\* The SQL of a migration is committed once, and with its row.
THEOREM MigrationsRunOnce == Spec => []AppliedOnce
<1>1. IInv => AppliedOnce
    BY DEF IInv
<1> QED
    BY <1>1, LedgerInvariant, PTL

\* No migration is applied before those it builds on.
THEOREM PrefixAlways == Spec => []LedgerIsPrefix
<1>1. IInv => LedgerIsPrefix
    BY DEF IInv
<1> QED
    BY <1>1, LedgerInvariant, PTL

\* An applier that reports success leaves the database up to date with its
\* checkout, whoever applied what.
THEOREM SuccessMeansUpToDate == Spec => []SuccessIsUpToDate
<1>1. ASSUME IInv PROVE SuccessIsUpToDate
    <2> SUFFICES ASSUME NEW p \in Appliers, At(p, "done")
                 PROVE  /\ missing_versions(applier[p].repo) = {}
                        /\ checksum_mismatches(applier[p].repo) = {}
                        /\ applier[p].applied \cup applier[p].skipped = Repo(p)
                        /\ applier[p].applied \cap applier[p].skipped = {}
                        /\ \A v \in unexpected_versions(applier[p].repo) :
                              \E q \in Appliers : v \in Repo(q)
        BY DEF SuccessIsUpToDate
    <2>1. TypeOK /\ applier[p].at \in Nat \ {0} /\ applier[p].at \notin Repo(p)
        BY <1>1 DEF IInv, Behind, Through, At
    <2>2. Repo(p) = 1 .. applier[p].at - 1
        <3>1. 1 .. applier[p].at - 1 \subseteq Repo(p)
            BY <1>1 DEF IInv, Behind
        <3>2. ASSUME NEW v \in Repo(p) PROVE v \in 1 .. applier[p].at - 1
            <4>1. v \in Nat \ {0} /\ 1 .. v \subseteq Repo(p)
                BY <2>1, RepoFacts DEF Version
            <4> QED
                BY <2>1, <4>1
        <3> QED
            BY <3>1, <3>2
    <2>3. \A v \in Repo(p) : ledger[v] = applier[p].repo[v] /\ ledger[v] # Unapplied
        BY <1>1, <2>1, <2>2, RepoFacts DEF IInv, Behind
    <2>4. missing_versions(applier[p].repo) = {} /\ checksum_mismatches(applier[p].repo) = {}
        BY <2>3 DEF missing_versions, checksum_mismatches, Repo
    <2>5. \A v \in unexpected_versions(applier[p].repo) : \E q \in Appliers : v \in Repo(q)
        BY <1>1 DEF IInv, FromFiles, unexpected_versions
    <2> QED
        BY <1>1, <2>2, <2>4, <2>5 DEF IInv, Behind
<1>2. IInv => SuccessIsUpToDate
    BY <1>1
<1> QED
    BY <1>2, LedgerInvariant, PTL

-----------------------------------------------------------------------------
(* How long an apply can take.                                             *)

\* What is left for an applier at a stage, with so many files of its checkout
\* from the one in hand on.
StepsLeft(pc, files) ==
    CASE pc = "start"   -> 4 * files + 3
      [] pc = "next"    -> 4 * files + 2
      [] pc = "execute" -> 4 * files + 1
      [] pc = "insert"  -> 4 * files
      [] pc = "commit"  -> 4 * files - 1
      [] pc = "report"  -> 1
      [] OTHER          -> 0

FilesLeft(a) == Cardinality(DOMAIN a.repo) + 1 - a.at

\* Each step of an applier leaves it less to do.
RunDown(a, b) ==
    /\ StepsLeft(b.pc, FilesLeft(b)) \in Nat
    /\ StepsLeft(b.pc, FilesLeft(b)) < StepsLeft(a.pc, FilesLeft(a))

LEMMA FilesOf ==
    ASSUME TypeOK, NEW p \in Appliers
    PROVE  /\ Cardinality(Repo(p)) \in Nat
           /\ Repo(p) = 1 .. Cardinality(Repo(p))
<1>1. PICK n \in Version : Repo(p) = 1 .. n
    BY Checkouts DEF TypeOK, ApplierState, Repo
<1>2. n \in Nat /\ Cardinality(1 .. n) = n
    <2>1. n \in Nat
        BY DEF Version
    <2>2. 1 \in Int /\ n \in Int
        BY <2>1
    <2>3. Cardinality(1 .. n) = IF 1 > n THEN 0 ELSE n - 1 + 1
        BY <2>2, FS_Interval
    <2> QED
        BY <2>1, <2>3 DEF Version
<1> QED
    BY <1>1, <1>2

\* The files an applier has left, in hand and before the first.
LEMMA FilesCount ==
    ASSUME IInv, NEW p \in Appliers
    PROVE  /\ FilesLeft(applier[p]) \in Nat
           /\ applier[p].at \in Nat
           /\ applier[p].at \in Repo(p) <=> FilesLeft(applier[p]) >= 1
<1>1. TypeOK
    BY DEF IInv
<1>2. /\ applier[p].at \in Nat \ {0}
      /\ \A v \in 1 .. applier[p].at - 1 : v \in Repo(p)
    BY DEF IInv, Behind
<1> DEFINE n == Cardinality(Repo(p))
           m == applier[p].at
<1>3. n \in Nat /\ Repo(p) = 1 .. n
    BY <1>1, FilesOf
<1>4. FilesLeft(applier[p]) = n + 1 - m
    BY DEF FilesLeft, Repo
<1>5. m - 1 <= n
    <2>1. m = 1 \/ m - 1 \in 1 .. m - 1
        BY <1>2
    <2>2. m = 1 \/ m - 1 \in 1 .. n
        BY <1>2, <1>3, <2>1
    <2> HIDE DEF n, m
    <2> QED
        BY <1>3, <2>2
<1>6. m \in Nat
    BY <1>2
<1>7. m \in Repo(p) <=> m \in 1 .. n
    BY <1>3
<1>8. m >= 1
    BY <1>2
<1> HIDE DEF n, m
<1>9. /\ n + 1 - m \in Nat
      /\ m \in 1 .. n <=> n + 1 - m >= 1
    BY <1>3, <1>5, <1>6, <1>8
<1> QED
    BY <1>4, <1>6, <1>7, <1>9 DEF m

\* A step to another stage, with the file in hand or with the next one.
LEMMA StageRunsDown ==
    ASSUME NEW n \in Nat
    PROVE  /\ StepsLeft("next", n) < StepsLeft("start", n)
           /\ StepsLeft("next", n) \in Nat
           /\ StepsLeft("execute", n) < StepsLeft("next", n)
           /\ StepsLeft("execute", n) \in Nat
           /\ StepsLeft("insert", n) < StepsLeft("execute", n)
           /\ StepsLeft("insert", n) \in Nat
           /\ StepsLeft("report", n) < StepsLeft("next", n)
           /\ StepsLeft("report", n) \in Nat
           /\ n >= 1 => /\ StepsLeft("commit", n) < StepsLeft("insert", n)
                        /\ StepsLeft("commit", n) \in Nat
                        /\ StepsLeft("next", n - 1) < StepsLeft("commit", n)
                        /\ StepsLeft("next", n - 1) < StepsLeft("next", n)
                        /\ StepsLeft("next", n - 1) \in Nat
BY DEF StepsLeft

LEMMA EndingRunsDown ==
    ASSUME NEW n \in Nat, NEW end \in {"done", "mismatch", "conflict", "crashed"},
           NEW pc \in {"next", "execute", "insert", "commit", "report"},
           pc \in {"execute", "insert", "commit"} => n >= 1
    PROVE  StepsLeft(end, n) < StepsLeft(pc, n) /\ StepsLeft(end, n) \in Nat
<1>1. StepsLeft(end, n) = 0
    BY DEF StepsLeft
<1>2. StepsLeft(pc, n) \in Nat /\ StepsLeft(pc, n) > 0
    BY DEF StepsLeft
<1> QED
    BY <1>1, <1>2

\* Who goes on to another stage has less left when that stage has.
LEMMA GotoRunsDown ==
    ASSUME IInv, NEW p \in Appliers, NEW pc \in Stage, Goto(p, pc),
           LET n == FilesLeft(applier[p])
           IN  /\ StepsLeft(pc, n) \in Nat
               /\ StepsLeft(pc, n) < StepsLeft(applier[p].pc, n)
    PROVE  RunDown(applier[p], applier'[p])
<1>1. applier[p] \in ApplierState /\ applier' = [applier EXCEPT ![p].pc = pc]
    BY DEF Goto, IInv, TypeOK
<1>2. applier'[p] = [applier[p] EXCEPT !.pc = pc]
    BY <1>1 DEF IInv, TypeOK
<1>3. applier'[p].pc = pc /\ applier'[p].repo = applier[p].repo /\ applier'[p].at = applier[p].at
    BY <1>1, <1>2 DEF ApplierState
<1>4. FilesLeft(applier'[p]) = FilesLeft(applier[p])
    BY <1>3 DEF FilesLeft
<1> QED
    BY <1>3, <1>4 DEF RunDown

LEMMA ApplierRunsDown ==
    ASSUME IInv, NEW p \in Appliers,
           \/ ReadLedger(p) \/ NextMigration(p) \/ Execute(p) \/ InsertRow(p)
           \/ Commit(p) \/ Report(p) \/ Crash(p)
    PROVE  /\ RunDown(applier[p], applier'[p])
           /\ \A q \in Appliers \ {p} : applier'[q] = applier[q]
<1> DEFINE m == applier[p].at
<1>0. /\ applier[p] \in ApplierState /\ TypeOK /\ applier \in [Appliers -> ApplierState]
      /\ m \in Nat /\ FilesLeft(applier[p]) \in Nat
      /\ m \in Repo(p) <=> FilesLeft(applier[p]) >= 1
    BY FilesCount DEF IInv, TypeOK
<1>n. PICK n \in Nat : n = FilesLeft(applier[p])
    BY <1>0
<1>f. PICK files \in Nat : files = Cardinality(Repo(p))
    BY <1>0, FilesOf
<1>a. n = files + 1 - m
    BY <1>n, <1>f DEF FilesLeft, Repo
<1>b. /\ m \in Repo(p) => n >= 1
      /\ applier[p].pc \in {"execute", "insert", "commit"} => n >= 1
    BY <1>0, <1>n DEF TypeOK
<1>c. \A q \in Appliers \ {p} : applier'[q] = applier[q]
    BY <1>0 DEF ReadLedger, NextMigration, Execute, InsertRow, Commit, Report, Crash, Goto
<1>1. CASE ReadLedger(p)
    <2> DEFINE next == [applier[p] EXCEPT !.existing = ledger, !.pc = "next"]
    <2>1. applier'[p] = next
        BY <1>0, <1>1 DEF ReadLedger
    <2>2. next.pc = "next" /\ next.repo = applier[p].repo /\ next.at = m
        BY <1>0 DEF ApplierState
    <2>3. FilesLeft(next) = n /\ applier[p].pc = "start"
        BY <1>1, <1>n, <2>2 DEF FilesLeft, ReadLedger, At
    <2>4. StepsLeft("next", n) < StepsLeft("start", n) /\ StepsLeft("next", n) \in Nat
        BY StageRunsDown
    <2> HIDE DEF next
    <2> QED
        BY <1>c, <1>n, <2>1, <2>2, <2>3, <2>4 DEF RunDown
<1>2. CASE NextMigration(p)
    <2>0. applier[p].pc = "next"
        BY <1>2 DEF NextMigration, At
    <2>1. CASE m \notin Repo(p)
        <3>1. Goto(p, "report")
            BY <1>0, <1>2, <2>1 DEF NextMigration, Goto
        <3>2. StepsLeft("report", n) < StepsLeft("next", n) /\ StepsLeft("report", n) \in Nat
            BY StageRunsDown
        <3> QED
            BY <1>c, <2>0, <3>1, <3>2, <1>n, GotoRunsDown DEF Stage
    <2>2. CASE m \in Repo(p) /\ applier[p].existing[m] = Unapplied
        <3>1. Goto(p, "execute")
            BY <1>0, <1>2, <2>2 DEF NextMigration, Goto
        <3>2. StepsLeft("execute", n) < StepsLeft("next", n) /\ StepsLeft("execute", n) \in Nat
            BY StageRunsDown
        <3> QED
            BY <1>c, <2>0, <3>1, <3>2, <1>n, GotoRunsDown DEF Stage
    <2>3. CASE m \in Repo(p) /\ applier[p].existing[m] # Unapplied
               /\ applier[p].existing[m] # applier[p].repo[m]
        <3>1. Goto(p, "mismatch")
            BY <1>0, <1>2, <2>3 DEF NextMigration, Goto
        <3>2. StepsLeft("mismatch", n) < StepsLeft("next", n) /\ StepsLeft("mismatch", n) \in Nat
            BY EndingRunsDown
        <3> QED
            BY <1>c, <2>0, <3>1, <3>2, <1>n, GotoRunsDown DEF Stage
    <2>4. CASE m \in Repo(p) /\ applier[p].existing[m] # Unapplied
               /\ applier[p].existing[m] = applier[p].repo[m]
        <3> DEFINE skip == [applier[p] EXCEPT !.skipped = @ \cup {m}, !.at = @ + 1]
        <3>1. applier'[p] = skip
            BY <1>0, <1>2, <2>4 DEF NextMigration
        <3>2. skip.pc = "next" /\ skip.repo = applier[p].repo /\ skip.at = m + 1
            BY <1>0, <2>0 DEF ApplierState
        <3>3. FilesLeft(skip) = n - 1
            <4>1. FilesLeft(skip) = files + 1 - (m + 1)
                BY <1>f, <3>2 DEF FilesLeft, Repo
            <4> HIDE DEF m, skip
            <4> QED
                BY <1>0, <1>a, <4>1
        <3>4. StepsLeft("next", n - 1) < StepsLeft("next", n) /\ StepsLeft("next", n - 1) \in Nat
            BY <1>b, <2>4, StageRunsDown
        <3> HIDE DEF skip
        <3> QED
            BY <1>c, <1>n, <2>0, <3>1, <3>2, <3>3, <3>4 DEF RunDown
    <2> QED
        BY <2>1, <2>2, <2>3, <2>4
<1>3. CASE Execute(p)
    <2>1. applier[p].pc = "execute" /\ (Goto(p, "insert") \/ Goto(p, "conflict"))
        BY <1>3 DEF Execute, At
    <2>2. StepsLeft("insert", n) < StepsLeft("execute", n) /\ StepsLeft("insert", n) \in Nat
        BY StageRunsDown
    <2>3. StepsLeft("conflict", n) < StepsLeft("execute", n) /\ StepsLeft("conflict", n) \in Nat
        BY <1>b, <2>1, EndingRunsDown
    <2> QED
        BY <1>c, <2>1, <2>2, <2>3, <1>n, GotoRunsDown DEF Stage
<1>4. CASE InsertRow(p)
    <2>1. applier[p].pc = "insert" /\ (Goto(p, "commit") \/ Goto(p, "conflict"))
        BY <1>4 DEF InsertRow, At
    <2>2. StepsLeft("commit", n) < StepsLeft("insert", n) /\ StepsLeft("commit", n) \in Nat
        BY <1>b, <2>1, StageRunsDown
    <2>3. StepsLeft("conflict", n) < StepsLeft("insert", n) /\ StepsLeft("conflict", n) \in Nat
        BY <1>b, <2>1, EndingRunsDown
    <2> QED
        BY <1>c, <2>1, <2>2, <2>3, <1>n, GotoRunsDown DEF Stage
<1>5. CASE Commit(p)
    <2> DEFINE next == [applier[p] EXCEPT !.pc = "next", !.at = @ + 1, !.applied = @ \cup {m}]
    <2>0. applier[p].pc = "commit"
        BY <1>5 DEF Commit, At
    <2>1. applier'[p] = next
        BY <1>0, <1>5 DEF Commit
    <2>2. next.pc = "next" /\ next.repo = applier[p].repo /\ next.at = m + 1
        BY <1>0 DEF ApplierState
    <2>3. FilesLeft(next) = n - 1
        <3>1. FilesLeft(next) = files + 1 - (m + 1)
            BY <1>f, <2>2 DEF FilesLeft, Repo
        <3> HIDE DEF m, next
        <3> QED
            BY <1>0, <1>a, <3>1
    <2>4. StepsLeft("next", n - 1) < StepsLeft("commit", n) /\ StepsLeft("next", n - 1) \in Nat
        BY <1>b, <2>0, StageRunsDown
    <2> HIDE DEF next
    <2> QED
        BY <1>c, <1>n, <2>0, <2>1, <2>2, <2>3, <2>4 DEF RunDown
<1>6. CASE Report(p)
    <2>1. applier[p].pc = "report" /\ Goto(p, "done")
        BY <1>6 DEF Report, At
    <2>2. StepsLeft("done", n) < StepsLeft("report", n) /\ StepsLeft("done", n) \in Nat
        BY EndingRunsDown
    <2> QED
        BY <1>c, <2>1, <2>2, <1>n, GotoRunsDown DEF Stage
<1>7. CASE Crash(p)
    <2>1. /\ applier[p].pc \in {"next", "execute", "insert", "commit", "report"}
          /\ Goto(p, "crashed")
        BY <1>7 DEF Crash
    <2>2. /\ StepsLeft("crashed", n) < StepsLeft(applier[p].pc, n)
          /\ StepsLeft("crashed", n) \in Nat
        BY <1>b, <2>1, EndingRunsDown
    <2> QED
        BY <1>c, <2>1, <2>2, <1>n, GotoRunsDown DEF Stage
<1> QED
    BY <1>1, <1>2, <1>3, <1>4, <1>5, <1>6, <1>7

\* Whatever others do to the ledger, each step of an applier leaves it less to
\* do, so that an apply ends after at most four steps for each file of its
\* checkout and three more: no mismatch, conflict or loss sends it back to a
\* file it has behind it.
THEOREM AppliersRunDown ==
    Spec => [][\A p \in Appliers :
                  applier'[p] # applier[p] => RunDown(applier[p], applier'[p])]_vars
<1> DEFINE Down == \A p \in Appliers :
                       applier'[p] # applier[p] => RunDown(applier[p], applier'[p])
<1>1. ASSUME IInv, [Next]_vars PROVE [Down]_vars
    <2>1. CASE UNCHANGED vars
        BY <2>1
    <2>2. CASE Next
        <3>1. PICK p \in Appliers :
                 \/ ReadLedger(p) \/ NextMigration(p) \/ Execute(p) \/ InsertRow(p)
                 \/ Commit(p) \/ Report(p) \/ Crash(p)
            BY <2>2 DEF Next
        <3>2. /\ RunDown(applier[p], applier'[p])
              /\ \A q \in Appliers \ {p} : applier'[q] = applier[q]
            BY <1>1, <3>1, ApplierRunsDown
        <3> QED
            BY <3>2
    <2> QED
        BY <1>1, <2>1, <2>2
<1>2. IInv /\ [Next]_vars => [Down]_vars
    BY <1>1
<1> QED
    BY <1>2, LedgerInvariant, PTL DEF Spec

=============================================================================
