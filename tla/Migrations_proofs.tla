------------------------- MODULE Migrations_proofs -------------------------
(***************************************************************************)
(* Theorems about Migrations, for any number of processes, files, editions *)
(* and faults.                                                             *)
(***************************************************************************)
EXTENDS Migrations, FiniteSetTheorems, SequenceTheorems, TLAPS

-----------------------------------------------------------------------------
(***************************************************************************)
(* The inductive invariant                                                 *)
(***************************************************************************)

(* Who is past waiting and yet to leave has the lock, so nobody else is. *)
LockIsHeld == \A m \in Migrators : pc[m] \in {"locked", "applying", "running"} => lock = m

(* What the loop has yet to apply is what is not applied, and everything    *)
(* else of the directory is as it was applied.                              *)
Current(m) == todo[m] = DOMAIN dir[m] \ DOMAIN table /\ Verified(m)

LoopIsCurrent ==
    \A m \in Migrators :
        /\ pc[m] \in {"applying", "running"} => Current(m)
        /\ pc[m] = "running" => todo[m] # {}

(* Nothing is told of a migrator before it leaves. *)
Undecided ==
    \A m \in Migrators : pc[m] \notin {"leaving", "ended"} => outcome[m] = "none"

Migrated(m) == \A n \in DOMAIN dir[m] : n \in DOMAIN schema /\ schema[n] = dir[m][n]

IInv ==
    /\ TypeOK
    /\ LockIsHeld
    /\ LoopIsCurrent
    /\ Undecided
    /\ SchemaIsRecorded
    /\ NoConflict
    /\ DoneMeansMigrated

-----------------------------------------------------------------------------
(***************************************************************************)
(* Files                                                                   *)
(***************************************************************************)

(* A directory is a function from some files to their editions. *)
LEMMA DirectoryIsFunction ==
    ASSUME NEW f
    PROVE  f \in Directories <=> /\ DOMAIN f \subseteq 1..Files
                                 /\ f \in [DOMAIN f -> Editions]
BY DEF Directories

(* A set of files has a first one: of the intervals that end at one of     *)
(* them, a smallest ends there.                                             *)
LEMMA FirstFile ==
    ASSUME NEW S \in SUBSET (1..Files), S # {}
    PROVE  \E x \in S : \A y \in S : x <= y
<1> DEFINE Upto == {1..x : x \in S}
<1>1. Files \in Nat /\ IsFiniteSet(1..Files)
  BY MigratorAssumption, FS_Interval
<1>2. Upto # {} /\ \A A \in Upto : A \subseteq 1..Files
  <2>1. \A x \in S : 1..x \subseteq 1..Files
    BY <1>1
  <2>2. PICK x \in S : TRUE
    OBVIOUS
  <2>3. 1..x \in Upto
    OBVIOUS
  <2> QED
    BY <2>1, <2>3
<1>3. Upto \subseteq FiniteSubsetsOf(1..Files)
  BY <1>1, <1>2, FS_Subset DEF FiniteSubsetsOf
<1>4. PICK A \in Upto : \A B \in Upto : <<B, A>> \notin StrictSubsetOrdering(1..Files)
  <2>1. IsWellFoundedOn(StrictSubsetOrdering(1..Files), FiniteSubsetsOf(1..Files))
    BY FS_StrictSubsetOrderingWellFounded
  <2> HIDE DEF Upto
  <2> QED
    BY <1>2, <1>3, <2>1, WFMin
<1>5. PICK x \in S : A = 1..x
  OBVIOUS
<1>6. ASSUME NEW y \in S, y < x
      PROVE  FALSE
  <2>1. 1..y \in Upto /\ 1..y \subseteq 1..x /\ x \in 1..x /\ x \notin 1..y
    BY <1>6
  <2>2. <<1..y, A>> \in StrictSubsetOrdering(1..Files)
    BY <1>2, <1>5, <2>1 DEF StrictSubsetOrdering
  <2> QED
    BY <1>4, <2>1, <2>2
<1> QED
  BY <1>1, <1>6

(* As long as there are files to apply, the next one is one of them. *)
LEMMA NextFileIsToDo ==
    ASSUME NEW m \in Migrators, TypeOK, todo[m] # {}
    PROVE  NextFile(m) \in todo[m] /\ NextFile(m) \in 1..Files
<1>1. todo[m] \in SUBSET (1..Files)
  BY DEF TypeOK
<1>2. \E x \in todo[m] : \A y \in todo[m] : x <= y
  BY <1>1, FirstFile
<1>3. NextFile(m) \in todo[m]
  BY <1>2 DEF NextFile, Min
<1> QED
  BY <1>1, <1>3

(* A file that is applied adds to what there was, and is as the directory   *)
(* has it.                                                                  *)
LEMMA AppliedIsMore ==
    ASSUME NEW m \in Migrators, TypeOK, todo[m] # {}, todo[m] \subseteq DOMAIN dir[m],
           NEW f \in Directories
    PROVE  /\ Applied(f, m) \in Directories
           /\ DOMAIN Applied(f, m) = DOMAIN f \cup {NextFile(m)}
           /\ \A n \in DOMAIN f : n # NextFile(m) => Applied(f, m)[n] = f[n]
           /\ Applied(f, m)[NextFile(m)] = dir[m][NextFile(m)]
<1>1. NextFile(m) \in todo[m] /\ NextFile(m) \in 1..Files
  BY NextFileIsToDo
<1>2. dir[m] \in Directories
  BY DEF TypeOK
<1>3. dir[m][NextFile(m)] \in Editions
  BY <1>1, <1>2, DirectoryIsFunction
<1>4. DOMAIN f \subseteq 1..Files /\ f \in [DOMAIN f -> Editions]
  BY DirectoryIsFunction
<1>5. /\ DOMAIN Applied(f, m) = DOMAIN f \cup {NextFile(m)}
      /\ \A n \in DOMAIN f : n # NextFile(m) => Applied(f, m)[n] = f[n]
      /\ Applied(f, m)[NextFile(m)] = dir[m][NextFile(m)]
  BY DEF Applied
<1>6. Applied(f, m) \in [DOMAIN f \cup {NextFile(m)} -> Editions]
  BY <1>3, <1>4 DEF Applied
<1>7. Applied(f, m) \in Directories
  BY <1>1, <1>4, <1>5, <1>6, DirectoryIsFunction
<1> QED
  BY <1>5, <1>7

LEMMA FaultCounts == ASSUME TypeOK, Fault PROVE faults' \in 0..MaxFaults
BY MigratorAssumption DEF TypeOK, Fault

(* A step of one migrator that leaves the database alone, and takes no lock  *)
(* from another, keeps what the invariant says of the others.               *)
LEMMA DatabaseAlone ==
    ASSUME IInv, NEW m \in Migrators, UNCHANGED database, TypeOK',
           \A x \in Migrators \ {m} : /\ pc'[x] = pc[x] /\ outcome'[x] = outcome[x]
                                      /\ dir'[x] = dir[x] /\ todo'[x] = todo[x],
           lock' = lock \/ lock \in {NoOne, m},
           pc'[m] \in {"locked", "applying", "running"} => lock' = m,
           pc'[m] \in {"applying", "running"} => Current(m)',
           pc'[m] = "running" => todo'[m] # {},
           pc'[m] \notin {"leaving", "ended"} => outcome'[m] = "none",
           outcome'[m] # "conflict",
           outcome'[m] = "done" => Migrated(m)'
    PROVE  IInv'
<1>1. schema' = schema /\ table' = table
  BY DEF database
<1>2. LockIsHeld'
  BY MigratorAssumption DEF IInv, LockIsHeld
<1>3. LoopIsCurrent'
  BY <1>1 DEF IInv, LoopIsCurrent, Current, Verified
<1>4. SchemaIsRecorded' /\ NoConflict'
  BY <1>1 DEF IInv, SchemaIsRecorded, NoConflict
<1>5. DoneMeansMigrated'
  BY <1>1 DEF IInv, DoneMeansMigrated, Migrated
<1>6. Undecided'
  BY DEF IInv, Undecided
<1> QED
  BY <1>2, <1>3, <1>4, <1>5, <1>6 DEF IInv

(* So does one that applies the next file in the order of names. *)
LEMMA ApplyingNext ==
    ASSUME IInv, NEW m \in Migrators, TypeOK',
           pc[m] = "running",
           schema' = Applied(schema, m), table' = Applied(table, m),
           \A x \in Migrators \ {m} : pc'[x] = pc[x] /\ outcome'[x] = outcome[x],
           dir' = dir, \A x \in Migrators \ {m} : todo'[x] = todo[x],
           lock' \in {m, NoOne},
           pc'[m] \in {"applying", "ended"},
           pc'[m] = "applying" => lock' = m /\ todo'[m] = todo[m] \ {NextFile(m)},
           outcome'[m] \in {outcome[m], "failed"},
           pc'[m] # "ended" => outcome'[m] = outcome[m]
    PROVE  IInv'
<1> DEFINE n == NextFile(m)
<1>1. /\ TypeOK /\ schema = table /\ lock = m
      /\ Current(m) /\ todo[m] # {} /\ todo[m] = DOMAIN dir[m] \ DOMAIN table
  BY DEF IInv, SchemaIsRecorded, LockIsHeld, LoopIsCurrent, Current
<1>2. n \in todo[m] /\ n \in DOMAIN dir[m] /\ n \notin DOMAIN table
  BY <1>1, NextFileIsToDo
<1>3. /\ DOMAIN table' = DOMAIN table \cup {n}
      /\ \A k \in DOMAIN table : table'[k] = table[k]
      /\ table'[n] = dir[m][n]
      /\ schema' = table'
  <2>1. table \in Directories /\ todo[m] \subseteq DOMAIN dir[m]
    BY <1>1 DEF TypeOK
  <2>2. /\ DOMAIN Applied(table, m) = DOMAIN table \cup {n}
        /\ \A k \in DOMAIN table : k # n => Applied(table, m)[k] = table[k]
        /\ Applied(table, m)[n] = dir[m][n]
    BY <1>1, <2>1, AppliedIsMore
  <2> QED
    BY <1>1, <1>2, <2>2
<1>4. \A x \in Migrators \ {m} : pc'[x] \notin {"locked", "applying", "running"}
  BY <1>1 DEF IInv, LockIsHeld
<1>5. LockIsHeld'
  BY <1>4 DEF LockIsHeld
<1>6. pc'[m] = "applying" => Current(m)'
  <2> SUFFICES ASSUME pc'[m] = "applying"
               PROVE  Current(m)'
    OBVIOUS
  <2>1. todo'[m] = DOMAIN dir'[m] \ DOMAIN table'
    BY <1>1, <1>3
  <2>2. \A k \in DOMAIN dir[m] \cap DOMAIN table' : dir[m][k] = table'[k]
    BY <1>1, <1>3 DEF Current, Verified
  <2> QED
    BY <2>1, <2>2 DEF Current, Verified
<1>7. LoopIsCurrent'
  BY <1>4, <1>6 DEF LoopIsCurrent
<1>8. SchemaIsRecorded'
  BY <1>3 DEF SchemaIsRecorded
<1>9. NoConflict'
  BY DEF IInv, NoConflict
<1>10. DoneMeansMigrated'
  BY <1>1, <1>2, <1>3 DEF IInv, DoneMeansMigrated
<1>11. Undecided'
  BY DEF IInv, Undecided
<1> QED
  BY <1>5, <1>7, <1>8, <1>9, <1>10, <1>11 DEF IInv

-----------------------------------------------------------------------------
(***************************************************************************)
(* The invariant is inductive                                              *)
(***************************************************************************)

LEMMA InitInvariant == Init => IInv
<1> SUFFICES ASSUME Init
             PROVE  IInv
  OBVIOUS
<1>1. <<>> \in Directories
  <2>1. <<>> \in [1..0 -> Editions]
    BY EmptySeq, LenProperties
  <2>2. 1..0 = {}
    OBVIOUS
  <2> QED
    BY <2>1, <2>2, DirectoryIsFunction
<1>2. TypeOK
  BY <1>1, MigratorAssumption DEF Init, TypeOK
<1> QED
  BY <1>2 DEF Init, IInv, LockIsHeld, LoopIsCurrent, Undecided, SchemaIsRecorded, NoConflict,
              DoneMeansMigrated

(* A step that leaves, or goes on, changes nothing of the others. *)
LEMMA LeavesOrGoes ==
    ASSUME TypeOK, NEW m \in Migrators,
           NEW step \in {"waiting", "locked", "applying", "running", "ended"},
           NEW result \in {"failed", "checksum", "conflict", "shown", "done"},
           Goes(m, step) \/ Leaves(m, result)
    PROVE  /\ pc' \in [Migrators -> {"new", "waiting", "locked", "applying", "running",
                                     "leaving", "ended"}]
           /\ outcome' \in [Migrators -> {"none", "empty", "failed", "checksum",
                                          "conflict", "shown", "done"}]
           /\ \A x \in Migrators \ {m} : pc'[x] = pc[x] /\ outcome'[x] = outcome[x]
           /\ \/ Goes(m, step) /\ pc'[m] = step /\ outcome'[m] = outcome[m]
              \/ Leaves(m, result) /\ pc'[m] = "leaving" /\ outcome'[m] = result
BY DEF Goes, Leaves, TypeOK

LEMMA StartKeepsInvariant ==
    ASSUME IInv, NEW m \in Migrators, Start(m)
    PROVE  IInv'
<1>0. TypeOK
  BY DEF IInv
<1>1. /\ pc[m] = "new"
      /\ UNCHANGED <<database, lock, todo, faults>>
  BY DEF Start
<1>2. PICK d \in Directories :
         /\ dir' = [dir EXCEPT ![m] = d]
         /\ IF DOMAIN d = {}
            THEN /\ pc' = [pc EXCEPT ![m] = "ended"]
                 /\ outcome' = [outcome EXCEPT ![m] = "empty"]
            ELSE Goes(m, "waiting")
  BY DEF Start
<1>3. /\ dir' \in [Migrators -> Directories]
      /\ \A x \in Migrators \ {m} : dir'[x] = dir[x]
  BY <1>0, <1>2 DEF TypeOK
<1>4. /\ pc' \in [Migrators -> {"new", "waiting", "locked", "applying", "running",
                                "leaving", "ended"}]
      /\ outcome' \in [Migrators -> {"none", "empty", "failed", "checksum",
                                     "conflict", "shown", "done"}]
      /\ \A x \in Migrators \ {m} : pc'[x] = pc[x] /\ outcome'[x] = outcome[x]
      /\ pc'[m] \in {"waiting", "ended"}
      /\ outcome'[m] \in {outcome[m], "empty"}
  BY <1>0, <1>2, LeavesOrGoes DEF TypeOK, Goes
<1> QED
  <2>1. TypeOK'
    BY <1>0, <1>1, <1>3, <1>4 DEF TypeOK, database
  <2>2. outcome[m] = "none"
    BY <1>1 DEF IInv, Undecided
  <2>3. pc'[m] # "ended" => outcome'[m] = "none"
    BY <1>0, <1>2, <2>2 DEF Goes, TypeOK
  <2> QED
    BY <1>1, <1>3, <1>4, <2>1, <2>2, <2>3, DatabaseAlone

LEMMA LockKeepsInvariant ==
    ASSUME IInv, NEW m \in Migrators, Lock(m)
    PROVE  IInv'
<1>0. TypeOK /\ outcome[m] = "none"
  BY DEF IInv, Lock, Undecided
<1>1. /\ lock = NoOne /\ lock' = m
      /\ Goes(m, "locked")
      /\ UNCHANGED <<database, dir, todo, faults>>
  BY DEF Lock, LockIsFree
<1>2. /\ pc' \in [Migrators -> {"new", "waiting", "locked", "applying", "running",
                                "leaving", "ended"}]
      /\ outcome' = outcome
      /\ \A x \in Migrators \ {m} : pc'[x] = pc[x]
      /\ pc'[m] = "locked"
  BY <1>0, <1>1 DEF Goes, TypeOK
<1>3. TypeOK'
  BY <1>0, <1>1, <1>2 DEF TypeOK, database
<1> QED
  BY <1>0, <1>1, <1>2, <1>3, DatabaseAlone

LEMMA FailingKeepsInvariant ==
    ASSUME IInv, NEW m \in Migrators, LockTimesOut(m) \/ Fails(m)
    PROVE  IInv'
<1>0. TypeOK
  BY DEF IInv
<1>1. /\ Leaves(m, "failed") /\ Fault
      /\ UNCHANGED <<database, lock, dir, todo>>
  BY DEF LockTimesOut, Fails
<1>2. TypeOK'
  BY <1>0, <1>1, FaultCounts, LeavesOrGoes DEF TypeOK, database
<1> QED
  BY <1>0, <1>1, <1>2, LeavesOrGoes, DatabaseAlone

LEMMA ReadKeepsInvariant ==
    ASSUME IInv, NEW m \in Migrators, Read(m)
    PROVE  IInv'
<1>0. TypeOK /\ outcome[m] = "none" /\ lock = m /\ pc[m] = "locked"
  BY DEF IInv, Read, Undecided, LockIsHeld
<1>1. /\ todo' = [todo EXCEPT ![m] = DOMAIN dir[m] \ DOMAIN table]
      /\ UNCHANGED <<database, lock, dir, faults>>
      /\ \/ Verified(m) /\ Goes(m, "applying")
         \/ Leaves(m, "checksum")
         \/ Leaves(m, "shown")
  BY DEF Read
<1>2. /\ todo'[m] = DOMAIN dir[m] \ DOMAIN table
      /\ \A x \in Migrators \ {m} : todo'[x] = todo[x]
      /\ todo' \in [Migrators -> SUBSET (1..Files)]
  <2>1. DOMAIN dir[m] \subseteq 1..Files
    BY <1>0, DirectoryIsFunction DEF TypeOK
  <2> QED
    BY <1>0, <1>1, <2>1 DEF TypeOK
<1>3. /\ pc' \in [Migrators -> {"new", "waiting", "locked", "applying", "running",
                                "leaving", "ended"}]
      /\ outcome' \in [Migrators -> {"none", "empty", "failed", "checksum",
                                     "conflict", "shown", "done"}]
      /\ \A x \in Migrators \ {m} : pc'[x] = pc[x] /\ outcome'[x] = outcome[x]
      /\ \/ pc'[m] = "applying" /\ outcome'[m] = outcome[m] /\ Verified(m)
         \/ pc'[m] = "leaving" /\ outcome'[m] \in {"checksum", "shown"}
  BY <1>0, <1>1, LeavesOrGoes DEF Goes, Leaves
<1>4. TypeOK'
  BY <1>0, <1>1, <1>2, <1>3 DEF TypeOK, database
<1>5. pc'[m] = "applying" => Current(m)'
  BY <1>1, <1>2, <1>3 DEF Current, Verified, database
<1> QED
  BY <1>0, <1>1, <1>2, <1>3, <1>4, <1>5, DatabaseAlone

(* The next file has not been applied, so its SQL and its row go in. *)
LEMMA NextIsNew ==
    ASSUME IInv, NEW m \in Migrators, pc[m] \in {"applying", "running"}, todo[m] # {}
    PROVE  NextFile(m) \notin DOMAIN schema /\ NextFile(m) \notin DOMAIN table
<1>1. todo[m] = DOMAIN dir[m] \ DOMAIN table /\ schema = table
  BY DEF IInv, LoopIsCurrent, Current, SchemaIsRecorded
<1>2. NextFile(m) \in todo[m]
  BY NextFileIsToDo DEF IInv
<1> QED
  BY <1>1, <1>2

LEMMA RunKeepsInvariant ==
    ASSUME IInv, NEW m \in Migrators, Run(m)
    PROVE  IInv'
<1>0. TypeOK /\ outcome[m] = "none" /\ lock = m /\ pc[m] = "applying" /\ Current(m)
  BY DEF IInv, Run, Undecided, LockIsHeld, LoopIsCurrent
<1>1. /\ todo[m] # {} /\ Goes(m, "running")
      /\ UNCHANGED <<database, lock, dir, todo, faults>>
  BY <1>0, NextIsNew DEF Run
<1>2. /\ pc' \in [Migrators -> {"new", "waiting", "locked", "applying", "running",
                                "leaving", "ended"}]
      /\ outcome' = outcome
      /\ \A x \in Migrators \ {m} : pc'[x] = pc[x]
      /\ pc'[m] = "running"
  BY <1>0, <1>1 DEF Goes, TypeOK
<1>3. TypeOK' /\ Current(m)'
  BY <1>0, <1>1, <1>2 DEF TypeOK, database, Current, Verified
<1> QED
  BY <1>0, <1>1, <1>2, <1>3, DatabaseAlone

LEMMA CommitKeepsInvariant ==
    ASSUME IInv, NEW m \in Migrators, Commit(m)
    PROVE  IInv'
<1>0. TypeOK /\ outcome[m] = "none" /\ lock = m /\ pc[m] = "running" /\ todo[m] # {}
      /\ todo[m] \subseteq DOMAIN dir[m]
  BY DEF IInv, Commit, Undecided, LockIsHeld, LoopIsCurrent, Current
<1>1. /\ schema' = Applied(schema, m)
      /\ table' = Applied(table, m)
      /\ todo' = [todo EXCEPT ![m] = @ \ {NextFile(m)}]
      /\ Goes(m, "applying")
      /\ UNCHANGED <<lock, dir, faults>>
  BY <1>0, NextIsNew DEF Commit
<1>2. /\ pc' \in [Migrators -> {"new", "waiting", "locked", "applying", "running",
                                "leaving", "ended"}]
      /\ outcome' = outcome
      /\ \A x \in Migrators \ {m} : pc'[x] = pc[x]
      /\ pc'[m] = "applying"
  BY <1>0, <1>1 DEF Goes, TypeOK
<1>3. /\ todo'[m] = todo[m] \ {NextFile(m)}
      /\ \A x \in Migrators \ {m} : todo'[x] = todo[x]
      /\ todo' \in [Migrators -> SUBSET (1..Files)]
  BY <1>0, <1>1 DEF TypeOK
<1>4. schema' \in Directories /\ table' \in Directories
  BY <1>0, <1>1, AppliedIsMore DEF TypeOK
<1>5. TypeOK'
  BY <1>0, <1>1, <1>2, <1>3, <1>4 DEF TypeOK
<1> QED
  BY <1>0, <1>1, <1>2, <1>3, <1>5, ApplyingNext

LEMMA FinishKeepsInvariant ==
    ASSUME IInv, NEW m \in Migrators, Finish(m)
    PROVE  IInv'
<1>0. /\ TypeOK /\ pc[m] = "applying" /\ todo[m] = {}
      /\ todo[m] = DOMAIN dir[m] \ DOMAIN table /\ Verified(m) /\ schema = table
      /\ Leaves(m, "done")
      /\ UNCHANGED <<database, lock, dir, todo, faults>>
  BY DEF IInv, Finish, LoopIsCurrent, Current, SchemaIsRecorded
<1>1. TypeOK'
  BY <1>0, LeavesOrGoes DEF TypeOK, database
<1>2. Migrated(m)'
  BY <1>0 DEF Migrated, Verified, database
<1>3. \A x \in Migrators \ {m} : pc'[x] = pc[x] /\ outcome'[x] = outcome[x]
  BY <1>0 DEF Leaves, TypeOK
<1>4. pc'[m] = "leaving" /\ outcome'[m] = "done"
  BY <1>0 DEF Leaves, TypeOK
<1> QED
  BY <1>0, <1>1, <1>2, <1>3, <1>4, DatabaseAlone

LEMMA UnlockKeepsInvariant ==
    ASSUME IInv, NEW m \in Migrators, Unlock(m)
    PROVE  IInv'
<1>0. /\ TypeOK /\ pc[m] = "leaving"
      /\ lock' = IF lock = m THEN NoOne ELSE lock
      /\ Goes(m, "ended")
      /\ UNCHANGED <<database, dir, todo, faults>>
      /\ outcome[m] # "conflict" /\ (outcome[m] = "done" => Migrated(m))
  BY DEF IInv, Unlock, FreedBy, NoConflict, DoneMeansMigrated, Migrated
<1>1. /\ pc' \in [Migrators -> {"new", "waiting", "locked", "applying", "running",
                                "leaving", "ended"}]
      /\ outcome' = outcome
      /\ \A x \in Migrators \ {m} : pc'[x] = pc[x]
      /\ pc'[m] = "ended"
  BY <1>0 DEF Goes, TypeOK
<1>2. TypeOK'
  BY <1>0, <1>1 DEF TypeOK, database
<1>3. outcome'[m] = "done" => Migrated(m)'
  BY <1>0, <1>1 DEF Migrated, database
<1> QED
  BY <1>0, <1>1, <1>2, <1>3, DatabaseAlone

LEMMA ConnectionLostKeepsInvariant ==
    ASSUME IInv, NEW m \in Migrators, ConnectionLost(m)
    PROVE  IInv'
<1>0. /\ TypeOK /\ Fault
      /\ lock' = IF lock = m THEN NoOne ELSE lock
      /\ pc' = [pc EXCEPT ![m] = "ended"]
      /\ outcome' = [outcome EXCEPT ![m] = "failed"]
      /\ UNCHANGED <<dir, todo>>
  BY DEF IInv, ConnectionLost
<1>1. /\ pc' \in [Migrators -> {"new", "waiting", "locked", "applying", "running",
                                "leaving", "ended"}]
      /\ outcome' \in [Migrators -> {"none", "empty", "failed", "checksum",
                                     "conflict", "shown", "done"}]
      /\ \A x \in Migrators \ {m} : pc'[x] = pc[x] /\ outcome'[x] = outcome[x]
      /\ pc'[m] = "ended" /\ outcome'[m] = "failed"
      /\ lock' \in Migrators \cup {NoOne}
      /\ faults' \in 0..MaxFaults
  BY <1>0, FaultCounts DEF TypeOK
<1>2. CASE UNCHANGED database
  <2>1. TypeOK'
    BY <1>0, <1>1, <1>2 DEF TypeOK, database
  <2> QED
    BY <1>0, <1>1, <1>2, <2>1, DatabaseAlone
<1>3. CASE /\ pc[m] = "running"
           /\ schema' = Applied(schema, m)
           /\ table' = Applied(table, m)
  <2>1. lock = m /\ todo[m] # {} /\ todo[m] \subseteq DOMAIN dir[m]
    BY <1>3 DEF IInv, LockIsHeld, LoopIsCurrent, Current
  <2>2. schema' \in Directories /\ table' \in Directories
    BY <1>0, <1>3, <2>1, AppliedIsMore DEF TypeOK
  <2>3. TypeOK'
    BY <1>0, <1>1, <2>2 DEF TypeOK
  <2> QED
    BY <1>0, <1>1, <1>3, <2>1, <2>3, ApplyingNext
<1> QED
  BY <1>2, <1>3 DEF ConnectionLost

LEMMA NextKeepsInvariant == IInv /\ [Next]_vars => IInv'
<1> SUFFICES ASSUME IInv, [Next]_vars
             PROVE  IInv'
  OBVIOUS
<1>1. ASSUME NEW m \in Migrators,
             Start(m) \/ Step(m) \/ LockTimesOut(m) \/ Fails(m) \/ ConnectionLost(m)
      PROVE  IInv'
  BY <1>1, StartKeepsInvariant, LockKeepsInvariant, FailingKeepsInvariant,
     ReadKeepsInvariant, RunKeepsInvariant, CommitKeepsInvariant, FinishKeepsInvariant,
     UnlockKeepsInvariant, ConnectionLostKeepsInvariant DEF Step
<1>2. CASE UNCHANGED vars
  BY <1>2 DEF vars, IInv, TypeOK, LockIsHeld, LoopIsCurrent, Current, Verified, Undecided,
              SchemaIsRecorded, NoConflict, DoneMeansMigrated
<1> QED
  BY <1>1, <1>2 DEF Next

(* In every state of every execution the inductive invariant holds. *)
THEOREM Invariance == Spec => []IInv
BY InitInvariant, NextKeepsInvariant, PTL DEF Spec

-----------------------------------------------------------------------------
(***************************************************************************)
(* What follows from it                                                    *)
(***************************************************************************)

(* Every variable keeps its type. *)
THEOREM TypeCorrect == Spec => []TypeOK
<1>1. IInv => TypeOK
  BY DEF IInv
<1> QED
  BY <1>1, Invariance, PTL

(* Nobody runs a file that another has applied since it looked. *)
THEOREM NobodyConflicts == Spec => []NoConflict
<1>1. IInv => NoConflict
  BY DEF IInv
<1> QED
  BY <1>1, Invariance, PTL

(* The schema is always the one that is recorded. *)
THEOREM SchemaIsAlwaysRecorded == Spec => []SchemaIsRecorded
<1>1. IInv => SchemaIsRecorded
  BY DEF IInv
<1> QED
  BY <1>1, Invariance, PTL

(* Whoever is through has its whole release applied, and keeps it. *)
THEOREM DoneStaysMigrated == Spec => []DoneMeansMigrated
<1>1. IInv => DoneMeansMigrated
  BY DEF IInv
<1> QED
  BY <1>1, Invariance, PTL
=============================================================================
