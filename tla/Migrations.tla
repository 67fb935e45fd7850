----------------------------- MODULE Migrations -----------------------------
(***************************************************************************)
(* runMigrations and migrationStatus: processes that start at any time, of *)
(* any release, bring the one database to the schema of their directory.   *)
(* They take turns under an advisory lock of the session, and every file   *)
(* is a transaction that also records its checksum.                        *)
(*                                                                         *)
(* A file is its place in the order of names, its contents an edition of   *)
(* it; the checksum of an edition is the edition.                          *)
(***************************************************************************)
EXTENDS Naturals, FiniteSetsExt

CONSTANTS
    Migrators,  \* processes: workers and migrate-main
    NoOne,
    Files,      \* bound: files there are
    Editions,
    MaxFaults   \* bound: errors, time-outs and lost connections

ASSUME MigratorAssumption ==
    /\ NoOne \notin Migrators
    /\ Files \in Nat
    /\ MaxFaults \in Nat

VARIABLES
    schema,   \* the edition of each file whose SQL is committed
    table,    \* the checksum of each file that schema_migrations lists
    lock,     \* the migrator whose session has the advisory lock
    pc,       \* how far each migrator is
    outcome,  \* how it ended
    dir,      \* its directory: the edition of each file
    todo,     \* the files its loop has yet to apply
    faults    \* counts against MaxFaults

vars == <<schema, table, lock, pc, outcome, dir, todo, faults>>

database == <<schema, table>>

Directories == UNION {[S -> Editions] : S \in SUBSET (1..Files)}

Init ==
    /\ schema = <<>>
    /\ table = <<>>
    /\ lock = NoOne
    /\ pc = [m \in Migrators |-> "new"]
    /\ outcome = [m \in Migrators |-> "none"]
    /\ dir = [m \in Migrators |-> <<>>]
    /\ todo = [m \in Migrators |-> {}]
    /\ faults = 0

Fault ==
    /\ faults < MaxFaults
    /\ faults' = faults + 1

Goes(m, step) ==
    /\ pc' = [pc EXCEPT ![m] = step]
    /\ UNCHANGED outcome

(* action returns or throws; withMigrationLock goes on to its finally. *)
Leaves(m, result) ==
    /\ pc' = [pc EXCEPT ![m] = "leaving"]
    /\ outcome' = [outcome EXCEPT ![m] = result]

(* readMigrations: an empty directory is an error, before any lock. *)
Start(m) ==
    /\ pc[m] = "new"
    /\ \E d \in Directories :
          /\ dir' = [dir EXCEPT ![m] = d]
          /\ IF DOMAIN d = {}
             THEN /\ pc' = [pc EXCEPT ![m] = "ended"]
                  /\ outcome' = [outcome EXCEPT ![m] = "empty"]
             ELSE Goes(m, "waiting")
    /\ UNCHANGED <<database, lock, todo, faults>>

LockIsFree_Mutant(m) == TRUE  \* no lock

LockIsFree(m) == lock = NoOne

Lock(m) ==
    /\ pc[m] = "waiting"
    /\ LockIsFree(m)
    /\ lock' = m
    /\ Goes(m, "locked")
    /\ UNCHANGED <<database, dir, todo, faults>>

(* statement_timeout ends the wait, if others take that long. *)
LockTimesOut(m) ==
    /\ pc[m] = "waiting"
    /\ lock # NoOne
    /\ Fault
    /\ Leaves(m, "failed")
    /\ UNCHANGED <<database, lock, dir, todo>>

(* verifyChecksums: the files of the directory that have been applied. *)
Verified_Mutant(m) == TRUE  \* an applied file may change

Verified(m) == \A n \in DOMAIN dir[m] \cap DOMAIN table : dir[m][n] = table[n]

(* What is applied is read once, under the lock, and the loop relies on it. *)
(* db:status only shows it.                                                 *)
Read(m) ==
    /\ pc[m] = "locked"
    /\ todo' = [todo EXCEPT ![m] = DOMAIN dir[m] \ DOMAIN table]
    /\ \/ ~Verified(m) /\ Leaves(m, "checksum")
       \/ Verified(m) /\ Leaves(m, "shown")
       \/ Verified(m) /\ Goes(m, "applying")
    /\ UNCHANGED <<database, lock, dir, faults>>

(* The next file in the order of names. *)
NextFile(m) == Min(todo[m])

Applied(f, m) ==
    [n \in DOMAIN f \cup {NextFile(m)} |->
        IF n = NextFile(m) THEN dir[m][n] ELSE f[n]]

Run_Mutant(m) ==  \* outside of the transaction that records it
    /\ pc[m] = "applying"
    /\ todo[m] # {}
    /\ IF NextFile(m) \in DOMAIN schema
       THEN Leaves(m, "conflict") /\ UNCHANGED schema
       ELSE Goes(m, "running") /\ schema' = Applied(schema, m)
    /\ UNCHANGED <<table, lock, dir, todo, faults>>

(* The SQL of a file runs in a new transaction.  It creates what must not   *)
(* be there already.                                                        *)
Run(m) ==
    /\ pc[m] = "applying"
    /\ todo[m] # {}
    /\ IF NextFile(m) \in DOMAIN schema THEN Leaves(m, "conflict")
                                        ELSE Goes(m, "running")
    /\ UNCHANGED <<database, lock, dir, todo, faults>>

(* Its row is inserted and both are committed. *)
Commit(m) ==
    /\ pc[m] = "running"
    /\ IF NextFile(m) \in DOMAIN table
       THEN /\ Leaves(m, "conflict")
            /\ UNCHANGED <<database, todo>>
       ELSE /\ schema' = Applied(schema, m)
            /\ table' = Applied(table, m)
            /\ todo' = [todo EXCEPT ![m] = @ \ {NextFile(m)}]
            /\ Goes(m, "applying")
    /\ UNCHANGED <<lock, dir, faults>>

(* The loop is through. *)
Finish(m) ==
    /\ pc[m] = "applying"
    /\ todo[m] = {}
    /\ Leaves(m, "done")
    /\ UNCHANGED <<database, lock, dir, todo, faults>>

(* A statement fails: the open transaction is rolled back. *)
Fails(m) ==
    /\ pc[m] \in {"locked", "applying", "running"}
    /\ Fault
    /\ Leaves(m, "failed")
    /\ UNCHANGED <<database, lock, dir, todo>>

FreedBy_Mutant(m) == lock  \* goes back to the pool with its lock

FreedBy(m) == IF lock = m THEN NoOne ELSE lock

(* finally: unlocking frees nothing that another session has locked. *)
Unlock(m) ==
    /\ pc[m] = "leaving"
    /\ lock' = FreedBy(m)
    /\ Goes(m, "ended")
    /\ UNCHANGED <<database, dir, todo, faults>>

(* The process or its connection is gone, and the session's lock with it;   *)
(* if it was committing, that may have succeeded.                           *)
ConnectionLost(m) ==
    /\ pc[m] \notin {"new", "ended"}
    /\ Fault
    /\ lock' = IF lock = m THEN NoOne ELSE lock
    /\ pc' = [pc EXCEPT ![m] = "ended"]
    /\ outcome' = [outcome EXCEPT ![m] = "failed"]
    /\ \/ UNCHANGED database
       \/ /\ pc[m] = "running"
          /\ NextFile(m) \notin DOMAIN table
          /\ schema' = Applied(schema, m)
          /\ table' = Applied(table, m)
    /\ UNCHANGED <<dir, todo>>

Step(m) == Lock(m) \/ Read(m) \/ Run(m) \/ Commit(m) \/ Finish(m) \/ Unlock(m)

Next ==
    \E m \in Migrators :
        Start(m) \/ Step(m) \/ LockTimesOut(m) \/ Fails(m) \/ ConnectionLost(m)

Spec == Init /\ [][Next]_vars

(* A statement that can go on does, and a free lock is granted. *)
Fairness == \A m \in Migrators : WF_vars(Step(m))

FairSpec == Spec /\ Fairness

-----------------------------------------------------------------------------
(***************************************************************************)
(* Properties                                                              *)
(***************************************************************************)

TypeOK ==
    /\ schema \in Directories
    /\ table \in Directories
    /\ lock \in Migrators \cup {NoOne}
    /\ pc \in [Migrators -> {"new", "waiting", "locked", "applying", "running",
                             "leaving", "ended"}]
    /\ outcome \in [Migrators -> {"none", "empty", "failed", "checksum",
                                  "conflict", "shown", "done"}]
    /\ dir \in [Migrators -> Directories]
    /\ todo \in [Migrators -> SUBSET (1..Files)]
    /\ faults \in 0..MaxFaults

(* However many start together, nobody runs a file that another has        *)
(* applied since it looked: the list read under the lock stays true until  *)
(* the loop over it is through (migrations.ts:82-90, 133-139).             *)
NoConflict == \A m \in Migrators : outcome[m] # "conflict"

(* Whatever fails on the way, the schema is the one schema_migrations      *)
(* tells: no file is applied without its row, recorded without having run, *)
(* or of another edition than recorded (migrations.ts:141-152).            *)
SchemaIsRecorded == schema = table

(* A worker that gets past its migrations finds every file of its own      *)
(* release applied, as it has it, whatever other releases did before,      *)
(* meanwhile or after (migrations.ts:94-104, 133-164).                     *)
DoneMeansMigrated ==
    \A m \in Migrators :
        outcome[m] = "done" =>
            \A n \in DOMAIN dir[m] : n \in DOMAIN schema /\ schema[n] = dir[m][n]

(* Everybody who waits for the lock ends, whatever becomes of its holders. *)
MigratorsEnd == \A m \in Migrators : pc[m] = "waiting" ~> pc[m] = "ended"
=============================================================================
