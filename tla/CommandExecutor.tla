-------------------------- MODULE CommandExecutor --------------------------
(***************************************************************************)
(* PostgresMatchCommandExecutor.execute on one match: clients send commands *)
(* under idempotency keys, again when an answer does not come, and each     *)
(* call is a SERIALIZABLE transaction that its runner retries.              *)
(*                                                                         *)
(* Of PostgreSQL the transactions see this: a transaction reads the         *)
(* snapshot of its first statement, writing a row waits for whoever has     *)
(* written or locked it, and fails (40001) if it was changed since the      *)
(* snapshot.  A transaction may fail so, or as the victim of a deadlock     *)
(* (40P01), at any point.  Locks are not a variable: what a call holds      *)
(* follows from how far it is.                                              *)
(***************************************************************************)
EXTENDS Naturals, FiniteSets

CONSTANTS
    Clients,
    Keys,             \* account, operation and idempotency key
    NoKey,            \* the key of a change that is no command
    Bodies,           \* requests, by their hash
    NoBody,
    MaximumAttempts,  \* of the transaction runner
    MaxCalls,         \* bound: calls made
    MaxDeadlines,     \* bound: events after which no deadline comes
    MaxFaults         \* bound: crashes and lost answers

ASSUME KeyAssumption == NoKey \notin Keys /\ NoBody \notin Bodies

ASSUME LimitAssumption ==
    /\ MaximumAttempts \in Nat \ {0}
    /\ MaxCalls \in Nat
    /\ MaxDeadlines \in Nat
    /\ MaxFaults \in Nat

VARIABLES
    version,    \* matches.version
    records,    \* the idempotency_keys rows
    events,     \* the match_events rows, and the outbox_events rows with them
    tx,         \* the call of each client
    answers,    \* every answer a client was given
    calls,      \* counts against MaxCalls
    faults      \* counts against MaxFaults

vars == <<version, records, events, tx, answers, calls, faults>>

(* answer: the stored response, which tells the version it was given at. *)
Record == [body : Bodies \cup {NoBody}, answer : Nat]

NoRecord == [body |-> NoBody, answer |-> 0]

Event == [key : Keys \cup {NoKey}, version : Nat]

(* ready: about to begin an attempt.  inserting: acquiring the key.         *)
(* acquired: its row is written.  locked: the match's row is locked too.    *)
(* seenRecord, seenVersion: the attempt's snapshot.                         *)
Call == [at : {"idle", "ready", "inserting", "acquired", "locked"},
         key : Keys \cup {NoKey}, body : Bodies \cup {NoBody},
         attempt : 0..MaximumAttempts, seenRecord : Record, seenVersion : Nat]

Idle == [at |-> "idle", key |-> NoKey, body |-> NoBody, attempt |-> 0,
         seenRecord |-> NoRecord, seenVersion |-> 0]

Init ==
    /\ version = 1
    /\ records = [k \in Keys |-> NoRecord]
    /\ events = {}
    /\ tx = [c \in Clients |-> Idle]
    /\ answers = {}
    /\ calls = 0
    /\ faults = 0

Goes(c, step) == tx' = [tx EXCEPT ![c].at = step]

Ends(c) == tx' = [tx EXCEPT ![c] = Idle]

Fault ==
    /\ faults < MaxFaults
    /\ faults' = faults + 1

(* A call ends with an answer, which may get lost on its way. *)
Answers(c, answer) ==
    /\ Ends(c)
    /\ \/ /\ answers' = answers \cup {[key |-> tx[c].key, body |-> tx[c].body,
                                       answer |-> answer]}
          /\ UNCHANGED faults
       \/ /\ Fault
          /\ UNCHANGED answers

(* The runner rolls back and tries again, or gives up with an error. *)
Retries_Mutant(c) == Goes(c, "ready")  \* never gives up

Retries(c) ==
    IF tx[c].attempt = MaximumAttempts
    THEN Ends(c)
    ELSE tx' = [tx EXCEPT ![c].at = "ready", ![c].attempt = @ + 1]

(* A new command, or one that is sent again, before or after its answer. *)
Send(c) ==
    /\ tx[c].at = "idle"
    /\ calls < MaxCalls
    /\ calls' = calls + 1
    /\ \E k \in Keys, b \in Bodies :
          tx' = [tx EXCEPT ![c] = [Idle EXCEPT !.at = "ready", !.key = k,
                                               !.body = b, !.attempt = 1]]
    /\ UNCHANGED <<version, records, events, answers, faults>>

Begin(c) ==
    /\ tx[c].at = "ready"
    /\ tx' = [tx EXCEPT ![c].at = "inserting",
                        ![c].seenRecord = records[tx[c].key],
                        ![c].seenVersion = version]
    /\ UNCHANGED <<version, records, events, answers, calls, faults>>

(* Somebody else's transaction has the key's row, or the match's. *)
KeyHeld(c) ==
    \E d \in Clients \ {c} : tx[d].key = tx[c].key /\ tx[d].at \in {"acquired", "locked"}

MatchHeld(c) == \E d \in Clients \ {c} : tx[d].at = "locked"

(* The row of the key is the one the snapshot shows. *)
RecordIsSeen(c) == records[tx[c].key] = tx[c].seenRecord

VersionIsSeen_Mutant(c) == TRUE

VersionIsSeen(c) == version = tx[c].seenVersion

SameRequest_Mutant(c) == TRUE  \* the hash is not compared

SameRequest(c) == tx[c].seenRecord.body = tx[c].body

(* acquire: INSERT ... ON CONFLICT DO NOTHING, and the row there is if none *)
(* was inserted.  It answers a repeated request and refuses another one.    *)
Acquire(c) ==
    /\ tx[c].at = "inserting"
    /\ ~KeyHeld(c)
    /\ \/ /\ ~RecordIsSeen(c)
          /\ Retries(c)
          /\ UNCHANGED <<answers, faults>>
       \/ /\ RecordIsSeen(c)
          /\ tx[c].seenRecord = NoRecord
          /\ Goes(c, "acquired")
          /\ UNCHANGED <<answers, faults>>
       \/ /\ RecordIsSeen(c)
          /\ tx[c].seenRecord # NoRecord
          /\ SameRequest(c)
          /\ Answers(c, tx[c].seenRecord.answer)
       \/ /\ RecordIsSeen(c)
          /\ tx[c].seenRecord # NoRecord
          /\ ~SameRequest(c)
          /\ Ends(c)
          /\ UNCHANGED <<answers, faults>>
    /\ UNCHANGED <<version, records, events, calls>>

(* load: the match's row is locked before the command looks at it. *)
Load(c) ==
    /\ tx[c].at = "acquired"
    /\ ~MatchHeld(c)
    /\ IF VersionIsSeen(c) THEN Goes(c, "locked") ELSE Retries(c)
    /\ UNCHANGED <<version, records, events, answers, calls, faults>>

(* complete: the answer is stored with the key, in the same transaction. *)
Completes_Mutant(c, answer) ==  \* in a transaction of its own, which may fail
    \/ records' = [records EXCEPT ![tx[c].key] = [body |-> tx[c].body, answer |-> answer]]
    \/ UNCHANGED records

CompletesChanges_Mutant(c, answer) ==  \* forgets a command that changed nothing
    IF answer = version
    THEN UNCHANGED records
    ELSE records' = [records EXCEPT ![tx[c].key] = [body |-> tx[c].body, answer |-> answer]]

Completes(c, answer) ==
    records' = [records EXCEPT ![tx[c].key] = [body |-> tx[c].body, answer |-> answer]]

(* apply and commit: the command makes the next version of the match, with  *)
(* its event, or leaves the match as it is; either way its key is complete. *)
Commit(c) ==
    /\ tx[c].at = "locked"
    /\ \E v \in {tx[c].seenVersion, tx[c].seenVersion + 1} :
          /\ version' = v
          /\ events' = IF v = tx[c].seenVersion THEN events
                       ELSE events \cup {[key |-> tx[c].key, version |-> v]}
          /\ Completes(c, v)
          /\ Answers(c, v)
    /\ UNCHANGED calls

(* apply throws: everything is rolled back, the key included. *)
Reject(c) ==
    /\ tx[c].at = "locked"
    /\ Ends(c)
    /\ UNCHANGED <<version, records, events, answers, calls, faults>>

(* PostgreSQL ends the attempt with an error that the runner retries. *)
Abort(c) ==
    /\ tx[c].at \in {"inserting", "acquired", "locked"}
    /\ Retries(c)
    /\ UNCHANGED <<version, records, events, answers, calls, faults>>

(* The process or its connection is lost before the commit. *)
Crash(c) ==
    /\ tx[c].at # "idle"
    /\ Fault
    /\ Ends(c)
    /\ UNCHANGED <<version, records, events, answers, calls>>

(* The most steps of the engine that one deadline takes. *)
DeadlineSteps == 3

(* Another transaction, that of a deadline, changes the match by one or     *)
(* more versions, each with its event.                                      *)
Deadline ==
    /\ \A c \in Clients : tx[c].at # "locked"
    /\ Cardinality({e \in events : e.key = NoKey}) < MaxDeadlines
    /\ \E n \in 1..DeadlineSteps :
          /\ version' = version + n
          /\ events' = events \cup {[key |-> NoKey, version |-> version + i] : i \in 1..n}
    /\ UNCHANGED <<records, tx, answers, calls, faults>>

Step(c) == Begin(c) \/ Acquire(c) \/ Load(c) \/ Commit(c) \/ Reject(c)

Next == Deadline \/ \E c \in Clients : Send(c) \/ Step(c) \/ Abort(c) \/ Crash(c)

Spec == Init /\ [][Next]_vars

(* A transaction that can go on does, and a lock is granted when it is free; *)
(* nothing makes the database abort, or not abort.                          *)
Fairness == \A c \in Clients : WF_vars(Step(c))

FairSpec == Spec /\ Fairness

-----------------------------------------------------------------------------
(***************************************************************************)
(* Properties                                                              *)
(***************************************************************************)

TypeOK ==
    /\ version \in Nat \ {0}
    /\ records \in [Keys -> Record]
    /\ events \in SUBSET Event
    /\ tx \in [Clients -> Call]
    /\ answers \in SUBSET [key : Keys, body : Bodies, answer : Nat]
    /\ calls \in 0..MaxCalls
    /\ faults \in 0..MaxFaults

(* However often, and however concurrently, a command is sent, it changes   *)
(* the match once at most (docs/TECHNICAL_ARCHITECTURE.md:721), and its key *)
(* is complete exactly with the change: the two commit together.            *)
EffectOnce ==
    /\ \A e1, e2 \in events : e1.key = e2.key /\ e1.key # NoKey => e1 = e2
    /\ \A e \in events : e.key # NoKey => records[e.key].answer = e.version

(* All answers a key is ever given are the first one, to the first request  *)
(* under it, and are still true of the database: a command that was         *)
(* answered is not lost (docs/TECHNICAL_ARCHITECTURE.md:387).               *)
OneAnswer ==
    \A a \in answers : records[a.key] = [body |-> a.body, answer |-> a.answer]

(* Every version of the match has its event and no two changes made the     *)
(* same version: commands and deadlines never overwrite each other, and     *)
(* UNIQUE (match_id, match_version, sequence) is never violated.            *)
LogIsGapless ==
    /\ {e.version : e \in events} = 2..version
    /\ Cardinality(events) = version - 1

(* The changes of the match in the order of their versions. *)
EventOf(v) == CHOOSE e \in events : e.version = v

Log == [i \in 1..(version - 1) |-> EventOf(i + 1).key]

Atomic == INSTANCE AtomicCommands WITH log <- Log

(* A command sent any number of times, by anybody, in transactions that     *)
(* overlap, fail, wait and are run again, is for all that can be seen of    *)
(* the log, the keys and the answers executed at one moment, or not at all  *)
(* (docs/TECHNICAL_ARCHITECTURE.md:387, :721).                              *)
ImplementsAtomicCommands == Atomic!Spec

(* Every call ends, though the database may abort each of its attempts and  *)
(* others hold the rows it waits for.                                       *)
CallsEnd == \A c \in Clients : tx[c].at # "idle" ~> tx[c].at = "idle"
=============================================================================
