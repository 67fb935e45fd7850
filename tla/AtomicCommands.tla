--------------------------- MODULE AtomicCommands ---------------------------
(***************************************************************************)
(* What PostgresMatchCommandExecutor promises to those who call it: a      *)
(* match is a log of changes, and every command takes its effect, or is    *)
(* found to have none, at one moment.  There are no transactions here, no  *)
(* snapshots, attempts or locks.                                           *)
(***************************************************************************)
EXTENDS Naturals, Sequences

CONSTANTS Keys, NoKey, Bodies, NoBody

VARIABLES
    log,      \* the key of each change of the match, NoKey of a deadline's
    records,  \* what is kept of the first command under each key
    answers   \* what the callers were told

vars == <<log, records, answers>>

(* A match begins with version 1, before any change. *)
VersionOf(l) == Len(l) + 1

NoRecord == [body |-> NoBody, answer |-> 0]

Answer(k, record) == [key |-> k, body |-> record.body, answer |-> record.answer]

Init ==
    /\ log = <<>>
    /\ records = [k \in Keys |-> NoRecord]
    /\ answers = {}

(* The first command under a key: it changes the match, or leaves it as it *)
(* is, and its answer is kept, whether or not it reaches the caller.       *)
Execute(k, b) ==
    /\ records[k] = NoRecord
    /\ log' \in {log, Append(log, k)}
    /\ records' = [records EXCEPT ![k] = [body |-> b, answer |-> VersionOf(log')]]
    /\ answers' \in {answers, answers \cup {Answer(k, records'[k])}}

(* The same command again is told what was answered then. *)
Repeat(k, b) ==
    /\ records[k].body = b
    /\ answers' = answers \cup {Answer(k, records[k])}
    /\ UNCHANGED <<log, records>>

(* Deadlines add changes that are of no key, and take none away. *)
Elapse ==
    /\ Len(log') > Len(log)
    /\ SubSeq(log', 1, Len(log)) = log
    /\ \A i \in (Len(log) + 1)..Len(log') : log'[i] = NoKey
    /\ UNCHANGED <<records, answers>>

Next == Elapse \/ \E k \in Keys, b \in Bodies : Execute(k, b) \/ Repeat(k, b)

Spec == Init /\ [][Next]_vars
=============================================================================
