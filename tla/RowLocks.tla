------------------------------ MODULE RowLocks ------------------------------
(***************************************************************************)
(* The transactions of commands, deadlines and recovery on the rows they   *)
(* share: matches and scheduled_jobs.  DeadlineJobs has them as atomic     *)
(* actions; here they take their locks row by row, in the order of their   *)
(* statements, and wait for each other.                                    *)
(*                                                                         *)
(* Of PostgreSQL under SERIALIZABLE: a transaction sees the snapshot of    *)
(* its first statement and its own changes.  Locking or changing a row     *)
(* that was changed since the snapshot fails with 40001; one that another  *)
(* transaction has locked is waited for; SKIP LOCKED does not wait.  Locks *)
(* are held to the end.  It may abort a transaction at any point for other *)
(* reasons.  An aborted transaction that its runner begins again is another *)
(* call here.                                                              *)
(***************************************************************************)
EXTENDS Naturals, FiniteSetsExt

CONSTANTS
    Sessions,    \* connections of workers and of the API
    NoOne,
    MatchCount,  \* bound: matches
    MaxVersion,  \* bound: version of a match
    MaxAttempts  \* scheduled_jobs.max_attempts

ASSUME SessionAssumption == NoOne \notin Sessions

ASSUME BoundAssumption ==
    /\ MatchCount \in Nat \ {0}
    /\ MaxVersion \in Nat \ {0}
    /\ MaxAttempts \in Nat \ {0}

VARIABLES
    rows,  \* what is committed
    lock,  \* the session that has locked each row
    view,  \* each session's snapshot, with its own changes
    tx     \* each session's transaction

vars == <<rows, lock, view, tx>>

(* Matches are numbered in the order of their ids.  Row <<m, 0>> is match   *)
(* m, row <<m, v>> the job of its version v, which may not be there yet.    *)
Matches == 1..MatchCount

Versions == 1..MaxVersion

MatchRow(m) == <<m, 0>>

MatchRows == Matches \X {0}

JobRows == Matches \X Versions

Row == MatchRows \cup JobRows

(* A match that has ended needs no job for its last version. *)
Match == {match \in [version : 1..(MaxVersion + 1), running : BOOLEAN] :
             match.running => match.version \in Versions}

(* attempts also names the claim of a job that is processing. *)
Job == [status : {"absent", "pending", "processing", "completed", "failed", "cancelled"},
        attempts : 0..MaxAttempts]

NoJob == [status |-> "absent", attempts |-> 0]

NewJob == [status |-> "pending", attempts |-> 0]

(* at: the statement it is at.  row: the match of a command, the job of a   *)
(* claim that is processed or has failed, and claim the attempt that made   *)
(* it.  todo: the matches yet to be locked, then those to be synchronised.  *)
Transaction ==
    [kind : {"command", "process", "fail", "recovery", "claim"},
     at : {"idle", "claim", "job", "match", "sync", "commit"},
     row : Row, claim : 0..MaxAttempts,
     todo : SUBSET Matches]

Idle == [kind |-> "recovery", at |-> "idle", row |-> MatchRow(1),
         claim |-> 0, todo |-> {}]

Init ==
    /\ rows = [r \in Row |-> IF r \in MatchRows THEN [version |-> 1, running |-> TRUE]
                             ELSE IF r[2] = 1 THEN NewJob ELSE NoJob]
    /\ lock = [r \in Row |-> NoOne]
    /\ view = [s \in Sessions |-> <<>>]
    /\ tx = [s \in Sessions |-> Idle]

-----------------------------------------------------------------------------
(***************************************************************************)
(* Rows                                                                    *)
(***************************************************************************)

(* The row is still the one the snapshot shows. *)
IsSeen(s, r) == lock[r] = s \/ rows[r] = view[s][r]

IsFree(s, r) == lock[r] \in {s, NoOne}

(* Another open transaction has inserted or changed it, not only locked it. *)
IsChanging(s, r) == ~IsFree(s, r) /\ view[lock[r]][r] # rows[r]

(* Session s, at statement t of its transaction, locks and changes row r. *)
Locks(s, r, value, t) ==
    /\ IsFree(s, r)
    /\ lock' = [lock EXCEPT ![r] = s]
    /\ view' = [view EXCEPT ![s][r] = value]
    /\ tx' = [tx EXCEPT ![s] = t]
    /\ UNCHANGED rows

Ends(s) ==
    /\ lock' = [r \in Row |-> IF lock[r] = s THEN NoOne ELSE lock[r]]
    /\ view' = [view EXCEPT ![s] = <<>>]
    /\ tx' = [tx EXCEPT ![s] = Idle]

RollsBack(s) == Ends(s) /\ UNCHANGED rows

-----------------------------------------------------------------------------
(***************************************************************************)
(* Statements                                                              *)
(***************************************************************************)

(* The claim is still the job's: the condition of lockClaimed, complete and *)
(* fail.                                                                    *)
OwnsClaim(r, attempt) == rows[r] = [status |-> "processing", attempts |-> attempt]

Begins(s, kind, first, r, attempt, todo) ==
    /\ tx[s].at = "idle"
    /\ tx' = [tx EXCEPT ![s] = [kind |-> kind, at |-> first, row |-> r,
                                claim |-> attempt, todo |-> todo]]
    /\ view' = [view EXCEPT ![s] = rows]
    /\ UNCHANGED <<rows, lock>>

(* A player's command. *)
BeginCommand(s) ==
    \E m \in Matches : Begins(s, "command", "match", MatchRow(m), 0, {m})

(* A job is processed, or its failure recorded, by whoever once claimed it  *)
(* and however late that comes; nothing happens if the claim was lost.      *)
BeginClaimed(s) ==
    \E r \in JobRows, kind \in {"process", "fail"} :
       \E attempt \in 1..rows[r].attempts :
          /\ OwnsClaim(r, attempt)
          /\ Begins(s, kind, "job", r, attempt, {r[1]})

(* A worker recovers the active matches. *)
BeginRecovery(s) ==
    LET active == {m \in Matches : rows[MatchRow(m)].running}
    IN  /\ active # {}
        /\ Begins(s, "recovery", "match", MatchRow(1), 0, active)

BeginClaim(s) == Begins(s, "claim", "claim", MatchRow(1), 0, {})

(* Leases and run_at are left out: they may have passed. *)
Claimable(job) ==
    /\ job.status \in {"pending", "processing"}
    /\ job.attempts < MaxAttempts

(* claim: locks and changes rows that nobody has locked; it never waits. *)
Claim(s) ==
    /\ tx[s].at = "claim"
    /\ \E S \in (SUBSET {r \in JobRows : Claimable(view[s][r]) /\ lock[r] = NoOne}) \ {{}} :
          IF \E r \in S : ~IsSeen(s, r)
          THEN RollsBack(s)
          ELSE /\ lock' = [r \in Row |-> IF r \in S THEN s ELSE lock[r]]
               /\ view' = [view EXCEPT ![s] = [r \in Row |->
                              IF r \in S THEN [status |-> "processing",
                                               attempts |-> @[r].attempts + 1]
                                         ELSE @[r]]]
               /\ tx' = [tx EXCEPT ![s].at = "commit"]
               /\ UNCHANGED rows

Released(job) == [job EXCEPT !.status = IF @ = "processing" /\ job.attempts < MaxAttempts
                                        THEN "pending" ELSE "failed"]

(* lockClaimed before the match of the job is locked, or fail. *)
LockJob(s) ==
    LET t == tx[s]
        job == view[s][t.row]
    IN  /\ t.at = "job"
        /\ IF ~IsSeen(s, t.row) THEN RollsBack(s)
           ELSE IF t.kind = "fail"
                THEN Locks(s, t.row, Released(job), [t EXCEPT !.at = "commit"])
                ELSE Locks(s, t.row, job, [t EXCEPT !.at = "match"])

(* The job is the one of the match's version. *)
IsCurrent_Mutant(match, r) == match.running  \* forgets the version

IsCurrent(match, r) == match.running /\ match.version = r[2]

(* What the match may become: a command may leave it as it is; a deadline   *)
(* takes it further, by several versions perhaps, or ends it.               *)
Outcomes(t, match) ==
    LET next == {n \in Match : n.version > match.version}
    IN  CASE t.kind = "command" -> {match} \cup {n \in next : match.running /\ n.running}
          [] t.kind = "process" -> IF IsCurrent(match, t.row) THEN next ELSE {match}
          [] OTHER -> {match}

(* load, or listActive match by match, each locked before it is looked at;  *)
(* the change is made to the row that is locked.                            *)
LockMatch(s) ==
    LET t == tx[s]
        m == Min(t.todo)
        match == view[s][MatchRow(m)]
        locked == {n \in Matches : lock[MatchRow(n)] = s} \cup {m}
    IN  /\ t.at = "match"
        /\ IF ~IsSeen(s, MatchRow(m)) THEN RollsBack(s)
           ELSE \E new \in Outcomes(t, match) :
                   Locks(s, MatchRow(m), new,
                         IF t.todo # {m} THEN [t EXCEPT !.todo = @ \ {m}]
                         ELSE IF t.kind # "recovery" /\ new = match
                              THEN [t EXCEPT !.at = "commit"]
                              ELSE [t EXCEPT !.at = "sync", !.todo = locked])

(* synchronizeMatchDeadline: the pending jobs of other versions. *)
Stale_Mutant(table, m) ==  \* whatever their status
    {r \in JobRows : r[1] = m /\ r[2] # table[MatchRow(m)].version
                    /\ table[r].status \in {"pending", "processing"}}

StaleOwn_Mutant(table, m) ==  \* the job of the version as well
    {r \in JobRows : r[1] = m /\ table[r].status = "pending"}

Stale(table, m) ==
    {r \in JobRows : r[1] = m /\ r[2] # table[MatchRow(m)].version
                    /\ table[r].status = "pending"}

(* They are cancelled one by one, in any order. *)
CancelJob(s) ==
    /\ tx[s].at = "sync"
    /\ \E r \in Stale(view[s], Min(tx[s].todo)) :
          IF ~IsSeen(s, r) THEN RollsBack(s)
          ELSE Locks(s, r, [view[s][r] EXCEPT !.status = "cancelled"], tx[s])

(* Then the version gets its job, unless it has one or needs none.  The     *)
(* insert waits for who else is about to insert or change that job.         *)
InsertJob(s) ==
    LET t == tx[s]
        m == Min(t.todo)
        match == view[s][MatchRow(m)]
        r == <<m, match.version>>
        next == IF t.todo = {m} THEN [t EXCEPT !.at = "commit", !.todo = {}]
                                ELSE [t EXCEPT !.todo = @ \ {m}]
    IN  /\ t.at = "sync"
        /\ Stale(view[s], m) = {}
        /\ IF match.running /\ ~IsSeen(s, r) THEN RollsBack(s)
           ELSE IF match.running /\ view[s][r] = NoJob THEN Locks(s, r, NewJob, next)
           ELSE /\ match.running => ~IsChanging(s, r)
                /\ tx' = [tx EXCEPT ![s] = next]
                /\ UNCHANGED <<rows, lock, view>>

(* complete, for the job that was processed, and COMMIT. *)
Committed(s, r) ==
    IF tx[s].kind = "process" /\ r = tx[s].row
    THEN [view[s][r] EXCEPT !.status = "completed"]
    ELSE view[s][r]

Commit(s) ==
    /\ tx[s].at = "commit"
    /\ rows' = [r \in Row |-> IF lock[r] = s THEN Committed(s, r) ELSE rows[r]]
    /\ Ends(s)

(* The database, the handler or the connection fails the transaction. *)
Abort(s) ==
    /\ tx[s].at # "idle"
    /\ RollsBack(s)

Next ==
    \E s \in Sessions :
        \/ BeginCommand(s)
        \/ BeginClaimed(s)
        \/ BeginRecovery(s)
        \/ BeginClaim(s)
        \/ Claim(s)
        \/ LockJob(s)
        \/ LockMatch(s)
        \/ CancelJob(s)
        \/ InsertJob(s)
        \/ Commit(s)
        \/ Abort(s)

Spec == Init /\ [][Next]_vars

-----------------------------------------------------------------------------
(***************************************************************************)
(* Properties                                                              *)
(***************************************************************************)

IsTable(table) ==
    /\ table \in [Row -> Match \cup Job]
    /\ \A r \in MatchRows : table[r] \in Match
    /\ \A r \in JobRows : table[r] \in Job

TypeOK ==
    /\ IsTable(rows)
    /\ lock \in [Row -> Sessions \cup {NoOne}]
    /\ tx \in [Sessions -> Transaction]
    /\ DOMAIN view = Sessions
    /\ \A s \in Sessions : tx[s].at # "idle" => IsTable(view[s])

(* The rows that the next statement of s may have to wait for. *)
Needs(s) ==
    LET t == tx[s]
        m == Min(t.todo)
        match == view[s][MatchRow(m)]
    IN  CASE t.at = "job"   -> {t.row}
          [] t.at = "match" -> {MatchRow(m)}
          [] t.at = "sync" /\ Stale(view[s], m) # {} -> Stale(view[s], m)
          [] t.at = "sync" /\ Stale(view[s], m) = {} ->
                {r \in JobRows : match.running /\ r = <<m, match.version>> /\ IsChanging(s, r)}
          [] OTHER          -> {}

Blockers(s) == {lock[r] : r \in {x \in Needs(s) : ~IsFree(s, x) /\ IsSeen(s, x)}}

(* Jobs are locked before their match by one transaction and after it by   *)
(* others, yet there are no transactions that all wait for one another:    *)
(* whatever is locked before its match is processing, and whatever is      *)
(* locked after it is pending (scheduled-jobs.ts:79, 177-191, 280).        *)
NoDeadlock ==
    \A D \in (SUBSET Sessions) \ {{}} : \E s \in D : Blockers(s) \cap D = {}

(* What DeadlineJobs shows of atomic transactions holds of these: a match   *)
(* that goes on has the job of its version, not taken off the queue in vain *)
(* (scheduled-jobs.ts:59-116, deadline-handler.ts:286-303).                 *)
DeadlineIsKept ==
    \A m \in Matches :
        LET match == rows[MatchRow(m)]
        IN  match.running => rows[<<m, match.version>>].status
                                \in {"pending", "processing", "failed"}

(* And a match is changed by a command or by the very job of its version,   *)
(* which that uses up: a deadline and a command, or two deadlines, never    *)
(* both advance what they both loaded (deadline-handler.ts:277-314).        *)
AdvanceSpendsItsJob ==
    [][\A m \in Matches :
          LET old == rows[MatchRow(m)]
              job == <<m, old.version>>
          IN  rows'[MatchRow(m)] # old =>
                 \/ \E s \in Sessions : tx[s].kind = "command" /\ tx[s].at = "commit"
                                        /\ tx'[s].at = "idle"
                 \/ rows[job].status = "processing" /\ rows'[job].status = "completed"]_vars
=============================================================================
