---------------------------- MODULE DeadlineJobs ----------------------------
(***************************************************************************)
(* How deadlines drive one stored match: the scheduled_jobs table, the     *)
(* workers that claim its jobs under leases and run MatchDeadlineHandler,  *)
(* the executor that changes the match under them, crashes, and recovery   *)
(* at the start of a worker.                                               *)
(*                                                                         *)
(* Every transaction is SERIALIZABLE, so each is one action; what a worker *)
(* remembers between its transactions is in batch and failing.  A job is   *)
(* named by the version in its deduplication key.  Clocks differ and       *)
(* requests wait for locks, so a command is not held to the deadline here: *)
(* whichever transaction commits first decides.                            *)
(***************************************************************************)
EXTENDS StoredMatch

CONSTANTS
    Workers,
    MaxAttempts,   \* scheduled_jobs.max_attempts
    MaxCommands,   \* bound: commands that change the match
    MaxFaults      \* bound: crashes, errors and leases lost under way

ASSUME JobsAssumption ==
    /\ MaxAttempts \in Nat \ {0}
    /\ MaxCommands \in Nat
    /\ MaxFaults \in Nat

VARIABLES
    match,      \* the matches row
    jobs,       \* the scheduled_jobs rows, by version
    up,         \* the workers whose loop runs
    batch,      \* the claims each worker has yet to process
    failing,    \* the claim whose failure a worker has yet to record
    commands,   \* counts against MaxCommands
    faults      \* counts against MaxFaults

vars == <<match, jobs, up, batch, failing, commands, faults>>

workers == <<up, batch, failing>>

(* due: run_at <= now.  token: the attempt that claimed the job, 0 for     *)
(* none, as each claim has a token of its own.  lease: claim_until.        *)
Job == [status : {"pending", "processing", "completed", "failed", "cancelled"},
        phase : Phases, due : BOOLEAN, attempts : 0..MaxAttempts,
        token : 0..MaxAttempts, lease : {"none", "held", "expired"}]

Claims == [job : Nat, token : 0..MaxAttempts]

(* A row without its claim. *)
Released(job, status) ==
    [status |-> status, phase |-> job.phase, due |-> job.due,
     attempts |-> job.attempts, token |-> 0, lease |-> "none"]

NewJob_Mutant(m) ==  \* runs at once, not at the deadline
    [status |-> "pending", phase |-> m.phase, due |-> TRUE, attempts |-> 0,
     token |-> 0, lease |-> "none"]

NewJob(m) == [status |-> "pending", phase |-> m.phase,
              due |-> m.deadline # "running", attempts |-> 0, token |-> 0,
              lease |-> "none"]

(* synchronizeMatchDeadline: the pending jobs of other versions are        *)
(* cancelled, and a version that needs a job gets one unless it has one.   *)
Needed(m) == IF m.phase \in TerminalPhases THEN {} ELSE {m.version}

Synchronized_Mutant(rows, m) ==  \* leaves the jobs of other versions pending
    [v \in DOMAIN rows \cup Needed(m) |->
        IF v \in DOMAIN rows THEN rows[v] ELSE NewJob(m)]

Synchronized(rows, m) ==
    [v \in DOMAIN rows \cup Needed(m) |->
        IF v \notin DOMAIN rows THEN NewJob(m)
        ELSE IF v # m.version /\ rows[v].status = "pending"
             THEN Released(rows[v], "cancelled")
             ELSE rows[v]]

Init ==
    /\ match = NewMatch
    /\ jobs = Synchronized(<<>>, NewMatch)
    /\ up = {}
    /\ batch = [w \in Workers |-> {}]
    /\ failing = [w \in Workers |-> {}]
    /\ commands = 0
    /\ faults = 0

Fault ==
    /\ faults < MaxFaults
    /\ faults' = faults + 1

(***************************************************************************)
(* Time                                                                    *)
(***************************************************************************)

(* The deadline passes, and with it the run_at of the version's job.       *)
DeadlinePasses ==
    /\ match.deadline = "running"
    /\ match' = [match EXCEPT !.deadline = "expired"]
    /\ jobs' = [jobs EXCEPT ![match.version].due = TRUE]
    /\ UNCHANGED <<workers, commands, faults>>

(* The backoff of a failed attempt passes. *)
RetryFallsDue(v) ==
    /\ jobs[v].status = "pending"
    /\ jobs[v].attempts > 0
    /\ ~jobs[v].due
    /\ jobs' = [jobs EXCEPT ![v].due = TRUE]
    /\ UNCHANGED <<match, workers, commands, faults>>

HeldBy(w, v) ==
    \E c \in batch[w] \cup failing[w] : c = [job |-> v, token |-> jobs[v].token]

(* A lease runs out: of a claim nobody works on any more, or, as a fault,  *)
(* under a worker that still does.                                         *)
LeaseExpires(v) ==
    /\ jobs[v].lease = "held"
    /\ jobs' = [jobs EXCEPT ![v].lease = "expired"]
    /\ IF \E w \in Workers : HeldBy(w, v) THEN Fault ELSE UNCHANGED faults
    /\ UNCHANGED <<match, workers, commands>>

(***************************************************************************)
(* The executor                                                            *)
(***************************************************************************)

Command ==
    /\ commands < MaxCommands
    /\ match' \in Commanded(match)
    /\ jobs' = Synchronized(jobs, match')
    /\ commands' = commands + 1
    /\ UNCHANGED <<workers, faults>>

(***************************************************************************)
(* Workers                                                                 *)
(***************************************************************************)

(* A worker starts: it recovers the active matches, then polls. *)
Start(w) ==
    /\ w \notin up
    /\ up' = up \cup {w}
    /\ jobs' = IF match.phase \in TerminalPhases THEN jobs
                                                 ELSE Synchronized(jobs, match)
    /\ UNCHANGED <<match, batch, failing, commands, faults>>

Claimable_Mutant(job) ==  \* forgets the jobs a dead worker left processing
    /\ job.status = "pending"
    /\ job.due
    /\ job.attempts < MaxAttempts

Claimable(job) ==
    /\ job.status \in {"pending", "processing"}
    /\ job.due
    /\ job.lease # "held"
    /\ job.attempts < MaxAttempts

Claimed(job) == [job EXCEPT !.status = "processing", !.attempts = @ + 1,
                            !.token = job.attempts + 1, !.lease = "held"]

(* A poll claims some of the claimable jobs: locked ones are skipped and   *)
(* the batch has a limit.  The poll before it has ended.                   *)
Claim(w) ==
    /\ w \in up
    /\ batch[w] = {}
    /\ failing[w] = {}
    /\ \E S \in (SUBSET {v \in DOMAIN jobs : Claimable(jobs[v])}) \ {{}} :
          /\ jobs' = [v \in DOMAIN jobs |-> IF v \in S THEN Claimed(jobs[v])
                                                       ELSE jobs[v]]
          /\ batch' = [batch EXCEPT ![w] =
                          {[job |-> v, token |-> jobs'[v].token] : v \in S}]
    /\ UNCHANGED <<match, up, failing, commands, faults>>

(* lockClaimed: the claim is still the job's. *)
OwnsClaim_Mutant(c) == jobs[c.job].status = "processing"  \* whoever's claim

OwnsClaim(c) ==
    /\ jobs[c.job].status = "processing"
    /\ jobs[c.job].token = c.token

(* The match is still the one the job was scheduled for. *)
IsCurrent_Mutant(v) == match.phase = jobs[v].phase  \* forgets the version

IsCurrent(v) ==
    /\ match.version = v
    /\ match.phase = jobs[v].phase

Completed(rows, v) == [rows EXCEPT ![v] = Released(@, "completed")]

(* The claim was lost: nothing happens. *)
SkipLost(w) ==
    /\ failing[w] = {}
    /\ \E c \in batch[w] :
          /\ ~OwnsClaim(c)
          /\ batch' = [batch EXCEPT ![w] = @ \ {c}]
    /\ UNCHANGED <<match, jobs, up, failing, commands, faults>>

(* The transaction of claim c is committed; a worker that loses its answer  *)
(* takes it for failed.                                                     *)
Committed(w, c) ==
    /\ batch' = [batch EXCEPT ![w] = @ \ {c}]
    /\ \/ UNCHANGED <<failing, faults>>
       \/ Fault /\ failing' = [failing EXCEPT ![w] = {c}]

(* The match went on without the job: it is completed without effect. *)
CompleteStale(w) ==
    /\ failing[w] = {}
    /\ \E c \in batch[w] :
          /\ OwnsClaim(c)
          /\ ~IsCurrent(c.job)
          /\ jobs' = Completed(jobs, c.job)
          /\ Committed(w, c)
    /\ UNCHANGED <<match, up, commands>>

(* The deadline advances the match, schedules the next one and completes   *)
(* its job, all in one transaction.                                        *)
AdvanceMatch(w) ==
    /\ failing[w] = {}
    /\ \E c \in batch[w] :
          /\ OwnsClaim(c)
          /\ IsCurrent(c.job)
          /\ match.deadline # "running"
          /\ match' \in AdvanceDeadline(match)
          /\ jobs' = Completed(Synchronized(jobs, match'), c.job)
          /\ Committed(w, c)
    /\ UNCHANGED <<up, commands>>

(* The transaction of a claim fails and rolls back; the worker goes on to  *)
(* record that.                                                            *)
HandlerFails(w) ==
    /\ failing[w] = {}
    /\ Fault
    /\ \E c \in batch[w] :
          /\ batch' = [batch EXCEPT ![w] = @ \ {c}]
          /\ failing' = [failing EXCEPT ![w] = {c}]
    /\ UNCHANGED <<match, jobs, up, commands>>

(* fail: only the claim's own attempt is released, to be retried after a   *)
(* backoff or, when it was the last, to stay failed.                       *)
Failed_Mutant(c) ==  \* does not look whose claim the job has
    LET job == jobs[c.job]
    IN  [Released(job, IF c.token >= MaxAttempts THEN "failed" ELSE "pending")
           EXCEPT !.due = FALSE]

Failed(c) ==
    LET job == jobs[c.job]
    IN  IF OwnsClaim(c)
        THEN [Released(job, IF c.token >= MaxAttempts THEN "failed" ELSE "pending")
                EXCEPT !.due = FALSE]
        ELSE job

RecordFailure(w) ==
    /\ \E c \in failing[w] : jobs' = [jobs EXCEPT ![c.job] = Failed(c)]
    /\ failing' = [failing EXCEPT ![w] = {}]
    /\ UNCHANGED <<match, up, batch, commands, faults>>

(* Recording the failure fails as well: the poll ends with the error and   *)
(* leaves the rest of its batch to the leases.                             *)
PollFails(w) ==
    /\ failing[w] # {}
    /\ Fault
    /\ failing' = [failing EXCEPT ![w] = {}]
    /\ batch' = [batch EXCEPT ![w] = {}]
    /\ UNCHANGED <<match, jobs, up, commands>>

Crash(w) ==
    /\ w \in up
    /\ Fault
    /\ up' = up \ {w}
    /\ batch' = [batch EXCEPT ![w] = {}]
    /\ failing' = [failing EXCEPT ![w] = {}]
    /\ UNCHANGED <<match, jobs, commands>>

Process(w) == SkipLost(w) \/ CompleteStale(w) \/ AdvanceMatch(w)

Next ==
    \/ DeadlinePasses
    \/ \E v \in DOMAIN jobs : RetryFallsDue(v) \/ LeaseExpires(v)
    \/ Command
    \/ \E w \in Workers :
          \/ Start(w)
          \/ Claim(w)
          \/ Process(w)
          \/ HandlerFails(w)
          \/ RecordFailure(w)
          \/ PollFails(w)
          \/ Crash(w)

Spec == Init /\ [][Next]_vars

(* Time passes, a worker that is down is started again, and a worker that  *)
(* is up keeps polling (setInterval) and finishes what it claimed.         *)
Fairness ==
    /\ WF_vars(DeadlinePasses)
    /\ WF_vars(\E v \in DOMAIN jobs : RetryFallsDue(v))
    /\ WF_vars(\E v \in DOMAIN jobs : LeaseExpires(v))
    /\ \A w \in Workers :
          /\ WF_vars(Start(w))
          /\ WF_vars(Claim(w))
          /\ WF_vars(Process(w))
          /\ WF_vars(RecordFailure(w))

FairSpec == Spec /\ Fairness

-----------------------------------------------------------------------------
(***************************************************************************)
(* Properties                                                              *)
(***************************************************************************)

TypeOK ==
    /\ match \in Match
    /\ DOMAIN jobs \in SUBSET (1..match.version)
    /\ \A v \in DOMAIN jobs : jobs[v] \in Job
    /\ up \in SUBSET Workers
    /\ batch \in [Workers -> SUBSET Claims]
    /\ failing \in [Workers -> SUBSET Claims]
    /\ commands \in 0..MaxCommands
    /\ faults \in 0..MaxFaults

Running == match.phase \notin TerminalPhases

(* A match that goes on always has the job of its version, and that job is *)
(* not taken off the queue without having advanced the match: neither by a *)
(* claim that found it stale nor by the synchronisation of another version *)
(* (scheduled-jobs.ts:59-116, deadline-handler.ts:286-303).                *)
DeadlineIsKept ==
    Running =>
        /\ match.version \in DOMAIN jobs
        /\ jobs[match.version].status \notin {"completed", "cancelled"}

(* Two workers never both believe, rightly, that a job is theirs: a lease  *)
(* that ran out under a slow worker takes the job from it                  *)
(* (scheduled-jobs.ts:145-155, 177-191).                                   *)
OneOwner ==
    \A w1, w2 \in Workers :
        \A c1 \in batch[w1] \cup failing[w1], c2 \in batch[w2] \cup failing[w2] :
            w1 # w2 /\ c1.job = c2.job => ~(OwnsClaim(c1) /\ OwnsClaim(c2))

(* Jobs of versions the match has left wait in the queue only because an   *)
(* attempt at them failed; all others were cancelled with their version.   *)
OnlyRetriesLinger ==
    \A v \in DOMAIN jobs :
        v # match.version /\ jobs[v].status = "pending" => jobs[v].attempts > 0

(* A worker that owns the job of the current version can advance the match: *)
(* the engine would not answer deadline_not_reached.                       *)
ClaimedWhenExpired ==
    \A w \in Workers : \A c \in batch[w] :
        OwnsClaim(c) /\ c.job = match.version => match.deadline # "running"

(* Two workers, or two attempts, never advance the same phase twice: other *)
(* than by a command the match only changes by the job of the very version *)
(* it has, and that uses the job up.                                       *)
AdvanceSpendsItsJob ==
    [][match'.version # match.version /\ UNCHANGED commands =>
          /\ jobs[match.version].status = "processing"
          /\ jobs'[match.version].status = "completed"]_vars

(* A job that is completed, failed or cancelled stays so: a late report of *)
(* a worker that lost its claim does not put it back in the queue          *)
(* (scheduled-jobs.ts:226-236).                                            *)
SettledJobsRest ==
    [][\A v \in DOMAIN jobs :
          jobs[v].status \in {"completed", "failed", "cancelled"} =>
              /\ jobs'[v].status = jobs[v].status
              /\ jobs'[v].attempts = jobs[v].attempts]_vars

(* With fewer faults than attempts, every match ends: no crash, lost lease *)
(* or failed transaction loses the deadline of a phase.                    *)
MatchEnds == <>~Running

(* services/backend/README.md:58-59 says that at startup the worker        *)
(* "restores a unique scheduled deadline for every active match version":  *)
(* once it has recovered, the match has a job that can still be claimed.   *)
RecoveryRestoresDeadline ==
    [][\A w \in Workers :
          w \notin up /\ w \in up' /\ Running =>
              /\ jobs'[match.version].status \in {"pending", "processing"}
              /\ jobs'[match.version].attempts < MaxAttempts]_vars
=============================================================================
