------------------------ MODULE DeadlineJobs_proofs ------------------------
(***************************************************************************)
(* Theorems about DeadlineJobs, for any number of workers, contestants,    *)
(* attempts, commands and faults.                                          *)
(***************************************************************************)
EXTENDS DeadlineJobs, TLAPS

-----------------------------------------------------------------------------
(***************************************************************************)
(* The inductive invariant                                                 *)
(***************************************************************************)

(* An elimination is decided among three contestants or more, and a match   *)
(* that ended has no deadline.                                              *)
Sound(m) ==
    /\ m \in Match
    /\ m.phase \in TerminalPhases => m.deadline = "none"
    /\ m.phase \in {"lobby", "negotiation", "voting", "tally",
                    "runoff_negotiation", "runoff_voting"} => m.active >= 3

Held(w) == batch[w] \cup failing[w]

Rows == jobs = [v \in DOMAIN jobs |-> jobs[v]]

(* The job of the current version is for the current phase, and it can have *)
(* been claimed only after the deadline.                                    *)
CurrentJob ==
    Running =>
        /\ jobs[match.version].phase = match.phase
        /\ jobs[match.version].due \/ jobs[match.version].attempts > 0
              => match.deadline # "running"

(* A claim is for a job there is, and its token is that of an attempt made; *)
(* no two workers hold the same claim.                                      *)
ClaimsAreAttempts ==
    /\ \A w \in Workers : \A c \in Held(w) :
          c.job \in DOMAIN jobs /\ c.token \in 1..jobs[c.job].attempts
    /\ \A w1, w2 \in Workers : w1 # w2 => Held(w1) \cap Held(w2) = {}

IInv ==
    /\ TypeOK
    /\ Sound(match)
    /\ Rows
    /\ DeadlineIsKept
    /\ CurrentJob
    /\ ClaimsAreAttempts
    /\ OnlyRetriesLinger

-----------------------------------------------------------------------------
(***************************************************************************)
(* The stored match                                                        *)
(***************************************************************************)

(* A created match is sound and goes on. *)
LEMMA NewMatchIsSound == Sound(NewMatch) /\ NewMatch.phase \notin TerminalPhases
BY ContestantsAssumption DEF Sound, NewMatch, Match, Phases, TerminalPhases

(* What entering a phase makes of a match. *)
LEMMA EnterIsSound ==
    ASSUME NEW m, Sound(m), NEW p \in Phases, NEW a \in 2..Contestants,
           a >= 3 \/ p \in {"elimination", "final_plea", "jury_voting", "complete"}
    PROVE  Sound(Entered(m, p, a)) /\ Entered(m, p, a).version = m.version + 1
<1>1. /\ DeadlineOf(p) \in {"none", "running", "expired"}
      /\ p \in TerminalPhases => DeadlineOf(p) = "none"
  BY DEF DeadlineOf
<1> QED
  BY <1>1 DEF Entered, Sound, Match

(* An elimination leaves two contestants or more. *)
LEMMA EliminateIsSound ==
    ASSUME NEW m, Sound(m), m.active >= 3
    PROVE  Sound(Eliminate(m)) /\ Eliminate(m).version = m.version + 1
<1>1. m.active - 1 \in 2..Contestants
  BY ContestantsAssumption DEF Sound, Match
<1> QED
  BY <1>1, EnterIsSound DEF Eliminate, Phases

(* Staying in the phase, with the next version. *)
LEMMA StayIsSound ==
    ASSUME NEW m, Sound(m)
    PROVE  /\ Sound(Stay(m)) /\ Stay(m).version = m.version + 1
           /\ Sound(RecordTie(m)) /\ RecordTie(m).version = m.version + 1
           /\ RecordTie(m).tallied /\ RecordTie(m).phase = m.phase
<1>1. /\ Stay(m) \in Match
      /\ Stay(m).version = m.version + 1
      /\ Stay(m).phase = m.phase
      /\ Stay(m).active = m.active
      /\ Stay(m).deadline = m.deadline
  BY DEF Stay, Sound, Match
<1>2. /\ RecordTie(m) \in Match
      /\ RecordTie(m).version = Stay(m).version
      /\ RecordTie(m).phase = Stay(m).phase
      /\ RecordTie(m).active = Stay(m).active
      /\ RecordTie(m).deadline = Stay(m).deadline
      /\ RecordTie(m).tallied
  BY <1>1 DEF RecordTie, Match
<1> QED
  BY <1>1, <1>2 DEF Sound

(* A command leaves a sound match, of the next version. *)
LEMMA CommandedIsSound ==
    ASSUME NEW m, Sound(m), NEW x \in Commanded(m)
    PROVE  Sound(x) /\ x.version = m.version + 1 /\ m.phase \notin TerminalPhases
<1>1. m.phase \in OpenPhases /\ m.phase \notin TerminalPhases
  BY DEF Commanded, OpenPhases, TerminalPhases
<1>2. CASE x = Stay(m)
  BY <1>1, <1>2, StayIsSound
<1>3. ASSUME NEW p \in ClosesTo(m.phase), x = Enter(m, p)
      PROVE  Sound(x) /\ x.version = m.version + 1
  <2>1. \/ m.phase = "lobby" /\ p = "negotiation"
        \/ m.phase = "voting" /\ p = "tally"
        \/ m.phase = "final_plea" /\ p = "jury_voting"
    BY <1>1, <1>3 DEF ClosesTo, OpenPhases
  <2>2. p \in Phases /\ (m.active >= 3 \/ p = "jury_voting")
    BY <2>1 DEF Phases, Sound
  <2>3. m.active \in 2..Contestants
    BY DEF Sound, Match
  <2> QED
    BY <1>3, <2>2, <2>3, EnterIsSound DEF Enter
<1> QED
  BY <1>1, <1>2, <1>3 DEF Commanded

(* A deadline advances the match by a version or more, except that it      *)
(* leaves a tally to the steps that follow.                                *)
LEMMA TimedOutIsSound ==
    ASSUME NEW m, Sound(m), NEW x \in TimedOut(m)
    PROVE  /\ Sound(x)
           /\ x.version > m.version \/ (x = m /\ m.phase = "tally")
<1>0. m.active \in 2..Contestants /\ m.version \in Nat
  BY DEF Sound, Match
<1>1. CASE m.phase = "tally"
  BY <1>1 DEF TimedOut
<1>2. CASE m.phase = "runoff_voting"
  <2>1. x = Eliminate(m) /\ m.active >= 3
    BY <1>2 DEF TimedOut, Sound
  <2> QED
    BY <2>1, EliminateIsSound DEF Sound, Match
<1>3. ASSUME m.phase # "tally", m.phase # "runoff_voting"
      PROVE  Sound(x) /\ x.version > m.version
  <2>1. PICK p \in TimesOutTo(m) : x = Enter(m, p)
    BY <1>3 DEF TimedOut
  <2>2. /\ p \in Phases
        /\ m.active >= 3 \/ p \in {"final_plea", "jury_voting", "complete"}
    <3>1. CASE m.phase = "elimination"
      <4>1. m.active \in 2..Contestants
        BY DEF Sound, Match
      <4>2. p = IF m.active = 2 THEN "final_plea" ELSE "negotiation"
        BY <2>1, <3>1 DEF TimesOutTo
      <4> QED
        BY <4>1, <4>2, ContestantsAssumption DEF Phases
    <3>2. CASE m.phase # "elimination"
      BY <1>3, <2>1, <3>2 DEF TimesOutTo, Sound, Phases
    <3> QED
      BY <3>1, <3>2
  <2> QED
    BY <1>0, <2>1, <2>2, EnterIsSound DEF Enter
<1> QED
  BY <1>1, <1>2, <1>3

(* So does each step of a tally. *)
LEMMA TallyIsSound ==
    ASSUME NEW m, Sound(m), m.phase = "tally",
           NEW x \in Tallied(m) \cup RunoffStarted(m)
    PROVE  Sound(x) /\ x.version > m.version
<1>0. m.active >= 3 /\ m.active \in 2..Contestants /\ m.version \in Nat
  BY DEF Sound, Match
<1>1. CASE x = Eliminate(m)
  BY <1>0, <1>1, EliminateIsSound
<1>2. CASE x = RecordTie(m)
  BY <1>0, <1>2, StayIsSound
<1>3. CASE x = Enter(m, "runoff_negotiation")
  <2>1. "runoff_negotiation" \in Phases
    BY DEF Phases
  <2> QED
    BY <1>0, <1>3, <2>1, EnterIsSound DEF Enter
<1> QED
  BY <1>1, <1>2, <1>3 DEF Tallied, RunoffStarted

(* What a deadline job commits is a later version. *)
LEMMA AdvanceIsSound ==
    ASSUME NEW m, Sound(m), NEW y \in AdvanceDeadline(m)
    PROVE  Sound(y) /\ y.version > m.version /\ m.phase \notin TerminalPhases
<1> DEFINE untallied(x) == x.phase = "tally" /\ ~x.tallied
           tied(x)      == x.phase = "tally" /\ x.tallied
           tally  == UNION {IF untallied(x) THEN Tallied(x) ELSE {x} : x \in TimedOut(m)}
<1>1. m.phase \notin TerminalPhases
  BY DEF AdvanceDeadline
<1>2. y \in UNION {IF tied(x) THEN RunoffStarted(x) ELSE {x} : x \in tally}
  BY <1>1 DEF AdvanceDeadline
<1>3. PICK x2 \in tally : y \in IF tied(x2) THEN RunoffStarted(x2) ELSE {x2}
  BY <1>2
<1>4. PICK x1 \in TimedOut(m) : x2 \in IF untallied(x1) THEN Tallied(x1) ELSE {x1}
  BY <1>3
<1>5. Sound(x1) /\ (x1.version > m.version \/ (x1 = m /\ m.phase = "tally"))
  BY TimedOutIsSound, <1>4
<1>6. /\ Sound(x2)
      /\ x2.version > x1.version \/ (x2 = x1 /\ (x1.phase = "tally" => tied(x1)))
  BY <1>4, <1>5, TallyIsSound
<1>7. Sound(y) /\ (y.version > x2.version \/ (y = x2 /\ ~tied(x2)))
  BY <1>3, <1>6, TallyIsSound
<1>8. m.version \in Nat /\ x1.version \in Nat /\ x2.version \in Nat /\ y.version \in Nat
  BY <1>5, <1>6, <1>7 DEF Sound, Match
<1> HIDE DEF tally
<1> QED
  BY <1>1, <1>5, <1>6, <1>7, <1>8

-----------------------------------------------------------------------------
(***************************************************************************)
(* The jobs table                                                          *)
(***************************************************************************)

(* A released row is a row, with the phase and the attempts it had. *)
LEMMA ReleasedIsJob ==
    ASSUME NEW job \in Job,
           NEW status \in {"pending", "processing", "completed", "failed", "cancelled"}
    PROVE  /\ Released(job, status) \in Job
           /\ Released(job, status).status = status
           /\ Released(job, status).phase = job.phase
           /\ Released(job, status).due = job.due
           /\ Released(job, status).attempts = job.attempts
BY JobsAssumption DEF Released, Job

(* A job is of its type when it is inserted. *)
LEMMA NewJobIsJob ==
    ASSUME NEW m, Sound(m)
    PROVE  NewJob(m) \in Job
BY JobsAssumption DEF NewJob, Job, Sound, Match

(* What synchronising with a match m makes of the table: m's version has    *)
(* its job, the pending jobs of other versions are gone, and no row's phase *)
(* or attempts changed.                                                     *)
LEMMA SynchronizedRows ==
    ASSUME IInv, NEW m, Sound(m),
           \/ m = match /\ m.phase \notin TerminalPhases
           \/ m.version > match.version,
           NEW rows, rows = Synchronized(jobs, m)
    PROVE  /\ rows = [v \in DOMAIN rows |-> rows[v]]
           /\ DOMAIN rows \in SUBSET (1..m.version)
           /\ DOMAIN jobs \subseteq DOMAIN rows
           /\ m.phase \notin TerminalPhases =>
                 /\ m.version \in DOMAIN rows
                 /\ rows[m.version].status \notin {"completed", "cancelled"}
                 /\ rows[m.version].phase = m.phase
                 /\ rows[m.version].due \/ rows[m.version].attempts > 0
                       => m.deadline # "running"
           /\ \A v \in DOMAIN rows :
                 /\ rows[v] \in Job
                 /\ v # m.version => rows[v].status # "pending"
           /\ \A v \in DOMAIN jobs :
                 /\ rows[v].phase = jobs[v].phase
                 /\ rows[v].attempts = jobs[v].attempts
                 /\ jobs[v].status # "pending" => rows[v] = jobs[v]
<1>1. /\ match.version \in Nat \ {0} /\ m.version \in Nat \ {0}
      /\ DOMAIN jobs \in SUBSET (1..match.version)
      /\ \A v \in DOMAIN jobs : jobs[v] \in Job
  BY DEF IInv, TypeOK, Sound, Match
<1>2. /\ rows = [v \in DOMAIN rows |-> rows[v]]
      /\ DOMAIN rows = DOMAIN jobs \cup Needed(m)
      /\ \A v \in DOMAIN rows :
            rows[v] = IF v \notin DOMAIN jobs THEN NewJob(m)
                      ELSE IF v # m.version /\ jobs[v].status = "pending"
                           THEN Released(jobs[v], "cancelled")
                           ELSE jobs[v]
  BY DEF Synchronized
<1>3. \A v \in DOMAIN jobs :
         /\ Released(jobs[v], "cancelled") \in Job
         /\ Released(jobs[v], "cancelled").status = "cancelled"
         /\ Released(jobs[v], "cancelled").phase = jobs[v].phase
         /\ Released(jobs[v], "cancelled").attempts = jobs[v].attempts
  BY <1>1, ReleasedIsJob
<1>4. NewJob(m) \in Job
  BY NewJobIsJob
<1>5. DOMAIN rows \in SUBSET (1..m.version)
  BY <1>1, <1>2 DEF Needed
<1>6. \A v \in DOMAIN rows :
         /\ rows[v] \in Job
         /\ v # m.version => rows[v].status # "pending"
  <2> SUFFICES ASSUME NEW v \in DOMAIN rows
               PROVE  /\ rows[v] \in Job
                      /\ v # m.version => rows[v].status # "pending"
    OBVIOUS
  <2>1. CASE v \notin DOMAIN jobs
    BY <1>2, <1>4, <2>1 DEF Needed
  <2>2. CASE v \in DOMAIN jobs /\ v # m.version /\ jobs[v].status = "pending"
    BY <1>2, <1>3, <2>2
  <2>3. CASE v \in DOMAIN jobs /\ ~(v # m.version /\ jobs[v].status = "pending")
    BY <1>1, <1>2, <2>3
  <2> QED
    BY <2>1, <2>2, <2>3
<1>7. \A v \in DOMAIN jobs :
         /\ rows[v].phase = jobs[v].phase
         /\ rows[v].attempts = jobs[v].attempts
         /\ jobs[v].status # "pending" => rows[v] = jobs[v]
  BY <1>2, <1>3
<1>8. ASSUME m.phase \notin TerminalPhases
      PROVE  /\ m.version \in DOMAIN rows
             /\ rows[m.version].status \notin {"completed", "cancelled"}
             /\ rows[m.version].phase = m.phase
             /\ rows[m.version].due \/ rows[m.version].attempts > 0
                   => m.deadline # "running"
  <2>1. m.version \in DOMAIN rows
    BY <1>2, <1>8 DEF Needed
  <2>2. CASE m = match
    <3>1. m.version \in DOMAIN jobs /\ rows[m.version] = jobs[m.version]
      BY <1>2, <1>8, <2>1, <2>2 DEF IInv, DeadlineIsKept, Running
    <3> QED
      BY <1>8, <2>1, <2>2, <3>1 DEF IInv, DeadlineIsKept, CurrentJob, Running
  <2>3. CASE m.version > match.version
    <3>1. m.version \notin DOMAIN jobs
      BY <1>1, <2>3
    <3>2. rows[m.version] = NewJob(m)
      BY <1>2, <2>1, <3>1
    <3>3. /\ NewJob(m).status = "pending"
          /\ NewJob(m).phase = m.phase
          /\ NewJob(m).due <=> m.deadline # "running"
          /\ NewJob(m).attempts = 0
      BY DEF NewJob
    <3> QED
      BY <2>1, <3>2, <3>3
  <2> QED
    BY <2>2, <2>3
<1> QED
  BY <1>2, <1>5, <1>6, <1>7, <1>8

-----------------------------------------------------------------------------
(***************************************************************************)
(* Steps that follow one pattern                                           *)
(***************************************************************************)

(* The rest of TypeOK. *)
Typed ==
    /\ up \in SUBSET Workers
    /\ batch \in [Workers -> SUBSET Claims]
    /\ failing \in [Workers -> SUBSET Claims]
    /\ commands \in 0..MaxCommands
    /\ faults \in 0..MaxFaults

(* No claim is made, and no attempt forgotten. *)
LEMMA ClaimsKept ==
    ASSUME IInv,
           \A w \in Workers : Held(w)' \subseteq Held(w),
           DOMAIN jobs \subseteq DOMAIN jobs',
           \A v \in DOMAIN jobs : jobs'[v].attempts = jobs[v].attempts
    PROVE  ClaimsAreAttempts'
<1>1. \A w \in Workers : \A c \in Held(w)' :
         c.job \in DOMAIN jobs' /\ c.token \in 1..jobs'[c.job].attempts
  BY DEF IInv, ClaimsAreAttempts
<1>2. \A w1, w2 \in Workers : w1 # w2 => Held(w1)' \cap Held(w2)' = {}
  BY DEF IInv, ClaimsAreAttempts
<1> QED
  BY <1>1, <1>2 DEF ClaimsAreAttempts

(* A step that changes neither the match nor the jobs and makes no claim. *)
LEMMA WorkerStep ==
    ASSUME IInv, UNCHANGED <<match, jobs>>, Typed',
           \A w \in Workers : Held(w)' \subseteq Held(w)
    PROVE  IInv'
<1>1. ClaimsAreAttempts'
  BY ClaimsKept
<1> QED
  BY <1>1 DEF IInv, TypeOK, Typed, Rows, DeadlineIsKept, CurrentJob, Running,
              OnlyRetriesLinger

(* A step that changes one row and makes no claim. *)
LEMMA RowStep ==
    ASSUME IInv, UNCHANGED match, Typed',
           \A w \in Workers : Held(w)' \subseteq Held(w),
           NEW v \in DOMAIN jobs, NEW row \in Job,
           jobs' = [jobs EXCEPT ![v] = row],
           row.phase = jobs[v].phase,
           row.attempts = jobs[v].attempts,
           row.due => jobs[v].due \/ row.attempts > 0,
           row.status = "pending" => jobs[v].status = "pending" \/ row.attempts > 0,
           v = match.version /\ Running => row.status \notin {"completed", "cancelled"}
    PROVE  IInv'
<1>1. /\ Rows'
      /\ DOMAIN jobs' = DOMAIN jobs
      /\ \A u \in DOMAIN jobs : jobs'[u] = IF u = v THEN row ELSE jobs[u]
  BY DEF IInv, Rows
<1>2. TypeOK'
  BY <1>1 DEF IInv, TypeOK, Typed
<1>3. ClaimsAreAttempts'
  BY <1>1, ClaimsKept
<1>4. DeadlineIsKept'
  BY <1>1 DEF IInv, DeadlineIsKept, Running
<1>5. CurrentJob'
  BY <1>1 DEF IInv, CurrentJob, DeadlineIsKept, Running
<1>6. OnlyRetriesLinger'
  BY <1>1 DEF IInv, OnlyRetriesLinger
<1> QED
  BY <1>1, <1>2, <1>3, <1>4, <1>5, <1>6 DEF IInv

(* A step that synchronises the table with a match and then, when the step  *)
(* is that of a deadline, completes the job of the version it leaves.       *)
LEMMA SynchronizedStep ==
    ASSUME IInv, Sound(match'), Typed',
           \A w \in Workers : Held(w)' \subseteq Held(w),
           \/ match' = match /\ Running
           \/ match'.version > match.version,
           \/ jobs' = Synchronized(jobs, match')
           \/ /\ match'.version > match.version
              /\ match.version \in DOMAIN jobs
              /\ jobs[match.version].status = "processing"
              /\ jobs' = Completed(Synchronized(jobs, match'), match.version)
    PROVE  IInv'
<1> DEFINE rows == Synchronized(jobs, match')
           v    == match.version
<1>1. \/ match' = match /\ match'.phase \notin TerminalPhases
      \/ match'.version > match.version
  BY DEF Running
<1>2. /\ rows = [u \in DOMAIN rows |-> rows[u]]
      /\ DOMAIN rows \in SUBSET (1..match'.version)
      /\ DOMAIN jobs \subseteq DOMAIN rows
      /\ match'.phase \notin TerminalPhases =>
            /\ match'.version \in DOMAIN rows
            /\ rows[match'.version].status \notin {"completed", "cancelled"}
            /\ rows[match'.version].phase = match'.phase
            /\ rows[match'.version].due \/ rows[match'.version].attempts > 0
                  => match'.deadline # "running"
      /\ \A u \in DOMAIN rows :
            /\ rows[u] \in Job
            /\ u # match'.version => rows[u].status # "pending"
      /\ \A u \in DOMAIN jobs : /\ rows[u].phase = jobs[u].phase
                                /\ rows[u].attempts = jobs[u].attempts
                                /\ jobs[u].status # "pending" => rows[u] = jobs[u]
  BY <1>1, SynchronizedRows
<1> HIDE DEF rows
<1>3. CASE jobs' = rows
  <2>1. ClaimsAreAttempts'
    BY <1>2, <1>3, ClaimsKept
  <2>2. TypeOK'
    BY <1>2, <1>3 DEF TypeOK, Typed, Sound
  <2> QED
    BY <1>2, <1>3, <2>1, <2>2
       DEF IInv, Rows, DeadlineIsKept, CurrentJob, Running, OnlyRetriesLinger
<1>4. CASE /\ match'.version > match.version
           /\ v \in DOMAIN jobs
           /\ jobs[v].status = "processing"
           /\ jobs' = Completed(rows, v)
  <2>1. /\ v # match'.version /\ v \in DOMAIN rows
        /\ rows[v] \in Job /\ rows[v].attempts = jobs[v].attempts
    BY <1>2, <1>4 DEF IInv, TypeOK, Sound, Match
  <2>2. /\ Released(rows[v], "completed") \in Job
        /\ Released(rows[v], "completed").status = "completed"
        /\ Released(rows[v], "completed").attempts = jobs[v].attempts
    BY <2>1, ReleasedIsJob
  <2>3. /\ Rows'
        /\ DOMAIN jobs' = DOMAIN rows
        /\ \A u \in DOMAIN rows :
              jobs'[u] = IF u = v THEN Released(rows[v], "completed") ELSE rows[u]
    BY <1>2, <1>4, <2>1 DEF Completed, Rows
  <2>4. ClaimsAreAttempts'
    BY <1>2, <2>1, <2>2, <2>3, ClaimsKept
  <2>5. TypeOK'
    BY <1>2, <2>2, <2>3 DEF TypeOK, Typed, Sound
  <2>6. DeadlineIsKept' /\ CurrentJob'
    BY <1>2, <2>1, <2>3 DEF DeadlineIsKept, CurrentJob, Running
  <2>7. OnlyRetriesLinger'
    BY <1>2, <2>2, <2>3 DEF OnlyRetriesLinger
  <2> QED
    BY <2>3, <2>4, <2>5, <2>6, <2>7 DEF IInv
<1> QED
  BY <1>3, <1>4 DEF rows

-----------------------------------------------------------------------------
(***************************************************************************)
(* Every action keeps the invariant                                        *)
(***************************************************************************)

(* The invariant holds of a new match and its first job. *)
LEMMA InitIInv == Init => IInv
<1> SUFFICES ASSUME Init PROVE IInv
  OBVIOUS
<1>1. /\ DOMAIN jobs = {1}
      /\ jobs = [v \in {1} |-> NewJob(NewMatch)]
  BY NewMatchIsSound DEF Init, Synchronized, Needed, NewMatch
<1>2. NewJob(NewMatch) \in Job
  BY NewMatchIsSound, NewJobIsJob
<1>3. /\ NewJob(NewMatch).status = "pending"
      /\ NewJob(NewMatch).phase = "lobby"
      /\ ~NewJob(NewMatch).due
      /\ NewJob(NewMatch).attempts = 0
      /\ NewMatch.version = 1
      /\ NewMatch.phase = "lobby"
  BY DEF NewJob, NewMatch
<1>4. TypeOK
  BY <1>1, <1>2, <1>3, NewMatchIsSound, JobsAssumption DEF Init, TypeOK, Sound
<1>5. ClaimsAreAttempts
  BY DEF Init, ClaimsAreAttempts, Held
<1> QED
  BY <1>1, <1>3, <1>4, <1>5, NewMatchIsSound
     DEF Init, IInv, Rows, DeadlineIsKept, CurrentJob, OnlyRetriesLinger, Running

(* The passing of a deadline preserves the invariant. *)
LEMMA DeadlinePassesKeeps ==
    ASSUME IInv, DeadlinePasses
    PROVE  IInv'
<1>1. /\ match' \in Match /\ match'.deadline = "expired"
      /\ match'.version = match.version /\ match'.phase = match.phase
      /\ match'.active = match.active /\ match.deadline = "running"
  BY DEF IInv, TypeOK, DeadlinePasses, Match
<1>2. \A v \in DOMAIN jobs : [jobs[v] EXCEPT !.due = TRUE] \in Job
  BY DEF IInv, TypeOK, Job
<1>3. /\ Rows'
      /\ DOMAIN jobs' = DOMAIN jobs
      /\ \A v \in DOMAIN jobs :
            jobs'[v] = IF v = match.version THEN [jobs[v] EXCEPT !.due = TRUE]
                                            ELSE jobs[v]
  BY DEF IInv, Rows, DeadlinePasses
<1>4. \A v \in DOMAIN jobs : /\ jobs'[v] \in Job
                             /\ jobs'[v].status = jobs[v].status
                             /\ jobs'[v].phase = jobs[v].phase
                             /\ jobs'[v].attempts = jobs[v].attempts
  BY <1>2, <1>3 DEF IInv, TypeOK, Job
<1>5. ClaimsAreAttempts'
  <2>1. \A w \in Workers : Held(w)' \subseteq Held(w)
    BY DEF DeadlinePasses, workers, Held
  <2> QED
    BY <1>3, <1>4, <2>1, ClaimsKept
<1>6. TypeOK' /\ Sound(match')
  BY <1>1, <1>3, <1>4 DEF IInv, TypeOK, Sound, DeadlinePasses, workers
<1>7. DeadlineIsKept' /\ CurrentJob' /\ OnlyRetriesLinger'
  BY <1>1, <1>3, <1>4
     DEF IInv, DeadlineIsKept, CurrentJob, OnlyRetriesLinger, Running
<1> QED
  BY <1>3, <1>5, <1>6, <1>7 DEF IInv

(* Backoffs and leases that run out preserve the invariant. *)
LEMMA TimeKeeps ==
    ASSUME IInv, NEW v \in DOMAIN jobs, RetryFallsDue(v) \/ LeaseExpires(v)
    PROVE  IInv'
<1>1. jobs[v] \in Job
  BY DEF IInv, TypeOK
<1>2. \A w \in Workers : Held(w)' \subseteq Held(w)
  BY DEF RetryFallsDue, LeaseExpires, workers, Held
<1>3. CASE RetryFallsDue(v)
  <2> DEFINE row == [jobs[v] EXCEPT !.due = TRUE]
  <2>1. /\ row \in Job /\ row.phase = jobs[v].phase
        /\ row.attempts = jobs[v].attempts /\ row.status = jobs[v].status
    BY <1>1 DEF Job
  <2>2. /\ jobs' = [jobs EXCEPT ![v] = row] /\ UNCHANGED match /\ Typed'
        /\ jobs[v].attempts > 0
    BY <1>3 DEF RetryFallsDue, IInv, TypeOK, Typed, workers
  <2> HIDE DEF row
  <2> QED
    BY <1>2, <2>1, <2>2, RowStep DEF IInv, DeadlineIsKept
<1>4. CASE LeaseExpires(v)
  <2> DEFINE row == [jobs[v] EXCEPT !.lease = "expired"]
  <2>1. /\ row \in Job /\ row.phase = jobs[v].phase /\ row.due = jobs[v].due
        /\ row.attempts = jobs[v].attempts /\ row.status = jobs[v].status
    BY <1>1 DEF Job
  <2>2. jobs' = [jobs EXCEPT ![v] = row] /\ UNCHANGED match /\ Typed'
    BY <1>4, JobsAssumption DEF LeaseExpires, Fault, IInv, TypeOK, Typed, workers
  <2> HIDE DEF row
  <2> QED
    BY <1>2, <2>1, <2>2, RowStep DEF IInv, DeadlineIsKept
<1> QED
  BY <1>3, <1>4

(* A player's command, with its synchronisation, preserves the invariant. *)
LEMMA CommandKeeps ==
    ASSUME IInv, Command
    PROVE  IInv'
<1>1. Sound(match') /\ match'.version = match.version + 1
  BY CommandedIsSound DEF Command, IInv
<1>2. match'.version > match.version
  BY <1>1 DEF IInv, TypeOK, Match
<1>3. \A w \in Workers : Held(w)' \subseteq Held(w)
  BY DEF Command, workers, Held
<1>4. Typed'
  BY JobsAssumption DEF Command, IInv, TypeOK, Typed, workers
<1> QED
  BY <1>1, <1>2, <1>3, <1>4, SynchronizedStep DEF Command

(* The start of a worker, with its recovery, preserves the invariant. *)
LEMMA StartKeeps ==
    ASSUME IInv, NEW w \in Workers, Start(w)
    PROVE  IInv'
<1>1. Typed'
  BY DEF Start, IInv, TypeOK, Typed
<1>2. \A x \in Workers : Held(x)' \subseteq Held(x)
  BY DEF Start, Held
<1>3. CASE match.phase \in TerminalPhases
  BY <1>1, <1>2, <1>3, WorkerStep DEF Start
<1>4. CASE match.phase \notin TerminalPhases
  <2>1. match' = match /\ Running /\ jobs' = Synchronized(jobs, match')
    BY <1>4 DEF Start, Running
  <2> QED
    BY <1>1, <1>2, <2>1, SynchronizedStep DEF IInv
<1> QED
  BY <1>3, <1>4

(* A poll that claims jobs preserves the invariant. *)
LEMMA ClaimKeeps ==
    ASSUME IInv, NEW w \in Workers, Claim(w)
    PROVE  IInv'
<1>1. PICK S \in SUBSET {v \in DOMAIN jobs : Claimable(jobs[v])} :
         /\ jobs' = [v \in DOMAIN jobs |-> IF v \in S THEN Claimed(jobs[v])
                                                       ELSE jobs[v]]
         /\ batch' = [batch EXCEPT ![w] =
                         {[job |-> v, token |-> jobs'[v].token] : v \in S}]
  BY DEF Claim
<1>2. /\ \A v \in DOMAIN jobs : jobs[v] \in Job
      /\ DOMAIN jobs \in SUBSET (1..match.version)
      /\ match.version \in Nat
      /\ UNCHANGED <<match, up, failing, commands, faults>>
      /\ batch \in [Workers -> SUBSET Claims]
      /\ failing \in [Workers -> SUBSET Claims]
  BY DEF Claim, IInv, TypeOK, Match
<1>3. \A v \in S :
         /\ v \in DOMAIN jobs
         /\ jobs[v].due
         /\ jobs[v].status \in {"pending", "processing"}
         /\ jobs'[v] \in Job
         /\ jobs'[v].status = "processing"
         /\ jobs'[v].phase = jobs[v].phase
         /\ jobs'[v].due
         /\ jobs'[v].attempts = jobs[v].attempts + 1
         /\ jobs'[v].token = jobs[v].attempts + 1
  <2> SUFFICES ASSUME NEW v \in S
               PROVE  /\ v \in DOMAIN jobs
                      /\ jobs[v].due
                      /\ jobs[v].status \in {"pending", "processing"}
                      /\ jobs'[v] \in Job
                      /\ jobs'[v].status = "processing"
                      /\ jobs'[v].phase = jobs[v].phase
                      /\ jobs'[v].due
                      /\ jobs'[v].attempts = jobs[v].attempts + 1
                      /\ jobs'[v].token = jobs[v].attempts + 1
    OBVIOUS
  <2>1. v \in DOMAIN jobs /\ Claimable(jobs[v]) /\ jobs[v] \in Job
    BY <1>1, <1>2
  <2>2. jobs'[v] = Claimed(jobs[v])
    BY <1>1, <2>1
  <2>3. jobs[v].attempts + 1 \in 0..MaxAttempts
    BY <2>1, JobsAssumption DEF Claimable, Job
  <2> QED
    BY <2>1, <2>2, <2>3 DEF Claimable, Claimed, Job
<1>4. /\ DOMAIN jobs' = DOMAIN jobs
      /\ Rows'
      /\ \A v \in DOMAIN jobs \ S : jobs'[v] = jobs[v]
  BY <1>1 DEF Rows
<1> DEFINE new == {[job |-> v, token |-> jobs'[v].token] : v \in S}
<1>5. /\ new \in SUBSET Claims
      /\ \A c \in new : c.job \in S /\ c.token = jobs[c.job].attempts + 1
  BY <1>2, <1>3 DEF Claims, Job
<1>6. /\ batch'[w] = new /\ failing[w] = {} /\ failing' = failing
      /\ \A x \in Workers \ {w} : batch'[x] = batch[x]
      /\ batch' \in [Workers -> SUBSET Claims]
  BY <1>1, <1>2, <1>5 DEF Claim
<1> HIDE DEF new
<1>7. TypeOK'
  <2>1. \A v \in DOMAIN jobs' : jobs'[v] \in Job
    BY <1>2, <1>3, <1>4
  <2> QED
    BY <1>2, <1>4, <1>6, <2>1 DEF IInv, TypeOK
<1>8. /\ \A x \in Workers : Held(x)' = IF x = w THEN new ELSE Held(x)
      /\ \A x \in Workers : \A c \in Held(x) :
            c.job \in DOMAIN jobs /\ c.token \in 1..jobs[c.job].attempts
      /\ \A w1, w2 \in Workers : w1 # w2 => Held(w1) \cap Held(w2) = {}
  BY <1>2, <1>6 DEF Held, IInv, ClaimsAreAttempts
<1>9. ClaimsAreAttempts'
  <2>1. \A c \in new :
           c.job \in DOMAIN jobs' /\ c.token \in 1..jobs'[c.job].attempts
    BY <1>2, <1>3, <1>4, <1>5 DEF Job
  <2>2. ASSUME NEW x \in Workers, NEW c \in Held(x)
        PROVE  c.job \in DOMAIN jobs' /\ c.token \in 1..jobs'[c.job].attempts
    <3>1. c.job \in DOMAIN jobs /\ c.token \in 1..jobs[c.job].attempts
      BY <1>8
    <3>2. jobs[c.job].attempts \in Nat /\ jobs'[c.job].attempts >= jobs[c.job].attempts
      BY <1>2, <1>3, <1>4, <3>1 DEF Job
    <3> QED
      BY <1>2, <1>3, <1>4, <3>1, <3>2 DEF Job
  <2>3. ASSUME NEW x \in Workers, NEW c \in Held(x)
        PROVE  c \notin new
    <3>1. c.job \in DOMAIN jobs /\ c.token \in 1..jobs[c.job].attempts
      BY <1>8
    <3>2. jobs[c.job].attempts \in Nat
      BY <1>2, <3>1 DEF Job
    <3> QED
      BY <1>5, <3>1, <3>2
  <2>4. \A x \in Workers : \A c \in Held(x)' :
           c.job \in DOMAIN jobs' /\ c.token \in 1..jobs'[c.job].attempts
    BY <1>8, <2>1, <2>2
  <2>5. \A w1, w2 \in Workers : w1 # w2 => Held(w1)' \cap Held(w2)' = {}
    BY <1>8, <2>3
  <2> QED
    BY <2>4, <2>5 DEF ClaimsAreAttempts
<1>10. DeadlineIsKept' /\ CurrentJob' /\ OnlyRetriesLinger'
  BY <1>2, <1>3, <1>4
     DEF IInv, DeadlineIsKept, CurrentJob, OnlyRetriesLinger, Running
<1> QED
  BY <1>2, <1>4, <1>7, <1>9, <1>10 DEF IInv

(* The steps of a worker that leave match and jobs alone. *)
LEMMA WorkerKeeps ==
    ASSUME IInv, NEW w \in Workers,
           SkipLost(w) \/ HandlerFails(w) \/ PollFails(w) \/ Crash(w)
    PROVE  IInv'
<1>1. /\ UNCHANGED <<match, jobs>>
      /\ batch \in [Workers -> SUBSET Claims]
      /\ failing \in [Workers -> SUBSET Claims]
      /\ up \in SUBSET Workers /\ commands \in 0..MaxCommands
      /\ faults \in 0..MaxFaults
  BY DEF SkipLost, HandlerFails, PollFails, Crash, IInv, TypeOK
<1>2. CASE SkipLost(w)
  <2>1. PICK c \in batch[w] : batch' = [batch EXCEPT ![w] = @ \ {c}]
    BY <1>2 DEF SkipLost
  <2>2. Typed' /\ \A x \in Workers : Held(x)' \subseteq Held(x)
    BY <1>1, <1>2, <2>1 DEF SkipLost, Typed, Held
  <2> QED
    BY <1>1, <2>2, WorkerStep
<1>3. CASE HandlerFails(w)
  <2>1. PICK c \in batch[w] : /\ batch' = [batch EXCEPT ![w] = @ \ {c}]
                              /\ failing' = [failing EXCEPT ![w] = {c}]
    BY <1>3 DEF HandlerFails
  <2>2. Typed' /\ \A x \in Workers : Held(x)' \subseteq Held(x)
    BY <1>1, <1>3, <2>1, JobsAssumption DEF HandlerFails, Fault, Typed, Held
  <2> QED
    BY <1>1, <2>2, WorkerStep
<1>4. CASE PollFails(w) \/ Crash(w)
  <2>1. Typed' /\ \A x \in Workers : Held(x)' \subseteq Held(x)
    BY <1>1, <1>4, JobsAssumption DEF PollFails, Crash, Fault, Typed, Held
  <2> QED
    BY <1>1, <2>1, WorkerStep
<1> QED
  BY <1>2, <1>3, <1>4

(* A commit makes no claim, whether or not its answer arrives. *)
LEMMA CommittedTypes ==
    ASSUME IInv, NEW w \in Workers, NEW c \in batch[w], Committed(w, c),
           UNCHANGED <<up, commands>>
    PROVE  Typed' /\ \A x \in Workers : Held(x)' \subseteq Held(x)
<1>1. /\ batch \in [Workers -> SUBSET Claims]
      /\ failing \in [Workers -> SUBSET Claims]
      /\ faults \in 0..MaxFaults
  BY DEF IInv, TypeOK
<1>2. batch' = [batch EXCEPT ![w] = @ \ {c}]
  BY DEF Committed
<1>3. CASE UNCHANGED <<failing, faults>>
  BY <1>1, <1>2, <1>3 DEF IInv, TypeOK, Typed, Held
<1>4. CASE Fault /\ failing' = [failing EXCEPT ![w] = {c}]
  BY <1>1, <1>2, <1>4, JobsAssumption DEF Fault, IInv, TypeOK, Typed, Held
<1> QED
  BY <1>3, <1>4 DEF Committed

(* Completing a job the match went on without preserves the invariant. *)
LEMMA CompleteStaleKeeps ==
    ASSUME IInv, NEW w \in Workers, CompleteStale(w)
    PROVE  IInv'
<1>1. PICK c \in batch[w] : /\ OwnsClaim(c)
                            /\ ~IsCurrent(c.job)
                            /\ jobs' = Completed(jobs, c.job)
                            /\ Committed(w, c)
  BY DEF CompleteStale
<1>2. /\ c.job \in DOMAIN jobs /\ jobs[c.job] \in Job
      /\ jobs[c.job].attempts > 0
  <2>1. c.job \in DOMAIN jobs /\ c.token \in 1..jobs[c.job].attempts
    BY <1>1 DEF IInv, ClaimsAreAttempts, Held
  <2>2. jobs[c.job] \in Job
    BY <2>1 DEF IInv, TypeOK
  <2> QED
    BY <2>1, <2>2 DEF Job
<1> DEFINE row == Released(jobs[c.job], "completed")
<1>3. /\ row \in Job /\ row.status = "completed" /\ row.phase = jobs[c.job].phase
      /\ row.due = jobs[c.job].due /\ row.attempts = jobs[c.job].attempts
  BY <1>2, ReleasedIsJob
<1>4. jobs' = [jobs EXCEPT ![c.job] = row]
  BY <1>1 DEF Completed
<1>5. ~(c.job = match.version /\ Running)
  BY <1>1 DEF IInv, CurrentJob, IsCurrent
<1>6. Typed' /\ \A x \in Workers : Held(x)' \subseteq Held(x)
  BY <1>1, CommittedTypes DEF CompleteStale
<1>7. UNCHANGED match
  BY DEF CompleteStale
<1> HIDE DEF row
<1> QED
  BY <1>2, <1>3, <1>4, <1>5, <1>6, <1>7, RowStep

(* An advance is made by the job of the version the match has. *)
LEMMA AdvanceMatchStep ==
    ASSUME IInv, NEW w \in Workers, AdvanceMatch(w)
    PROVE  /\ Sound(match') /\ match'.version > match.version
           /\ match.version \in DOMAIN jobs
           /\ jobs[match.version].status = "processing"
           /\ jobs' = Completed(Synchronized(jobs, match'), match.version)
           /\ \E c \in batch[w] : Committed(w, c)
<1>1. PICK c \in batch[w] :
         /\ OwnsClaim(c)
         /\ IsCurrent(c.job)
         /\ match' \in AdvanceDeadline(match)
         /\ jobs' = Completed(Synchronized(jobs, match'), c.job)
         /\ Committed(w, c)
  BY DEF AdvanceMatch
<1>2. c.job = match.version /\ jobs[c.job].status = "processing"
  BY <1>1 DEF IsCurrent, OwnsClaim
<1>3. Sound(match') /\ match'.version > match.version /\ Running
  BY <1>1, AdvanceIsSound DEF IInv, Running
<1>4. match.version \in DOMAIN jobs
  BY <1>3 DEF IInv, DeadlineIsKept
<1> QED
  BY <1>1, <1>2, <1>3, <1>4

(* A deadline that advances the match preserves the invariant. *)
LEMMA AdvanceMatchKeeps ==
    ASSUME IInv, NEW w \in Workers, AdvanceMatch(w)
    PROVE  IInv'
<1>1. PICK c \in batch[w] : Committed(w, c)
  BY AdvanceMatchStep
<1>2. Typed' /\ \A x \in Workers : Held(x)' \subseteq Held(x)
  BY <1>1, CommittedTypes DEF AdvanceMatch
<1> QED
  BY <1>2, AdvanceMatchStep, SynchronizedStep

(* Recording a failed attempt preserves the invariant. *)
LEMMA RecordFailureKeeps ==
    ASSUME IInv, NEW w \in Workers, RecordFailure(w)
    PROVE  IInv'
<1>1. PICK c \in failing[w] : jobs' = [jobs EXCEPT ![c.job] = Failed(c)]
  BY DEF RecordFailure
<1>2. c.job \in DOMAIN jobs /\ jobs[c.job] \in Job /\ jobs[c.job].attempts > 0
  <2>1. c.job \in DOMAIN jobs /\ c.token \in 1..jobs[c.job].attempts
    BY <1>1 DEF IInv, ClaimsAreAttempts, Held
  <2>2. jobs[c.job] \in Job
    BY <2>1 DEF IInv, TypeOK
  <2> QED
    BY <2>1, <2>2 DEF Job
<1>3. /\ UNCHANGED match /\ Typed'
      /\ \A x \in Workers : Held(x)' \subseteq Held(x)
  BY DEF RecordFailure, IInv, TypeOK, Typed, Held
<1>4. /\ Failed(c) \in Job
      /\ Failed(c).phase = jobs[c.job].phase
      /\ Failed(c).attempts = jobs[c.job].attempts
      /\ Failed(c).status \in {"pending", "failed", jobs[c.job].status}
  <2>1. CASE OwnsClaim(c)
    <3> DEFINE status == IF c.token >= MaxAttempts THEN "failed" ELSE "pending"
               row    == Released(jobs[c.job], status)
    <3>1. Failed(c) = [row EXCEPT !.due = FALSE]
      BY <2>1 DEF Failed
    <3>2. /\ row \in Job /\ row.status \in {"pending", "failed"}
          /\ row.phase = jobs[c.job].phase /\ row.attempts = jobs[c.job].attempts
      BY <1>2, ReleasedIsJob
    <3> HIDE DEF row
    <3> QED
      BY <3>1, <3>2 DEF Job
  <2>2. CASE ~OwnsClaim(c)
    BY <1>2, <2>2 DEF Failed
  <2> QED
    BY <2>1, <2>2
<1>5. c.job = match.version /\ Running =>
         Failed(c).status \notin {"completed", "cancelled"}
  BY <1>4 DEF IInv, DeadlineIsKept
<1> QED
  BY <1>1, <1>2, <1>3, <1>4, <1>5, RowStep

(* Every step preserves the invariant. *)
LEMMA NextKeepsIInv ==
    IInv /\ [Next]_vars => IInv'
<1> SUFFICES ASSUME IInv, [Next]_vars PROVE IInv'
  OBVIOUS
<1>1. CASE DeadlinePasses
  BY <1>1, DeadlinePassesKeeps
<1>2. ASSUME NEW v \in DOMAIN jobs, RetryFallsDue(v) \/ LeaseExpires(v)
      PROVE  IInv'
  BY <1>2, TimeKeeps
<1>3. CASE Command
  BY <1>3, CommandKeeps
<1>4. ASSUME NEW w \in Workers, Start(w)
      PROVE  IInv'
  BY <1>4, StartKeeps
<1>5. ASSUME NEW w \in Workers, Claim(w)
      PROVE  IInv'
  BY <1>5, ClaimKeeps
<1>6. ASSUME NEW w \in Workers, Process(w)
      PROVE  IInv'
  BY <1>6, WorkerKeeps, CompleteStaleKeeps, AdvanceMatchKeeps DEF Process
<1>7. ASSUME NEW w \in Workers, HandlerFails(w) \/ PollFails(w) \/ Crash(w)
      PROVE  IInv'
  BY <1>7, WorkerKeeps
<1>8. ASSUME NEW w \in Workers, RecordFailure(w)
      PROVE  IInv'
  BY <1>8, RecordFailureKeeps
<1>9. CASE UNCHANGED vars
  <2>1. Typed' /\ UNCHANGED <<match, jobs>> /\ \A w \in Workers : Held(w)' \subseteq Held(w)
    BY <1>9 DEF vars, workers, IInv, TypeOK, Typed, Held
  <2> QED
    BY <2>1, WorkerStep
<1> QED
  BY <1>1, <1>2, <1>3, <1>4, <1>5, <1>6, <1>7, <1>8, <1>9 DEF Next

(* The inductive invariant holds throughout. *)
LEMMA Invariance == Spec => []IInv
<1>1. Init => IInv
  BY InitIInv
<1>2. IInv /\ [Next]_vars => IInv'
  BY NextKeepsIInv
<1> QED
  BY <1>1, <1>2, PTL DEF Spec

-----------------------------------------------------------------------------
(***************************************************************************)
(* The theorems                                                            *)
(***************************************************************************)

(* The match, its jobs and the workers' claims keep their types: no job is *)
(* tried more often than max_attempts, and no elimination leaves fewer     *)
(* than two contestants.                                                   *)
THEOREM TypeCorrect == Spec => []TypeOK
<1>1. IInv => TypeOK
  BY DEF IInv
<1> QED
  BY <1>1, Invariance, PTL

(* No interleaving of commands, workers, lost leases and crashes takes the  *)
(* job of a match that goes on off the queue.                               *)
THEOREM DeadlineIsKeptAlways == Spec => []DeadlineIsKept
<1>1. IInv => DeadlineIsKept
  BY DEF IInv
<1> QED
  BY <1>1, Invariance, PTL

(* Two workers never own one job. *)
THEOREM OneOwnerAlways == Spec => []OneOwner
<1>1. IInv => OneOwner
  <2> SUFFICES ASSUME IInv,
                      NEW w1 \in Workers, NEW w2 \in Workers,
                      NEW c1 \in Held(w1), NEW c2 \in Held(w2),
                      w1 # w2, c1.job = c2.job, OwnsClaim(c1), OwnsClaim(c2)
               PROVE  FALSE
    BY DEF OneOwner, Held
  <2>1. c1 \in Claims /\ c2 \in Claims
    BY DEF IInv, TypeOK, Held
  <2>2. c1.token = c2.token
    BY DEF OwnsClaim
  <2>3. c1 = c2
    BY <2>1, <2>2 DEF Claims
  <2> QED
    BY <2>3 DEF IInv, ClaimsAreAttempts
<1> QED
  BY <1>1, Invariance, PTL

(* A job of a version the match has left is pending only to be retried. *)
THEOREM OnlyRetriesLingerAlways == Spec => []OnlyRetriesLinger
<1>1. IInv => OnlyRetriesLinger
  BY DEF IInv
<1> QED
  BY <1>1, Invariance, PTL

(* Whoever owns the job of the current version can advance the match. *)
THEOREM ClaimedWhenExpiredAlways == Spec => []ClaimedWhenExpired
<1>1. IInv => ClaimedWhenExpired
  <2> SUFFICES ASSUME IInv, NEW w \in Workers, NEW c \in batch[w],
                      OwnsClaim(c), c.job = match.version
               PROVE  match.deadline # "running"
    BY DEF ClaimedWhenExpired
  <2>1. c.job \in DOMAIN jobs /\ c.token \in 1..jobs[c.job].attempts
    BY DEF IInv, ClaimsAreAttempts, Held
  <2>2. jobs[match.version].attempts > 0
    BY <2>1 DEF IInv, TypeOK, Job
  <2>3. CASE Running
    BY <2>2, <2>3 DEF IInv, CurrentJob
  <2>4. CASE ~Running
    BY <2>4 DEF IInv, Sound, Running
  <2> QED
    BY <2>3, <2>4
<1> QED
  BY <1>1, Invariance, PTL

(* What a version's phase is worth is one advance: whatever the workers do, *)
(* a version is left by a command or by its own job, and that job is spent. *)
THEOREM AdvanceIsExclusive == Spec => AdvanceSpendsItsJob
<1> DEFINE Spent == match'.version # match.version /\ UNCHANGED commands =>
                       /\ jobs[match.version].status = "processing"
                       /\ jobs'[match.version].status = "completed"
<1>1. IInv /\ [Next]_vars => [Spent]_vars
  <2> SUFFICES ASSUME IInv, Next, match'.version # match.version, UNCHANGED commands
               PROVE  /\ jobs[match.version].status = "processing"
                      /\ jobs'[match.version].status = "completed"
    OBVIOUS
  <2>1. PICK w \in Workers : AdvanceMatch(w)
    <3>1. ~DeadlinePasses
      BY DEF DeadlinePasses, IInv, TypeOK, Match
    <3>2. ~Command
      BY DEF Command, IInv, TypeOK
    <3> QED
      BY <3>1, <3>2 DEF Next, RetryFallsDue, LeaseExpires, Start, Claim, Process,
                        SkipLost, CompleteStale, HandlerFails, RecordFailure,
                        PollFails, Crash
  <2> DEFINE rows == Synchronized(jobs, match')
  <2>2. /\ Sound(match') /\ match'.version > match.version
        /\ match.version \in DOMAIN jobs
        /\ jobs[match.version].status = "processing"
        /\ jobs' = Completed(rows, match.version)
    BY <2>1, AdvanceMatchStep
  <2>3. match.version \in DOMAIN rows
    BY <2>2, SynchronizedRows
  <2> HIDE DEF rows
  <2>4. jobs'[match.version] = Released(rows[match.version], "completed")
    BY <2>2, <2>3 DEF Completed
  <2> QED
    BY <2>2, <2>4 DEF Released
<1> QED
  BY <1>1, Invariance, PTL DEF Spec, AdvanceSpendsItsJob

(* A synchronisation leaves settled jobs as they are. *)
LEMMA SynchronizedRests ==
    ASSUME NEW m, NEW v \in DOMAIN jobs,
           jobs[v].status \in {"completed", "failed", "cancelled"}
    PROVE  Synchronized(jobs, m)[v] = jobs[v] /\ v \in DOMAIN Synchronized(jobs, m)
BY DEF Synchronized

(* No late report, retry or recovery puts a settled job back in the queue. *)
THEOREM SettledJobsRestAlways == Spec => SettledJobsRest
<1> DEFINE Settled(v) == jobs[v].status \in {"completed", "failed", "cancelled"}
           Rest == \A v \in DOMAIN jobs :
                      Settled(v) => /\ jobs'[v].status = jobs[v].status
                                    /\ jobs'[v].attempts = jobs[v].attempts
<1>1. IInv /\ [Next]_vars => [Rest]_vars
  <2> SUFFICES ASSUME IInv, Next, NEW v \in DOMAIN jobs, Settled(v)
               PROVE  /\ jobs'[v].status = jobs[v].status
                      /\ jobs'[v].attempts = jobs[v].attempts
    OBVIOUS
  <2>0. jobs[v] \in Job
    BY DEF IInv, TypeOK
  <2>1. CASE DeadlinePasses
    BY <2>0, <2>1 DEF DeadlinePasses, Job
  <2>2. ASSUME NEW u \in DOMAIN jobs, RetryFallsDue(u) \/ LeaseExpires(u)
        PROVE  jobs'[v].status = jobs[v].status /\ jobs'[v].attempts = jobs[v].attempts
    BY <2>0, <2>2 DEF RetryFallsDue, LeaseExpires, Job
  <2>3. CASE Command
    BY <2>3, SynchronizedRests DEF Command
  <2>4. ASSUME NEW w \in Workers, Start(w)
        PROVE  jobs'[v] = jobs[v]
    BY <2>4, SynchronizedRests DEF Start
  <2>5. ASSUME NEW w \in Workers, Claim(w)
        PROVE  jobs'[v] = jobs[v]
    BY <2>5 DEF Claim, Claimable
  <2>6. ASSUME NEW w \in Workers, AdvanceMatch(w)
        PROVE  jobs'[v] = jobs[v]
    <3>1. /\ jobs[match.version].status = "processing"
          /\ jobs' = Completed(Synchronized(jobs, match'), match.version)
      BY <2>6, AdvanceMatchStep
    <3>2. v # match.version
      BY <3>1
    <3> QED
      BY <3>1, <3>2, SynchronizedRests DEF Completed
  <2>7. ASSUME NEW w \in Workers, CompleteStale(w)
        PROVE  jobs'[v] = jobs[v]
    BY <2>7 DEF CompleteStale, Completed, OwnsClaim
  <2>8. ASSUME NEW w \in Workers, RecordFailure(w)
        PROVE  jobs'[v] = jobs[v]
    BY <2>8 DEF RecordFailure, Failed, OwnsClaim
  <2>9. ASSUME NEW w \in Workers,
               SkipLost(w) \/ HandlerFails(w) \/ PollFails(w) \/ Crash(w)
        PROVE  jobs'[v] = jobs[v]
    BY <2>9 DEF SkipLost, HandlerFails, PollFails, Crash
  <2> QED
    BY <2>1, <2>2, <2>3, <2>4, <2>5, <2>6, <2>7, <2>8, <2>9 DEF Next, Process
<1> QED
  BY <1>1, Invariance, PTL DEF Spec, SettledJobsRest
=============================================================================
