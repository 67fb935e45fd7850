----------------------------- MODULE WorkerLoop -----------------------------
(***************************************************************************)
(* One worker process: its start, the loop that polls the outbox and the   *)
(* deadline jobs, its readiness file and its shutdown by signals.          *)
(*                                                                         *)
(* The start, a poll and a stop are asynchronous functions that run beside *)
(* each other: each step of theirs between two awaits is an action.  What  *)
(* a poll does to the rows is in Outbox and DeadlineJobs.                  *)
(***************************************************************************)
EXTENDS Naturals

CONSTANTS
    Signals,   \* SHUTDOWN_SIGNALS
    Batch,     \* bound: batchSize
    MaxFaults  \* bound: errors of the database, the channel at start and the file

ASSUME BoundsAssumption == Batch \in Nat /\ MaxFaults \in Nat

VARIABLES
    main,        \* how far startWorker is, "off" when there is no process
    migrations,  \* how far runMigrations is
    connected,   \* whether valkey.connect is through
    resources,   \* the pool and the valkey connection
    timer,       \* whether the loop's timer is set; it is cleared with stopped
    poll,        \* activePoll: its stage and the claims it has yet to serve
    stop,        \* how far stopPromise is
    handlers,    \* the signals with a handler
    asked,       \* history: the signals this process has got
    file,        \* whether the readiness file exists
    faults       \* counts against MaxFaults

vars == <<main, migrations, connected, resources, timer, poll, stop, handlers,
          asked, file, faults>>

opening == <<migrations, connected>>
shutdown == <<stop, handlers, asked>>

NoPoll == [stage |-> "none", left |-> 0]

Init ==
    /\ main = "off"
    /\ migrations = "none"
    /\ connected = FALSE
    /\ resources = "idle"
    /\ timer = FALSE
    /\ poll = NoPoll
    /\ stop = "none"
    /\ handlers = {}
    /\ asked = {}
    /\ file \in BOOLEAN  \* a process before this one may have left it
    /\ faults = 0

Fault ==
    /\ faults < MaxFaults
    /\ faults' = faults + 1

(* The process is gone, and of all its state the file alone is left. *)
Gone ==
    /\ main' = "off"
    /\ migrations' = "none"
    /\ connected' = FALSE
    /\ resources' = "idle"
    /\ timer' = FALSE
    /\ poll' = NoPoll
    /\ stop' = "none"
    /\ handlers' = {}
    /\ UNCHANGED <<file, faults>>

(***************************************************************************)
(* The start                                                               *)
(***************************************************************************)

Start ==
    /\ main = "off"
    /\ main' = "clearing"
    /\ asked' = {}
    /\ UNCHANGED <<opening, resources, timer, poll, stop, handlers, file, faults>>

Unlinked_Mutant == file  \* start does not mark itself as not ready

Unlinked == FALSE

(* markNotReady, then execute begins to migrate and to connect at once. *)
Clear ==
    /\ main = "clearing"
    /\ main' = "opening"
    /\ file' = Unlinked
    /\ migrations' = "reading"
    /\ resources' = "open"
    /\ UNCHANGED <<connected, timer, poll, shutdown, faults>>

ClearFails ==
    /\ main = "clearing"
    /\ Fault
    /\ main' = "failed"
    /\ UNCHANGED <<opening, resources, timer, poll, shutdown, file>>

(* The migration files are read before a client is asked for, which a pool *)
(* refuses once it is to end.                                              *)
TakeClient ==
    /\ migrations = "reading"
    /\ migrations' = IF resources = "open" THEN "locked" ELSE "none"
    /\ UNCHANGED <<main, connected, resources, timer, poll, shutdown, file, faults>>

Migrate ==
    /\ migrations = "locked"
    /\ migrations' = "done"
    /\ UNCHANGED <<main, connected, resources, timer, poll, shutdown, file, faults>>

Connect ==
    /\ main = "opening"
    /\ ~connected
    /\ connected' = TRUE
    /\ UNCHANGED <<main, migrations, resources, timer, poll, shutdown, file, faults>>

(* Active matches are recovered and the loop starts, with a first poll. *)
StartLoop ==
    /\ main = "opening"
    /\ migrations = "done"
    /\ connected
    /\ main' = "announcing"
    /\ timer' = TRUE
    /\ poll' = [stage |-> "claimEvents", left |-> 0]
    /\ UNCHANGED <<opening, resources, shutdown, file, faults>>

(* A migration, the connection or the recovery fails.  Migrations go on    *)
(* when it is the connection, though nobody waits for them any more.       *)
OpeningFails ==
    /\ main = "opening"
    /\ Fault
    /\ main' = "closing"
    /\ resources' = "closing"
    /\ migrations' \in IF connected THEN {"none"} ELSE {"none", migrations}
    /\ UNCHANGED <<connected, timer, poll, shutdown, file>>

PoolIsFree_Mutant == TRUE  \* pool.end is not awaited

PoolIsFree == migrations # "locked" /\ poll = NoPoll

(* closeResources: pool.end waits for the clients in use. *)
CloseAfterFailure ==
    /\ main = "closing"
    /\ PoolIsFree
    /\ resources' = "closed"
    /\ main' = "failed"
    /\ UNCHANGED <<opening, timer, poll, shutdown, file, faults>>

Subscribed_Mutant == {CHOOSE s \in Signals : TRUE}  \* forgets a signal

Subscribed == Signals

(* markReady, after which the signals are subscribed to without a pause. *)
MarkReady ==
    /\ main = "announcing"
    /\ main' = "ready"
    /\ file' = TRUE
    /\ handlers' = Subscribed
    /\ UNCHANGED <<opening, resources, timer, poll, stop, asked, faults>>

(* The file cannot be written, or only created: startWorker throws while   *)
(* the loop goes on, without a handler that would stop it.                 *)
MarkReadyFails ==
    /\ main = "announcing"
    /\ Fault
    /\ main' = "failed"
    /\ file' \in {file, TRUE}
    /\ UNCHANGED <<opening, resources, timer, poll, shutdown>>

Startup ==
    \/ Clear
    \/ TakeClient
    \/ Migrate
    \/ Connect
    \/ StartLoop
    \/ CloseAfterFailure
    \/ MarkReady

(***************************************************************************)
(* The loop                                                                *)
(***************************************************************************)

PollGoesTo(stage, left) ==
    /\ poll' = [stage |-> stage, left |-> left]
    /\ UNCHANGED <<main, opening, resources, timer, shutdown, file, faults>>

BeginPoll ==
    /\ timer
    /\ poll = NoPoll
    /\ PollGoesTo("claimEvents", 0)

ClaimEvents ==
    /\ poll.stage = "claimEvents"
    /\ \E n \in 0..Batch : PollGoesTo("publish", n)

HasMore == poll.left > 0

(* What an event makes of the poll, whether it could be published or not:  *)
(* a failure of the channel is recorded.                                   *)
Publications_Mutant == {[poll EXCEPT !.left = @ - 1], NoPoll}  \* it ends the poll

Publications == {[poll EXCEPT !.left = @ - 1]}

Publish ==
    /\ poll.stage = "publish"
    /\ HasMore
    /\ \E p \in Publications : PollGoesTo(p.stage, p.left)

ClaimJobs ==
    /\ poll.stage = "publish"
    /\ ~HasMore
    /\ \E n \in 0..Batch : PollGoesTo("jobs", n)

ProcessJob ==
    /\ poll.stage = "jobs"
    /\ HasMore
    /\ PollGoesTo("jobs", poll.left - 1)

EndPoll ==
    /\ poll.stage = "jobs"
    /\ ~HasMore
    /\ PollGoesTo("none", 0)

(* A claim fails, or an attempt to record a failure: the error is logged. *)
PollFails ==
    /\ poll # NoPoll
    /\ Fault
    /\ poll' = NoPoll
    /\ UNCHANGED <<main, opening, resources, timer, shutdown, file>>

PollStep == ClaimEvents \/ Publish \/ ClaimJobs \/ ProcessJob \/ EndPoll

(***************************************************************************)
(* The stop                                                                *)
(***************************************************************************)

TimerAfterStop_Mutant == timer  \* the interval is never cleared

TimerAfterStop == FALSE

(* A handler serves one signal.  The first one stops the runtime, the      *)
(* others are answered with the same stopPromise.                          *)
HandledSignal(s) ==
    /\ s \in handlers
    /\ handlers' = handlers \ {s}
    /\ asked' = asked \cup {s}
    /\ IF stop = "none" THEN stop' = "awaiting" /\ timer' = TimerAfterStop
                        ELSE UNCHANGED <<stop, timer>>
    /\ UNCHANGED <<main, opening, resources, poll, file, faults>>

(* A signal without a handler kills the process. *)
FatalSignal(s) ==
    /\ main # "off"
    /\ s \notin handlers
    /\ asked' = asked \cup {s}
    /\ Gone

PollIsOver_Mutant == TRUE  \* activePoll is not awaited

PollIsOver == poll = NoPoll

(* loop.stop ends with the active poll; closeResources begins. *)
AwaitPoll ==
    /\ stop = "awaiting"
    /\ PollIsOver
    /\ stop' = "closing"
    /\ resources' = "closing"
    /\ UNCHANGED <<main, opening, timer, poll, handlers, asked, file, faults>>

ClosePool ==
    /\ stop = "closing"
    /\ PoolIsFree
    /\ stop' = "clearing"
    /\ resources' = "closed"
    /\ UNCHANGED <<main, opening, timer, poll, handlers, asked, file, faults>>

(* markNotReady, then stopped is resolved and the handlers are disposed of. *)
MarkNotReady ==
    /\ stop = "clearing"
    /\ stop' = "done"
    /\ file' = FALSE
    /\ handlers' = {}
    /\ UNCHANGED <<main, opening, resources, timer, poll, asked, faults>>

MarkNotReadyFails ==
    /\ stop = "clearing"
    /\ Fault
    /\ stop' = "done"
    /\ handlers' = {}
    /\ UNCHANGED <<main, opening, resources, timer, poll, asked, file>>

(* Nothing is left that keeps the process alive: no timer, no client, no   *)
(* connection.                                                             *)
Exit ==
    /\ main = "failed" \/ (main = "ready" /\ stop = "done")
    /\ ~timer
    /\ poll = NoPoll
    /\ resources \in {"idle", "closed"}
    /\ UNCHANGED asked
    /\ Gone

Shutdown == AwaitPoll \/ ClosePool \/ MarkNotReady \/ Exit

Next ==
    \/ Start
    \/ Startup
    \/ ClearFails
    \/ OpeningFails
    \/ MarkReadyFails
    \/ BeginPoll
    \/ PollStep
    \/ PollFails
    \/ \E s \in Signals : HandledSignal(s) \/ FatalSignal(s)
    \/ Shutdown
    \/ MarkNotReadyFails

Spec == Init /\ [][Next]_vars

(* A process that runs goes on, and its timer fires; nobody has to start   *)
(* it or to send it a signal.                                              *)
Fairness ==
    /\ WF_vars(Startup)
    /\ WF_vars(BeginPoll)
    /\ WF_vars(PollStep)
    /\ WF_vars(Shutdown)

FairSpec == Spec /\ Fairness

-----------------------------------------------------------------------------
(***************************************************************************)
(* Properties                                                              *)
(***************************************************************************)

(* The process's variables have their types. *)
TypeOK ==
    /\ main \in {"off", "clearing", "opening", "closing", "announcing", "ready", "failed"}
    /\ migrations \in {"none", "reading", "locked", "done"}
    /\ connected \in BOOLEAN
    /\ resources \in {"idle", "open", "closing", "closed"}
    /\ timer \in BOOLEAN
    /\ poll \in [stage : {"none", "claimEvents", "publish", "jobs"}, left : 0..Batch]
    /\ stop \in {"none", "awaiting", "closing", "clearing", "done"}
    /\ handlers \in SUBSET Signals
    /\ asked \in SUBSET Signals
    /\ file \in BOOLEAN
    /\ faults \in 0..MaxFaults
    /\ poll.stage = "none" => poll.left = 0

(* The database and the channel are not closed under a poll, whenever the  *)
(* stop comes (reliable-worker.ts:117), nor the pool under migrations that *)
(* go on when the connection to the channel has failed.                    *)
DatastoresOutliveUse ==
    /\ poll # NoPoll => resources = "open"
    /\ migrations = "locked" => resources \in {"open", "closing"}

(* The readiness file, which the container's health check looks for, means *)
(* a worker that polls or is being stopped; what a killed process left of  *)
(* it is gone before the next one touches the database (worker.ts:90).     *)
ReadyIsHonest ==
    file /\ resources # "idle" => timer \/ stop # "none"

(* A worker that is ready finishes its poll: no signal kills it before it  *)
(* has stopped, unless the very same signal is sent again.                 *)
FirstSignalsAreHandled ==
    [][main = "ready" /\ stop # "done" /\ main' = "off" => asked' = asked]_vars

(* A worker that was told to stop, or that could not open its resources,   *)
(* ends.                                                                   *)
StopsInTheEnd == stop # "none" \/ main = "closing" ~> main = "off"

(* As long as the loop runs it gets to the deadlines again and again, even *)
(* if no event can ever be published (reliable-worker.ts:99).              *)
DeadlinesAreServed == timer ~> poll.stage = "jobs" \/ ~timer
=============================================================================
