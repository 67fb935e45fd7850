------------------------- MODULE WorkerLoop_proofs -------------------------
(***************************************************************************)
(* Theorems about WorkerLoop, for any set of signals, size of a batch and  *)
(* number of faults.                                                       *)
(***************************************************************************)
EXTENDS WorkerLoop, TLAPS

-----------------------------------------------------------------------------
(***************************************************************************)
(* The inductive invariant                                                 *)
(***************************************************************************)

Quiet == ~timer /\ poll = NoPoll

(* Before anything is opened, and once a process could not even begin to. *)
Untouched == Quiet /\ resources = "idle" /\ migrations = "none" /\ stop = "none"

(* What startWorker has, at each of its steps, of a loop and of resources. *)
StartIsInOrder ==
    /\ main \in {"off", "clearing"} => Untouched /\ handlers = {}
    /\ main = "opening" => /\ Quiet /\ resources = "open" /\ stop = "none"
                           /\ handlers = {} /\ ~file
    /\ main = "closing" => /\ Quiet /\ resources = "closing" /\ stop = "none"
                           /\ handlers = {} /\ ~file
    /\ main = "announcing" => timer /\ resources = "open" /\ stop = "none" /\ handlers = {}
    /\ main = "failed" => /\ handlers = {} /\ stop = "none"
                          /\ \/ Untouched
                             \/ Quiet /\ resources = "closed" /\ ~file
                             \/ timer /\ resources = "open"
    /\ main \in {"announcing", "ready"} => migrations = "done"

(* A stop first takes the loop's timer and poll, then its resources. *)
StopIsInOrder ==
    /\ main = "ready" /\ stop = "none" => timer /\ resources = "open"
    /\ stop # "none" => main = "ready" /\ ~timer
    /\ stop = "awaiting" => resources = "open"
    /\ stop = "closing" => poll = NoPoll /\ resources = "closing"
    /\ stop \in {"clearing", "done"} => poll = NoPoll /\ resources = "closed"

(* Whatever has no handler any more has been sent before. *)
SignalsAreHandled ==
    main = "ready" /\ stop # "done" => Signals \subseteq handlers \cup asked

IInv ==
    /\ TypeOK
    /\ StartIsInOrder
    /\ StopIsInOrder
    /\ SignalsAreHandled
    /\ DatastoresOutliveUse
    /\ ReadyIsHonest

-----------------------------------------------------------------------------
(***************************************************************************)
(* The invariant holds                                                     *)
(***************************************************************************)

LEMMA FaultCounts == ASSUME TypeOK, Fault PROVE faults' \in 0..MaxFaults
BY BoundsAssumption DEF TypeOK, Fault

LEMMA NoPollIsPoll ==
    NoPoll \in [stage : {"none", "claimEvents", "publish", "jobs"}, left : 0..Batch]
BY BoundsAssumption DEF NoPoll

LEMMA InitInvariant == Init => IInv
<1> SUFFICES ASSUME Init PROVE IInv
  OBVIOUS
<1>1. TypeOK
  <2>1. 0 \in 0..MaxFaults /\ NoPoll.left = 0
    BY BoundsAssumption DEF NoPoll
  <2> QED
    BY <2>1, NoPollIsPoll DEF Init, TypeOK
<1>2. StartIsInOrder /\ StopIsInOrder
  BY DEF Init, StartIsInOrder, StopIsInOrder, Quiet, Untouched
<1>3. SignalsAreHandled /\ DatastoresOutliveUse /\ ReadyIsHonest
  BY DEF Init, SignalsAreHandled, DatastoresOutliveUse, ReadyIsHonest
<1> QED
  BY <1>1, <1>2, <1>3 DEF IInv

(* A process that is gone leaves what the next one starts from. *)
LEMMA GoneKeepsInvariant ==
    ASSUME IInv, Gone, asked' \in SUBSET Signals
    PROVE  IInv'
<1>1. TypeOK'
  BY NoPollIsPoll DEF Gone, IInv, TypeOK, NoPoll
<1>2. StartIsInOrder' /\ StopIsInOrder'
  BY DEF Gone, StartIsInOrder, StopIsInOrder, Quiet, Untouched
<1>3. SignalsAreHandled' /\ DatastoresOutliveUse' /\ ReadyIsHonest'
  BY DEF Gone, SignalsAreHandled, DatastoresOutliveUse, ReadyIsHonest
<1> QED
  BY <1>1, <1>2, <1>3 DEF IInv

LEMMA StartupKeepsInvariant ==
    ASSUME IInv, Start \/ Startup
    PROVE  IInv'
<1> USE DEF IInv, TypeOK, StartIsInOrder, StopIsInOrder, Quiet, Untouched, SignalsAreHandled,
        DatastoresOutliveUse, ReadyIsHonest, NoPoll, opening, shutdown
<1>1. CASE Start
  BY <1>1 DEF Start
<1>2. CASE Clear
  BY <1>2 DEF Clear, Unlinked
<1>3. CASE TakeClient
  BY <1>3 DEF TakeClient
<1>4. CASE Migrate
  BY <1>4 DEF Migrate
<1>5. CASE Connect
  BY <1>5 DEF Connect
<1>6. CASE StartLoop
  BY <1>6, BoundsAssumption DEF StartLoop
<1>7. CASE CloseAfterFailure
  BY <1>7 DEF CloseAfterFailure, PoolIsFree
<1>8. CASE MarkReady
  BY <1>8 DEF MarkReady, Subscribed
<1> QED
  BY <1>1, <1>2, <1>3, <1>4, <1>5, <1>6, <1>7, <1>8 DEF Startup

LEMMA FailuresKeepInvariant ==
    ASSUME IInv, ClearFails \/ OpeningFails \/ MarkReadyFails \/ MarkNotReadyFails
    PROVE  IInv'
<1>1. faults' \in 0..MaxFaults
  BY FaultCounts DEF IInv, ClearFails, OpeningFails, MarkReadyFails, MarkNotReadyFails
<1> USE DEF IInv, TypeOK, StartIsInOrder, StopIsInOrder, Quiet, Untouched, SignalsAreHandled,
        DatastoresOutliveUse, ReadyIsHonest, NoPoll, opening, shutdown
<1>2. CASE ClearFails
  BY <1>1, <1>2 DEF ClearFails
<1>3. CASE OpeningFails
  BY <1>1, <1>3 DEF OpeningFails
<1>4. CASE MarkReadyFails
  BY <1>1, <1>4 DEF MarkReadyFails
<1>5. CASE MarkNotReadyFails
  BY <1>1, <1>5 DEF MarkNotReadyFails
<1> QED
  BY <1>2, <1>3, <1>4, <1>5

(* The poll goes on within its batch, or is over: either way nothing else  *)
(* changes, and there is a poll only while the resources are open.         *)
LEMMA PollKeepsInvariant ==
    ASSUME IInv, BeginPoll \/ PollStep \/ PollFails
    PROVE  IInv'
<1> DEFINE Stages == [stage : {"none", "claimEvents", "publish", "jobs"}, left : 0..Batch]
<1>1. /\ poll' \in Stages /\ (poll'.stage = "none" => poll' = NoPoll)
      /\ poll' # NoPoll => timer \/ poll # NoPoll
      /\ faults' \in 0..MaxFaults
      /\ UNCHANGED <<main, migrations, connected, resources, timer, stop, handlers,
                     asked, file>>
  <2> USE BoundsAssumption DEF IInv, TypeOK, NoPoll, PollGoesTo, opening, shutdown
  <2>1. CASE BeginPoll
    BY <2>1 DEF BeginPoll
  <2>2. CASE ClaimEvents
    BY <2>2 DEF ClaimEvents
  <2>3. CASE Publish
    BY <2>3 DEF Publish, Publications, HasMore
  <2>4. CASE ClaimJobs
    BY <2>4 DEF ClaimJobs
  <2>5. CASE ProcessJob
    BY <2>5 DEF ProcessJob, HasMore
  <2>6. CASE EndPoll
    BY <2>6 DEF EndPoll
  <2>7. CASE PollFails
    BY <2>7, FaultCounts DEF PollFails
  <2> QED
    BY <2>1, <2>2, <2>3, <2>4, <2>5, <2>6, <2>7 DEF PollStep
<1>2. poll' # NoPoll => resources = "open" /\ stop \in {"none", "awaiting"}
                        /\ main \in {"announcing", "ready", "failed"} /\ (main = "failed" => timer)
  BY <1>1 DEF IInv, TypeOK, StartIsInOrder, StopIsInOrder, DatastoresOutliveUse, Quiet, Untouched
<1>3. TypeOK'
  BY <1>1 DEF IInv, TypeOK, NoPoll
<1> QED
  BY <1>1, <1>2, <1>3
     DEF IInv, StartIsInOrder, StopIsInOrder, Quiet, Untouched, SignalsAreHandled,
         DatastoresOutliveUse, ReadyIsHonest, NoPoll

LEMMA SignalsKeepInvariant ==
    ASSUME IInv, NEW s \in Signals, HandledSignal(s) \/ FatalSignal(s)
    PROVE  IInv'
<1>1. CASE FatalSignal(s)
  BY <1>1, GoneKeepsInvariant DEF FatalSignal, IInv, TypeOK
<1>2. CASE HandledSignal(s)
  <2>1. main = "ready"
    BY <1>2 DEF HandledSignal, IInv, TypeOK, StartIsInOrder
  <2> QED
    BY <1>2, <2>1
       DEF HandledSignal, TimerAfterStop, opening, IInv, TypeOK, StartIsInOrder, StopIsInOrder,
           Quiet, Untouched, SignalsAreHandled, DatastoresOutliveUse, ReadyIsHonest, NoPoll
<1> QED
  BY <1>1, <1>2

LEMMA ShutdownKeepsInvariant ==
    ASSUME IInv, Shutdown
    PROVE  IInv'
<1>1. CASE Exit
  BY <1>1, GoneKeepsInvariant DEF Exit, IInv, TypeOK
<1> USE DEF IInv, TypeOK, StartIsInOrder, StopIsInOrder, Quiet, Untouched, SignalsAreHandled,
        DatastoresOutliveUse, ReadyIsHonest, NoPoll, opening
<1>2. CASE AwaitPoll
  BY <1>2 DEF AwaitPoll, PollIsOver
<1>3. CASE ClosePool
  BY <1>3 DEF ClosePool, PoolIsFree
<1>4. CASE MarkNotReady
  BY <1>4 DEF MarkNotReady
<1> QED
  BY <1>1, <1>2, <1>3, <1>4 DEF Shutdown

LEMMA NextKeepsInvariant == IInv /\ [Next]_vars => IInv'
<1> SUFFICES ASSUME IInv, [Next]_vars PROVE IInv'
  OBVIOUS
<1>1. CASE UNCHANGED vars
  BY <1>1 DEF vars, IInv, TypeOK, StartIsInOrder, StopIsInOrder, Quiet, Untouched,
              SignalsAreHandled, DatastoresOutliveUse, ReadyIsHonest, NoPoll
<1>2. CASE Next
  BY <1>2, StartupKeepsInvariant, FailuresKeepInvariant, PollKeepsInvariant,
     SignalsKeepInvariant, ShutdownKeepsInvariant DEF Next
<1> QED
  BY <1>1, <1>2

(* Everything the theorems below rest on. *)
THEOREM Invariance == Spec => []IInv
BY InitInvariant, NextKeepsInvariant, PTL DEF Spec

(* TypeOK, with the poll's claims within a batch (reliable-worker.ts:91-109). *)
THEOREM TypeCorrect == Spec => []TypeOK
<1>1. IInv => TypeOK
  BY DEF IInv
<1> QED
  BY <1>1, Invariance, PTL

(* DatastoresOutliveUse: wherever a stop or a failure comes, the pool and   *)
(* the channel are not closed under a poll, nor the pool under migrations   *)
(* (reliable-worker.ts:111-118, 182-196).                                   *)
THEOREM DatastoresAlwaysOutliveUse == Spec => []DatastoresOutliveUse
<1>1. IInv => DatastoresOutliveUse
  BY DEF IInv
<1> QED
  BY <1>1, Invariance, PTL

(* ReadyIsHonest: a readiness file beside open resources means a loop that  *)
(* runs or a stop under way (worker.ts:84-98).                              *)
THEOREM ReadyIsAlwaysHonest == Spec => []ReadyIsHonest
<1>1. IInv => ReadyIsHonest
  BY DEF IInv
<1> QED
  BY <1>1, Invariance, PTL

(* FirstSignalsAreHandled: a ready worker that has yet to stop ends by no    *)
(* step but a signal it has had before, whatever the signals are            *)
(* (process-signals.ts:8-26).                                               *)
THEOREM FirstSignalsAreAlwaysHandled == Spec => FirstSignalsAreHandled
<1>1. ASSUME IInv, [Next]_vars, main = "ready", stop # "done", main' = "off"
      PROVE  asked' = asked
  <2>1. CASE \E s \in Signals : FatalSignal(s)
    <3>1. PICK s \in Signals : FatalSignal(s)
      BY <2>1
    <3>2. s \in asked
      BY <1>1, <3>1 DEF FatalSignal, IInv, SignalsAreHandled
    <3> QED
      BY <3>1, <3>2 DEF FatalSignal
  <2>2. CASE ~\E s \in Signals : FatalSignal(s)
    BY <1>1, <2>2
       DEF vars, Next, Start, Startup, Clear, TakeClient, Migrate, Connect, StartLoop,
           CloseAfterFailure, MarkReady, ClearFails, OpeningFails, MarkReadyFails, BeginPoll,
           PollGoesTo, PollStep, ClaimEvents, Publish, ClaimJobs, ProcessJob, EndPoll,
           PollFails, HandledSignal, Shutdown, AwaitPoll, ClosePool, MarkNotReady, Exit,
           MarkNotReadyFails
  <2> QED
    BY <2>1, <2>2
<1>2. IInv /\ [Next]_vars =>
        [main = "ready" /\ stop # "done" /\ main' = "off" => asked' = asked]_vars
  BY <1>1
<1> QED
  BY <1>2, Invariance, PTL DEF Spec, FirstSignalsAreHandled
=============================================================================
