----------------------- MODULE CommandExecutor_proofs -----------------------
(***************************************************************************)
(* Theorems about CommandExecutor, for any number of clients, keys,        *)
(* requests, calls, deadlines and faults.                                  *)
(***************************************************************************)
EXTENDS CommandExecutor, Sequences, FiniteSetTheorems, FunctionTheorems, TLAPS

-----------------------------------------------------------------------------
(***************************************************************************)
(* The inductive invariant                                                 *)
(***************************************************************************)

(* A call is of a key and a request. *)
CallsAreOfKeys ==
    \A c \in Clients : tx[c].at # "idle" => tx[c].key \in Keys /\ tx[c].body \in Bodies

(* Whoever has inserted the row of a key still sees that there was none,    *)
(* and nobody else has.                                                     *)
KeyIsTaken ==
    \A c \in Clients :
        tx[c].at \in {"acquired", "locked"} =>
            /\ records[tx[c].key] = NoRecord
            /\ \A d \in Clients \ {c} :
                  tx[d].at \in {"acquired", "locked"} => tx[d].key # tx[c].key

(* Whoever has locked the match sees its version, and nobody else has. *)
MatchIsLocked ==
    \A c \in Clients :
        tx[c].at = "locked" =>
            /\ version = tx[c].seenVersion
            /\ \A d \in Clients \ {c} : tx[d].at # "locked"

(* The event of a command tells its key's record, which has been written. *)
EventsHaveRecords ==
    \A e \in events : e.key # NoKey => /\ records[e.key] # NoRecord
                                       /\ records[e.key].answer = e.version

(* The events are those of the versions 2 to version, one of each. *)
EventsAreVersions ==
    /\ \A e1, e2 \in events : e1.version = e2.version => e1 = e2
    /\ {e.version : e \in events} = 2..version

IInv ==
    /\ TypeOK
    /\ CallsAreOfKeys
    /\ KeyIsTaken
    /\ MatchIsLocked
    /\ EventsHaveRecords
    /\ EventsAreVersions
    /\ OneAnswer

-----------------------------------------------------------------------------
(***************************************************************************)
(* What the actions are made of                                            *)
(***************************************************************************)

LEMMA IdleIsCall == Idle \in Call /\ NoRecord \in Record
BY LimitAssumption DEF Idle, Call, Record, NoRecord

(* A step of a call changes the call of its client alone, to one that is as *)
(* far as it was or further back, or to none.                               *)
LEMMA EndsIsCall ==
    ASSUME TypeOK, NEW c \in Clients, Ends(c)
    PROVE  /\ tx' \in [Clients -> Call]
           /\ tx'[c].at = "idle"
           /\ \A d \in Clients \ {c} : tx'[d] = tx[d]
BY IdleIsCall DEF Ends, TypeOK, Idle

LEMMA GoesIsCall ==
    ASSUME TypeOK, NEW c \in Clients,
           NEW step \in {"ready", "inserting", "acquired", "locked"}, Goes(c, step)
    PROVE  /\ tx' \in [Clients -> Call]
           /\ tx'[c] = [tx[c] EXCEPT !.at = step]
           /\ \A d \in Clients \ {c} : tx'[d] = tx[d]
BY DEF Goes, TypeOK, Call

LEMMA RetriesIsCall ==
    ASSUME TypeOK, NEW c \in Clients, Retries(c)
    PROVE  /\ tx' \in [Clients -> Call]
           /\ tx'[c].at \in {"idle", "ready"}
           /\ tx'[c].at = "ready" => tx'[c].key = tx[c].key /\ tx'[c].body = tx[c].body
           /\ \A d \in Clients \ {c} : tx'[d] = tx[d]
<1>1. CASE tx[c].attempt = MaximumAttempts
  <2>1. Ends(c)
    BY <1>1 DEF Retries
  <2> QED
    BY <2>1, EndsIsCall
<1>2. CASE tx[c].attempt # MaximumAttempts
  <2>1. tx[c] \in Call /\ tx[c].attempt + 1 \in 0..MaximumAttempts
    BY <1>2, LimitAssumption DEF TypeOK, Call
  <2>2. tx' = [tx EXCEPT ![c] = [tx[c] EXCEPT !.at = "ready", !.attempt = @ + 1]]
    BY <1>2 DEF Retries, TypeOK
  <2>3. [tx[c] EXCEPT !.at = "ready", !.attempt = @ + 1] \in Call
    BY <2>1 DEF Call
  <2> QED
    BY <2>1, <2>2, <2>3 DEF TypeOK, Call
<1> QED
  BY <1>1, <1>2

(* A step that changes nothing but the call of one client, who lets go of   *)
(* what it held, keeps the invariant.                                       *)
LEMMA LettingGo ==
    ASSUME IInv, NEW c \in Clients,
           tx' \in [Clients -> Call],
           tx'[c].at \in {"idle", "ready", "inserting"},
           tx'[c].at # "idle" => tx'[c].key \in Keys /\ tx'[c].body \in Bodies,
           \A d \in Clients \ {c} : tx'[d] = tx[d],
           UNCHANGED <<version, records, events>>,
           answers' \in SUBSET [key : Keys, body : Bodies, answer : Nat],
           \A a \in answers' \ answers : records[a.key] = [body |-> a.body, answer |-> a.answer],
           calls' \in 0..MaxCalls, faults' \in 0..MaxFaults
    PROVE  IInv'
<1>1. TypeOK'
  BY DEF IInv, TypeOK
<1>2. CallsAreOfKeys'
  BY DEF IInv, CallsAreOfKeys
<1>3. KeyIsTaken'
  BY DEF IInv, KeyIsTaken
<1>4. MatchIsLocked'
  BY DEF IInv, MatchIsLocked
<1>5. EventsHaveRecords' /\ EventsAreVersions'
  BY DEF IInv, EventsHaveRecords, EventsAreVersions
<1>6. OneAnswer'
  BY DEF IInv, OneAnswer
<1> QED
  BY <1>1, <1>2, <1>3, <1>4, <1>5, <1>6 DEF IInv

-----------------------------------------------------------------------------
(***************************************************************************)
(* The invariant is inductive                                              *)
(***************************************************************************)

LEMMA InitInvariant == Init => IInv
<1> SUFFICES ASSUME Init
             PROVE  IInv
  OBVIOUS
<1>1. TypeOK
  BY IdleIsCall, LimitAssumption DEF Init, TypeOK
<1>2. EventsAreVersions
  BY DEF Init, EventsAreVersions
<1> QED
  BY <1>1, <1>2 DEF Init, IInv, Idle, CallsAreOfKeys, KeyIsTaken, MatchIsLocked,
                    EventsHaveRecords, OneAnswer

LEMMA FaultCounts == ASSUME TypeOK, Fault PROVE faults' \in 0..MaxFaults
BY LimitAssumption DEF TypeOK, Fault

LEMMA SendKeepsInvariant ==
    ASSUME IInv, NEW c \in Clients, Send(c)
    PROVE  IInv'
<1>0. TypeOK
  BY DEF IInv
<1>1. PICK k \in Keys, b \in Bodies :
         tx' = [tx EXCEPT ![c] = [Idle EXCEPT !.at = "ready", !.key = k,
                                              !.body = b, !.attempt = 1]]
  BY DEF Send
<1>2. ASSUME NEW x \in Call
      PROVE  /\ [x EXCEPT !.at = "ready", !.key = k, !.body = b, !.attempt = 1] \in Call
             /\ [x EXCEPT !.at = "ready", !.key = k, !.body = b, !.attempt = 1].at = "ready"
             /\ [x EXCEPT !.at = "ready", !.key = k, !.body = b, !.attempt = 1].key = k
             /\ [x EXCEPT !.at = "ready", !.key = k, !.body = b, !.attempt = 1].body = b
  <2>1. 1 \in 0..MaximumAttempts
    BY LimitAssumption
  <2> QED
    BY <1>1, <2>1 DEF Call
<1>3. /\ tx' \in [Clients -> Call]
      /\ tx'[c].at = "ready" /\ tx'[c].key \in Keys /\ tx'[c].body \in Bodies
      /\ \A d \in Clients \ {c} : tx'[d] = tx[d]
  BY <1>0, <1>1, <1>2, IdleIsCall DEF TypeOK
<1>4. /\ UNCHANGED <<version, records, events, answers, faults>>
      /\ calls' \in 0..MaxCalls
  BY <1>0, LimitAssumption DEF Send, TypeOK
<1> QED
  BY <1>0, <1>3, <1>4, LettingGo DEF TypeOK

LEMMA BeginKeepsInvariant ==
    ASSUME IInv, NEW c \in Clients, Begin(c)
    PROVE  IInv'
<1>0. TypeOK
  BY DEF IInv
<1> DEFINE begun == [tx[c] EXCEPT !.at = "inserting",
                                  !.seenRecord = records[tx[c].key],
                                  !.seenVersion = version]
<1>1. tx[c].at = "ready" /\ tx[c].key \in Keys /\ tx[c].body \in Bodies
  BY DEF Begin, IInv, CallsAreOfKeys
<1>2. begun \in Call
  BY <1>0, <1>1 DEF TypeOK, Call
<1>3. tx' = [tx EXCEPT ![c] = begun]
  BY <1>0 DEF Begin, TypeOK
<1>4. /\ tx' \in [Clients -> Call]
      /\ tx'[c].at = "inserting" /\ tx'[c].key \in Keys /\ tx'[c].body \in Bodies
      /\ \A d \in Clients \ {c} : tx'[d] = tx[d]
  BY <1>0, <1>1, <1>2, <1>3 DEF TypeOK, Call
<1> QED
  BY <1>0, <1>4, LettingGo DEF Begin, TypeOK

LEMMA AcquireKeepsInvariant ==
    ASSUME IInv, NEW c \in Clients, Acquire(c)
    PROVE  IInv'
<1>0. TypeOK
  BY DEF IInv
<1>1. /\ tx[c].at = "inserting" /\ ~KeyHeld(c)
      /\ UNCHANGED <<version, records, events, calls>>
      /\ tx[c] \in Call /\ tx[c].key \in Keys /\ tx[c].body \in Bodies
  BY <1>0 DEF Acquire, IInv, CallsAreOfKeys, TypeOK
<1>2. CASE Retries(c) /\ UNCHANGED <<answers, faults>>
  BY <1>0, <1>1, <1>2, RetriesIsCall, LettingGo DEF TypeOK
<1>3. CASE Ends(c) /\ UNCHANGED <<answers, faults>>
  BY <1>0, <1>1, <1>3, EndsIsCall, LettingGo DEF TypeOK
<1>4. CASE RecordIsSeen(c) /\ SameRequest(c) /\ Answers(c, tx[c].seenRecord.answer)
  <2>1. /\ records[tx[c].key] = tx[c].seenRecord
        /\ tx[c].seenRecord \in Record
        /\ tx[c].seenRecord.body = tx[c].body
    BY <1>1, <1>4 DEF RecordIsSeen, SameRequest, Call
  <2>2. records[tx[c].key] = [body |-> tx[c].body, answer |-> tx[c].seenRecord.answer]
    BY <2>1 DEF Record
  <2>3. CASE answers' = answers \cup {[key |-> tx[c].key, body |-> tx[c].body,
                                       answer |-> tx[c].seenRecord.answer]}
             /\ UNCHANGED faults
    <3>1. answers' \in SUBSET [key : Keys, body : Bodies, answer : Nat]
      BY <1>0, <1>1, <2>1, <2>3 DEF TypeOK, Record
    <3>2. \A a \in answers' \ answers :
             records[a.key] = [body |-> a.body, answer |-> a.answer]
      BY <2>2, <2>3
    <3> QED
      BY <1>0, <1>1, <1>4, <2>3, <3>1, <3>2, EndsIsCall, LettingGo DEF Answers, TypeOK
  <2>4. CASE Fault /\ UNCHANGED answers
    BY <1>0, <1>1, <1>4, <2>4, EndsIsCall, FaultCounts, LettingGo DEF Answers, TypeOK
  <2> QED
    BY <1>4, <2>3, <2>4 DEF Answers
<1>5. CASE /\ RecordIsSeen(c)
           /\ tx[c].seenRecord = NoRecord
           /\ Goes(c, "acquired")
           /\ UNCHANGED <<answers, faults>>
  <2>1. /\ tx' \in [Clients -> Call]
        /\ tx'[c] = [tx[c] EXCEPT !.at = "acquired"]
        /\ \A d \in Clients \ {c} : tx'[d] = tx[d]
    BY <1>0, <1>5, GoesIsCall
  <2>2. tx'[c].at = "acquired" /\ tx'[c].key = tx[c].key /\ tx'[c].body = tx[c].body
    BY <1>1, <2>1 DEF Call
  <2>3. KeyIsTaken'
    <3>1. records'[tx'[c].key] = NoRecord
      BY <1>1, <1>5, <2>2 DEF RecordIsSeen
    <3>2. \A d \in Clients \ {c} :
             tx'[d].at \in {"acquired", "locked"} => tx'[d].key # tx'[c].key
      BY <1>1, <2>1, <2>2 DEF KeyHeld
    <3>3. ASSUME NEW a \in Clients \ {c}, tx'[a].at \in {"acquired", "locked"}
          PROVE  /\ records'[tx'[a].key] = NoRecord
                 /\ \A d \in Clients \ {a} :
                       tx'[d].at \in {"acquired", "locked"} => tx'[d].key # tx'[a].key
      <4>1. /\ records[tx[a].key] = NoRecord
            /\ \A d \in Clients \ {a} :
                  tx[d].at \in {"acquired", "locked"} => tx[d].key # tx[a].key
        BY <2>1, <3>3 DEF KeyIsTaken, IInv
      <4> QED
        BY <1>1, <2>1, <3>2, <3>3, <4>1
    <3> QED
      BY <3>1, <3>2, <3>3 DEF KeyIsTaken
  <2>4. TypeOK' /\ CallsAreOfKeys'
    BY <1>0, <1>1, <1>5, <2>1, <2>2 DEF TypeOK, CallsAreOfKeys, IInv
  <2>5. MatchIsLocked'
    BY <1>1, <2>1, <2>2 DEF MatchIsLocked, IInv
  <2>6. EventsHaveRecords' /\ EventsAreVersions' /\ OneAnswer'
    BY <1>1, <1>5 DEF EventsHaveRecords, EventsAreVersions, OneAnswer, IInv
  <2> QED
    BY <2>3, <2>4, <2>5, <2>6 DEF IInv
<1> QED
  BY <1>2, <1>3, <1>4, <1>5 DEF Acquire

LEMMA LoadKeepsInvariant ==
    ASSUME IInv, NEW c \in Clients, Load(c)
    PROVE  IInv'
<1>0. TypeOK
  BY DEF IInv
<1>1. /\ tx[c].at = "acquired" /\ ~MatchHeld(c)
      /\ UNCHANGED <<version, records, events, answers, calls, faults>>
      /\ tx[c] \in Call /\ tx[c].key \in Keys /\ tx[c].body \in Bodies
  BY <1>0 DEF Load, IInv, CallsAreOfKeys, TypeOK
<1>2. CASE Retries(c)
  BY <1>0, <1>1, <1>2, RetriesIsCall, LettingGo DEF TypeOK
<1>3. CASE VersionIsSeen(c) /\ Goes(c, "locked")
  <2>1. /\ tx' \in [Clients -> Call]
        /\ tx'[c] = [tx[c] EXCEPT !.at = "locked"]
        /\ \A d \in Clients \ {c} : tx'[d] = tx[d]
    BY <1>0, <1>3, GoesIsCall
  <2>2. /\ tx'[c].at = "locked" /\ tx'[c].key = tx[c].key /\ tx'[c].body = tx[c].body
        /\ tx'[c].seenVersion = tx[c].seenVersion
    BY <1>1, <2>1 DEF Call
  <2>3. KeyIsTaken'
    <3>1. \A d \in Clients : /\ tx'[d].key = tx[d].key
                             /\ tx'[d].at \in {"acquired", "locked"}
                                   => tx[d].at \in {"acquired", "locked"}
      BY <1>1, <2>1, <2>2
    <3> QED
      BY <1>1, <3>1 DEF KeyIsTaken, IInv
  <2>4. TypeOK' /\ CallsAreOfKeys'
    BY <1>0, <1>1, <2>1, <2>2 DEF TypeOK, CallsAreOfKeys, IInv
  <2>5. MatchIsLocked'
    <3>1. \A d \in Clients \ {c} : tx'[d].at # "locked"
      BY <1>1, <2>1 DEF MatchHeld
    <3>2. version' = tx'[c].seenVersion
      BY <1>1, <1>3, <2>2 DEF VersionIsSeen
    <3> QED
      BY <3>1, <3>2 DEF MatchIsLocked
  <2>6. EventsHaveRecords' /\ EventsAreVersions' /\ OneAnswer'
    BY <1>1 DEF EventsHaveRecords, EventsAreVersions, OneAnswer, IInv
  <2> QED
    BY <2>3, <2>4, <2>5, <2>6 DEF IInv
<1> QED
  BY <1>2, <1>3 DEF Load

LEMMA GivingUpKeepsInvariant ==
    ASSUME IInv, NEW c \in Clients, Reject(c) \/ Abort(c) \/ Crash(c)
    PROVE  IInv'
<1>0. TypeOK
  BY DEF IInv
<1>1. CASE Reject(c)
  BY <1>0, <1>1, EndsIsCall, LettingGo DEF Reject, TypeOK
<1>2. CASE Abort(c)
  <2>1. tx[c].key \in Keys /\ tx[c].body \in Bodies
    BY <1>2 DEF Abort, IInv, CallsAreOfKeys
  <2> QED
    BY <1>0, <1>2, <2>1, RetriesIsCall, LettingGo DEF Abort, TypeOK
<1>3. CASE Crash(c)
  BY <1>0, <1>3, EndsIsCall, FaultCounts, LettingGo DEF Crash, TypeOK
<1> QED
  BY <1>1, <1>2, <1>3

(* Events of the next n versions are added to those there are. *)
LEMMA NextEvents ==
    ASSUME EventsAreVersions, version \in Nat \ {0}, events \in SUBSET Event,
           NEW k \in Keys \cup {NoKey}, NEW n \in Nat,
           version' = version + n,
           events' = events \cup {[key |-> k, version |-> version + i] : i \in 1..n}
    PROVE  EventsAreVersions' /\ events' \in SUBSET Event
<1>1. \A e \in events : e.version \in 2..version
  BY DEF EventsAreVersions
<1>2. \A e \in events' : \/ e \in events
                         \/ \E i \in 1..n : e = [key |-> k, version |-> version + i]
  OBVIOUS
<1>3. \A i \in 1..n : [key |-> k, version |-> version + i] \in events'
  OBVIOUS
<1>4. \A e1, e2 \in events' : e1.version = e2.version => e1 = e2
  <2> SUFFICES ASSUME NEW e1 \in events', NEW e2 \in events', e1.version = e2.version
               PROVE  e1 = e2
    OBVIOUS
  <2>1. CASE e1 \in events /\ e2 \in events
    BY <2>1 DEF EventsAreVersions
  <2>2. CASE e1 \notin events /\ e2 \notin events
    <3>1. PICK i \in 1..n : e1 = [key |-> k, version |-> version + i]
      BY <1>2, <2>2
    <3>2. PICK j \in 1..n : e2 = [key |-> k, version |-> version + j]
      BY <1>2, <2>2
    <3>3. i = j
      BY <3>1, <3>2
    <3> QED
      BY <3>1, <3>2, <3>3
  <2>3. ASSUME NEW x \in events, NEW y \in events' \ events
        PROVE  x.version # y.version
    <3>1. PICK i \in 1..n : y = [key |-> k, version |-> version + i]
      BY <1>2, <2>3
    <3>2. y.version = version + i /\ x.version \in 2..version
      BY <1>1, <3>1
    <3> QED
      BY <3>2
  <2> QED
    BY <2>1, <2>2, <2>3
<1>5. {e.version : e \in events'} = 2..version'
  <2>1. ASSUME NEW e \in events'
        PROVE  e.version \in 2..version'
    <3>1. CASE e \in events
      BY <1>1, <3>1
    <3>2. CASE e \notin events
      <4>1. PICK i \in 1..n : e = [key |-> k, version |-> version + i]
        BY <1>2, <3>2
      <4>2. e.version = version + i
        BY <4>1
      <4> QED
        BY <4>1, <4>2
    <3> QED
      BY <3>1, <3>2
  <2>2. ASSUME NEW v \in 2..version'
        PROVE  \E e \in events' : e.version = v
    <3>1. CASE v <= version
      <4>1. v \in 2..version
        BY <3>1
      <4> QED
        BY <4>1 DEF EventsAreVersions
    <3>2. CASE v > version
      <4>1. v - version \in 1..n /\ version + (v - version) = v
        BY <3>2
      <4>2. [key |-> k, version |-> v] \in events'
        BY <1>3, <4>1
      <4> QED
        BY <4>2
    <3> QED
      BY <3>1, <3>2
  <2> QED
    BY <2>1, <2>2
<1>6. events' \in SUBSET Event
  BY <1>2 DEF Event
<1> QED
  BY <1>4, <1>5, <1>6 DEF EventsAreVersions

LEMMA CommitKeepsInvariant ==
    ASSUME IInv, NEW c \in Clients, Commit(c)
    PROVE  IInv'
<1>0. TypeOK
  BY DEF IInv
<1> DEFINE k == tx[c].key
           b == tx[c].body
<1>1. /\ tx[c].at = "locked" /\ k \in Keys /\ b \in Bodies
      /\ tx[c].seenVersion = version /\ version \in Nat \ {0}
      /\ records[k] = NoRecord
      /\ UNCHANGED calls
  BY <1>0 DEF Commit, IInv, CallsAreOfKeys, KeyIsTaken, MatchIsLocked, TypeOK
<1>2. PICK v \in {version, version + 1} :
         /\ version' = v
         /\ events' = IF v = version THEN events
                      ELSE events \cup {[key |-> k, version |-> v]}
         /\ Completes(c, v)
         /\ Answers(c, v)
  BY <1>1 DEF Commit
<1> DEFINE new == [body |-> b, answer |-> v]
<1>3. /\ records' = [records EXCEPT ![k] = new]
      /\ new \in Record /\ new # NoRecord
      /\ records' \in [Keys -> Record]
  <2>1. new \in Record
    BY <1>1, <1>2 DEF Record
  <2>2. new.body # NoRecord.body
    BY <1>1, KeyAssumption DEF NoRecord
  <2> QED
    BY <1>0, <1>1, <1>2, <2>1, <2>2 DEF Completes, TypeOK
<1>4. /\ tx' \in [Clients -> Call]
      /\ tx'[c].at = "idle"
      /\ \A d \in Clients \ {c} : tx'[d] = tx[d]
  BY <1>0, <1>2, EndsIsCall DEF Answers
<1>5. /\ answers' \in SUBSET [key : Keys, body : Bodies, answer : Nat]
      /\ answers' \ answers \subseteq {[key |-> k, body |-> b, answer |-> v]}
      /\ faults' \in 0..MaxFaults
  <2>1. [key |-> k, body |-> b, answer |-> v] \in [key : Keys, body : Bodies, answer : Nat]
    BY <1>1, <1>2
  <2>2. CASE Fault /\ UNCHANGED answers
    BY <1>0, <2>2, FaultCounts DEF TypeOK
  <2>3. CASE answers' = answers \cup {[key |-> k, body |-> b, answer |-> v]} /\ UNCHANGED faults
    BY <1>0, <2>1, <2>3 DEF TypeOK
  <2> QED
    BY <1>2, <2>2, <2>3 DEF Answers
<1>6. EventsAreVersions' /\ events' \in SUBSET Event
  <2>1. CASE v = version
    BY <1>0, <1>2, <2>1 DEF EventsAreVersions, IInv, TypeOK
  <2>2. CASE v = version + 1
    <3>1. {[key |-> k, version |-> version + i] : i \in 1..1} = {[key |-> k, version |-> v]}
      BY <1>1, <2>2
    <3>2. v # version
      BY <1>1, <2>2
    <3>3. events' = events \cup {[key |-> k, version |-> version + i] : i \in 1..1}
      BY <1>2, <3>1, <3>2
    <3> QED
      BY <1>0, <1>1, <1>2, <2>2, <3>3, NextEvents DEF IInv, TypeOK
  <2> QED
    BY <1>2, <2>1, <2>2
<1>7. TypeOK'
  BY <1>0, <1>1, <1>2, <1>3, <1>4, <1>5, <1>6 DEF TypeOK
<1>8. CallsAreOfKeys'
  BY <1>4 DEF CallsAreOfKeys, IInv
<1>9. KeyIsTaken'
  <2> SUFFICES ASSUME NEW a \in Clients \ {c}, tx'[a].at \in {"acquired", "locked"}
               PROVE  /\ records'[tx'[a].key] = NoRecord
                      /\ \A d \in Clients \ {a} :
                            tx'[d].at \in {"acquired", "locked"} => tx'[d].key # tx'[a].key
    BY <1>4 DEF KeyIsTaken
  <2>1. /\ tx'[a] = tx[a]
        /\ records[tx[a].key] = NoRecord
        /\ \A d \in Clients \ {a} :
              tx[d].at \in {"acquired", "locked"} => tx[d].key # tx[a].key
    BY <1>4 DEF KeyIsTaken, IInv
  <2>2. tx[a].key # k /\ tx[a].key \in Keys
    BY <1>1, <2>1 DEF CallsAreOfKeys, IInv
  <2>3. records'[tx[a].key] = NoRecord
    BY <1>0, <1>3, <2>1, <2>2 DEF TypeOK
  <2>4. \A d \in Clients \ {a} :
           tx'[d].at \in {"acquired", "locked"} => tx'[d].key # tx'[a].key
    BY <1>4, <2>1
  <2> QED
    BY <2>1, <2>3, <2>4
<1>10. MatchIsLocked'
  BY <1>1, <1>4 DEF MatchIsLocked, IInv
<1>11. EventsHaveRecords'
  <2> SUFFICES ASSUME NEW e \in events', e.key # NoKey
               PROVE  /\ records'[e.key] # NoRecord
                      /\ records'[e.key].answer = e.version
    BY DEF EventsHaveRecords
  <2>1. CASE e \in events
    <3>1. /\ records[e.key] # NoRecord
          /\ records[e.key].answer = e.version
          /\ e.key \in Keys
      BY <1>0, <2>1 DEF EventsHaveRecords, IInv, TypeOK, Event
    <3> QED
      BY <1>0, <1>1, <1>3, <3>1 DEF TypeOK
  <2>2. CASE e \notin events
    <3>1. e = [key |-> k, version |-> v]
      BY <1>2, <2>2
    <3> QED
      BY <1>0, <1>1, <1>3, <3>1 DEF TypeOK
  <2> QED
    BY <2>1, <2>2
<1>12. OneAnswer'
  <2> SUFFICES ASSUME NEW a \in answers'
               PROVE  records'[a.key] = [body |-> a.body, answer |-> a.answer]
    BY DEF OneAnswer
  <2>1. CASE a \in answers
    <3>1. /\ records[a.key] = [body |-> a.body, answer |-> a.answer]
          /\ a.key \in Keys /\ a.body \in Bodies
      BY <1>0, <2>1 DEF OneAnswer, IInv, TypeOK
    <3>2. records[a.key].body # NoRecord.body
      BY <3>1, KeyAssumption DEF NoRecord
    <3>3. a.key # k
      BY <1>1, <3>2
    <3> QED
      BY <1>0, <1>3, <3>1, <3>3 DEF TypeOK
  <2>2. CASE a \notin answers
    <3>1. a = [key |-> k, body |-> b, answer |-> v]
      BY <1>5, <2>2
    <3> QED
      BY <1>0, <1>1, <1>3, <3>1 DEF TypeOK
  <2> QED
    BY <2>1, <2>2
<1> QED
  BY <1>6, <1>7, <1>8, <1>9, <1>10, <1>11, <1>12 DEF IInv

LEMMA DeadlineKeepsInvariant ==
    ASSUME IInv, Deadline
    PROVE  IInv'
<1>0. TypeOK
  BY DEF IInv
<1>1. /\ \A c \in Clients : tx[c].at # "locked"
      /\ UNCHANGED <<records, tx, answers, calls, faults>>
  BY DEF Deadline
<1>2. PICK n \in 1..DeadlineSteps :
         /\ version' = version + n
         /\ events' = events \cup {[key |-> NoKey, version |-> version + i] : i \in 1..n}
  BY DEF Deadline
<1>3. n \in Nat
  BY <1>2 DEF DeadlineSteps
<1>4. EventsAreVersions' /\ events' \in SUBSET Event
  BY <1>0, <1>2, <1>3, NextEvents DEF IInv, TypeOK
<1>5. TypeOK'
  BY <1>0, <1>1, <1>2, <1>3, <1>4 DEF TypeOK
<1>6. CallsAreOfKeys' /\ KeyIsTaken' /\ MatchIsLocked' /\ OneAnswer'
  BY <1>1 DEF CallsAreOfKeys, KeyIsTaken, MatchIsLocked, OneAnswer, IInv
<1>7. EventsHaveRecords'
  <2>1. \A e \in events' : e \in events \/ e.key = NoKey
    BY <1>2
  <2> QED
    BY <1>1, <2>1 DEF EventsHaveRecords, IInv
<1> QED
  BY <1>4, <1>5, <1>6, <1>7 DEF IInv

LEMMA NextKeepsInvariant == IInv /\ [Next]_vars => IInv'
<1> SUFFICES ASSUME IInv, [Next]_vars
             PROVE  IInv'
  OBVIOUS
<1>1. CASE Deadline
  BY <1>1, DeadlineKeepsInvariant
<1>2. ASSUME NEW c \in Clients, Send(c) \/ Step(c) \/ Abort(c) \/ Crash(c)
      PROVE  IInv'
  BY <1>2, SendKeepsInvariant, BeginKeepsInvariant, AcquireKeepsInvariant,
     LoadKeepsInvariant, CommitKeepsInvariant, GivingUpKeepsInvariant DEF Step
<1>3. CASE UNCHANGED vars
  BY <1>3 DEF vars, IInv, TypeOK, CallsAreOfKeys, KeyIsTaken, MatchIsLocked,
              EventsHaveRecords, EventsAreVersions, OneAnswer
<1> QED
  BY <1>1, <1>2, <1>3 DEF Next

(* In every state of every execution the inductive invariant holds. *)
THEOREM Invariance == Spec => []IInv
BY InitInvariant, NextKeepsInvariant, PTL DEF Spec

-----------------------------------------------------------------------------
(***************************************************************************)
(* What follows from it                                                    *)
(***************************************************************************)

(* Every variable keeps its type. *)
THEOREM TypeCorrect == Spec => []TypeOK
<1>1. IInv => TypeOK
  BY DEF IInv
<1> QED
  BY <1>1, Invariance, PTL

(* A command takes effect once at most, and with it its key is complete. *)
THEOREM EffectOnceAlways == Spec => []EffectOnce
<1>1. IInv => EffectOnce
  <2> SUFFICES ASSUME IInv
               PROVE  EffectOnce
    OBVIOUS
  <2>1. \A e \in events : e.key # NoKey => records[e.key].answer = e.version
    BY DEF IInv, EventsHaveRecords
  <2>2. \A e1, e2 \in events : e1.key = e2.key /\ e1.key # NoKey => e1 = e2
    <3>1. \A e1, e2 \in events : e1.version = e2.version => e1 = e2
      BY DEF IInv, EventsAreVersions
    <3> QED
      BY <2>1, <3>1
  <2> QED
    BY <2>1, <2>2 DEF EffectOnce
<1> QED
  BY <1>1, Invariance, PTL

(* Every answer ever given under a key stays the answer of its record. *)
THEOREM OneAnswerAlways == Spec => []OneAnswer
<1>1. IInv => OneAnswer
  BY DEF IInv
<1> QED
  BY <1>1, Invariance, PTL

(* The log has one event of every version and no other. *)
THEOREM LogIsGaplessAlways == Spec => []LogIsGapless
<1>1. IInv => LogIsGapless
  <2> SUFFICES ASSUME IInv
               PROVE  LogIsGapless
    OBVIOUS
  <2> DEFINE f == [e \in events |-> e.version]
  <2>1. /\ \A e1, e2 \in events : e1.version = e2.version => e1 = e2
        /\ {e.version : e \in events} = 2..version
        /\ version \in Nat \ {0}
    BY DEF IInv, EventsAreVersions, TypeOK
  <2>2. f \in Bijection(events, 2..version)
    <3>1. f \in [events -> 2..version]
      BY <2>1
    <3>2. \A e1, e2 \in events : f[e1] = f[e2] => e1 = e2
      BY <2>1
    <3>3. \A v \in 2..version : \E e \in events : f[e] = v
      BY <2>1
    <3> QED
      BY <3>1, <3>2, <3>3, Fun_IsBij
  <2>3. ExistsBijection(2..version, events)
    BY <2>2, Fun_ExistsBij, Fun_ExistsBijSymmetric
  <2>4. IsFiniteSet(2..version) /\ Cardinality(2..version) = version - 1
    <3>1. /\ IsFiniteSet(2..version)
          /\ Cardinality(2..version) = IF 2 > version THEN 0 ELSE version - 2 + 1
      BY <2>1, FS_Interval
    <3> QED
      BY <2>1, <3>1
  <2>5. Cardinality(events) = version - 1
    BY <2>3, <2>4, FS_Bijection
  <2> QED
    BY <2>1, <2>5 DEF LogIsGapless
<1> QED
  BY <1>1, Invariance, PTL

-----------------------------------------------------------------------------
(***************************************************************************)
(* The executor implements AtomicCommands                                  *)
(***************************************************************************)

(* The log has a change for each version after the first: the key of the   *)
(* one event of that version.                                              *)
LogOfEvents ==
    /\ Log \in Seq(Keys \cup {NoKey})
    /\ Len(Log) = version - 1
    /\ \A e \in events : e.version \in 2..version /\ Log[e.version - 1] = e.key

LEMMA LogIsOfEvents == IInv => LogOfEvents
<1> SUFFICES ASSUME IInv PROVE LogOfEvents
  OBVIOUS
<1>1. /\ version \in Nat \ {0} /\ events \in SUBSET Event
      /\ {e.version : e \in events} = 2..version
  BY DEF IInv, TypeOK, EventsAreVersions
<1>2. ASSUME NEW i \in 1..(version - 1)
      PROVE  EventOf(i + 1).key \in Keys \cup {NoKey}
  <2>1. \E e \in events : e.version = i + 1
    BY <1>1
  <2>2. EventOf(i + 1) \in events
    BY <2>1 DEF EventOf
  <2> QED
    BY <1>1, <2>2 DEF Event
<1>3. ASSUME NEW e \in events
      PROVE  e.version \in 2..version /\ Log[e.version - 1] = e.key
  <2>1. e.version \in 2..version
    BY <1>1
  <2>2. e.version - 1 \in 1..(version - 1) /\ (e.version - 1) + 1 = e.version
    BY <1>1, <2>1
  <2>3. EventOf(e.version) = e
    BY DEF IInv, EventsAreVersions, EventOf
  <2> QED
    BY <2>1, <2>2, <2>3 DEF Log
<1>4. version - 1 \in Nat
  BY <1>1
<1>5. Log \in Seq(Keys \cup {NoKey}) /\ Len(Log) = version - 1
  BY <1>2, <1>4 DEF Log
<1> QED
  BY <1>3, <1>5 DEF LogOfEvents

(* It has after a step what it had before. *)
LEMMA NextLogIsOfEvents == IInv' => LogOfEvents'
BY LogIsOfEvents, PTL

(* Events that are added leave the changes of the earlier versions alone. *)
LEMMA EarlierChangesStay ==
    ASSUME IInv, LogOfEvents, LogOfEvents', events \subseteq events'
    PROVE  \A i \in 1..(version - 1) : Log'[i] = Log[i]
<1> SUFFICES ASSUME NEW i \in 1..(version - 1)
             PROVE  Log'[i] = Log[i]
  OBVIOUS
<1>1. version \in Nat \ {0} /\ i + 1 \in 2..version /\ (i + 1) - 1 = i
  BY DEF IInv, TypeOK
<1>2. PICK e \in events : e.version = i + 1
  BY <1>1 DEF IInv, EventsAreVersions
<1>3. Log[i] = e.key
  BY <1>1, <1>2 DEF LogOfEvents
<1>4. Log'[i] = e.key
  BY <1>1, <1>2 DEF LogOfEvents
<1> QED
  BY <1>3, <1>4

(* A commit is the command's one moment. *)
LEMMA CommitIsAtomic ==
    ASSUME IInv, IInv', NEW c \in Clients, Commit(c)
    PROVE  \E k \in Keys, b \in Bodies : Atomic!Execute(k, b)
<1> DEFINE k == tx[c].key
           b == tx[c].body
<1>0. TypeOK /\ version \in Nat \ {0}
  BY DEF IInv, TypeOK
<1>1. /\ k \in Keys /\ b \in Bodies
      /\ records[k] = NoRecord /\ version = tx[c].seenVersion
  BY DEF Commit, IInv, CallsAreOfKeys, KeyIsTaken, MatchIsLocked
<1>2. PICK v \in {version, version + 1} :
         /\ version' = v
         /\ events' = IF v = version THEN events ELSE events \cup {[key |-> k, version |-> v]}
         /\ records' = [records EXCEPT ![k] = [body |-> b, answer |-> v]]
         /\ Answers(c, v)
  BY <1>1 DEF Commit, Completes
<1>3. records'[k] = [body |-> b, answer |-> v]
  BY <1>0, <1>1, <1>2 DEF TypeOK
<1>4. answers' \in {answers, answers \cup {Atomic!Answer(k, records'[k])}}
  BY <1>2, <1>3 DEF Answers, Atomic!Answer
<1> HIDE DEF k, b
<1>5. /\ LogOfEvents /\ LogOfEvents'
      /\ Log \in Seq(Keys \cup {NoKey}) /\ Len(Log) = version - 1
      /\ Log' \in Seq(Keys \cup {NoKey}) /\ Len(Log') = version' - 1
  BY LogIsOfEvents, NextLogIsOfEvents DEF LogOfEvents
<1>6. Log' \in {Log, Append(Log, k)}
  <2>1. \A i \in 1..(version - 1) : Log'[i] = Log[i]
    BY <1>2, <1>5, EarlierChangesStay
  <2>2. CASE v = version
    BY <1>2, <1>5, <2>1, <2>2
  <2>3. CASE v = version + 1
    <3>1. Log'[version] = k
      <4>1. [key |-> k, version |-> v] \in events'
        BY <1>0, <1>2, <2>3
      <4>2. Log'[v - 1] = k
        BY <1>5, <4>1 DEF LogOfEvents
      <4> QED
        BY <1>0, <2>3, <4>2
    <3>2. Len(Log') = version /\ Len(Append(Log, k)) = version
      BY <1>0, <1>1, <1>2, <1>5, <2>3
    <3>3. \A i \in 1..version : Log'[i] = Append(Log, k)[i]
      BY <1>0, <1>1, <1>5, <2>1, <3>1
    <3>4. Append(Log, k) \in Seq(Keys \cup {NoKey})
      BY <1>1, <1>5
    <3> HIDE DEF Log
    <3> QED
      BY <1>5, <3>2, <3>3, <3>4
  <2> QED
    BY <2>2, <2>3
<1>7. v = Atomic!VersionOf(Log')
  BY <1>0, <1>2, <1>5 DEF Atomic!VersionOf
<1> QED
  BY <1>1, <1>2, <1>4, <1>6, <1>7 DEF Atomic!Execute, Atomic!NoRecord, NoRecord

(* So is the answer to a command that was sent again. *)
LEMMA AcquireIsAtomic ==
    ASSUME IInv, NEW c \in Clients, Acquire(c)
    PROVE  \/ \E k \in Keys, b \in Bodies : Atomic!Repeat(k, b)
           \/ UNCHANGED <<version, events, records, answers>>
<1> DEFINE k == tx[c].key
           b == tx[c].body
<1>1. k \in Keys /\ b \in Bodies /\ UNCHANGED <<version, events, records>>
  BY DEF Acquire, IInv, CallsAreOfKeys
<1>2. CASE records[k].body = b /\ Answers(c, records[k].answer)
  <2>1. CASE answers' = answers \cup {[key |-> k, body |-> b, answer |-> records[k].answer]}
    <3>1. Log' = Log
      BY <1>1 DEF Log, EventOf
    <3> QED
      BY <1>1, <1>2, <2>1, <3>1 DEF Atomic!Repeat, Atomic!Answer
  <2> QED
    BY <1>1, <1>2, <2>1 DEF Answers
<1>3. CASE UNCHANGED answers
  BY <1>1, <1>3
<1> QED
  BY <1>2, <1>3 DEF Acquire, RecordIsSeen, SameRequest

(* A deadline adds its changes to the log. *)
LEMMA DeadlineIsAtomic ==
    ASSUME IInv, IInv', Deadline
    PROVE  Atomic!Elapse
<1>1. PICK n \in 1..DeadlineSteps :
         /\ version' = version + n
         /\ events' = events \cup {[key |-> NoKey, version |-> version + i] : i \in 1..n}
  BY DEF Deadline
<1>2. n \in Nat \ {0} /\ version \in Nat \ {0}
  BY <1>1 DEF DeadlineSteps, IInv, TypeOK
<1>3. /\ LogOfEvents /\ LogOfEvents'
      /\ Log \in Seq(Keys \cup {NoKey}) /\ Len(Log) = version - 1
      /\ Log' \in Seq(Keys \cup {NoKey}) /\ Len(Log') = version' - 1
  BY LogIsOfEvents, NextLogIsOfEvents DEF LogOfEvents
<1>4. \A i \in 1..(version - 1) : Log'[i] = Log[i]
  BY <1>1, <1>3, EarlierChangesStay
<1>5. ASSUME NEW i \in (Len(Log) + 1)..Len(Log')
      PROVE  Log'[i] = NoKey
  <2>1. i \in Nat /\ i + 1 - version \in 1..n /\ version + (i + 1 - version) = i + 1
    BY <1>1, <1>2, <1>3
  <2>2. [key |-> NoKey, version |-> i + 1] \in events'
    BY <1>1, <2>1
  <2>3. Log'[(i + 1) - 1] = NoKey
    BY <1>3, <2>2 DEF LogOfEvents
  <2> QED
    BY <2>1, <2>3
<1>6. SubSeq(Log', 1, Len(Log)) = Log
  <2> HIDE DEF Log
  <2>1. Len(Log) <= Len(Log') /\ Len(Log) \in Nat
    BY <1>1, <1>2, <1>3
  <2>2. /\ SubSeq(Log', 1, Len(Log)) \in Seq(Keys \cup {NoKey})
        /\ Len(SubSeq(Log', 1, Len(Log))) = Len(Log)
        /\ \A i \in 1..Len(Log) : SubSeq(Log', 1, Len(Log))[i] = Log'[i]
    BY <1>3, <2>1
  <2> QED
    BY <1>3, <1>4, <2>2
<1>7. Len(Log') > Len(Log)
  BY <1>1, <1>2, <1>3
<1> QED
  BY <1>5, <1>6, <1>7 DEF Atomic!Elapse, Deadline

(* Everything else is invisible: each step is one of AtomicCommands or none. *)
LEMMA NextIsAtomic ==
    ASSUME IInv, [Next]_vars
    PROVE  [Atomic!Next]_(Atomic!vars)
<1>0. IInv'
  BY NextKeepsInvariant
<1>1. CASE UNCHANGED <<version, events, records, answers>>
  BY <1>1 DEF Atomic!vars, Log, EventOf
<1>2. CASE Deadline
  BY <1>0, <1>2, DeadlineIsAtomic DEF Atomic!Next
<1>3. ASSUME NEW c \in Clients, Commit(c)
      PROVE  Atomic!Next
  BY <1>0, <1>3, CommitIsAtomic DEF Atomic!Next
<1>4. ASSUME NEW c \in Clients, Acquire(c)
      PROVE  Atomic!Next \/ UNCHANGED <<version, events, records, answers>>
  BY <1>4, AcquireIsAtomic DEF Atomic!Next
<1>5. ASSUME NEW c \in Clients, Send(c) \/ Begin(c) \/ Load(c) \/ Reject(c) \/ Abort(c) \/ Crash(c)
      PROVE  UNCHANGED <<version, events, records, answers>>
  BY <1>5 DEF Send, Begin, Load, Reject, Abort, Crash
<1>6. CASE UNCHANGED vars
  BY <1>1, <1>6 DEF vars
<1> QED
  BY <1>1, <1>2, <1>3, <1>4, <1>5, <1>6 DEF Next, Step

(* Nothing has been executed at first. *)
LEMMA InitIsAtomic == Init => Atomic!Init
<1> SUFFICES ASSUME Init PROVE Atomic!Init
  OBVIOUS
<1>1. Log = <<>>
  BY DEF Init, Log
<1> QED
  BY <1>1 DEF Init, Atomic!Init, Atomic!NoRecord, NoRecord

(* For any number of clients, keys, attempts and faults: what can be seen of *)
(* the log, the keys and the answers is that of commands executed one at a  *)
(* time, each at one moment or not at all.                                  *)
THEOREM ExecutorIsAtomic == Spec => ImplementsAtomicCommands
BY InitIsAtomic, NextIsAtomic, Invariance, PTL
   DEF Spec, ImplementsAtomicCommands, Atomic!Spec
=============================================================================
