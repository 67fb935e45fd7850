------------------------------- MODULE Outbox -------------------------------
(***************************************************************************)
(* The transactional outbox: events are stored with the change they tell   *)
(* of, workers claim them under leases, publish them and mark them as      *)
(* published, or release them to be tried again.                           *)
(*                                                                         *)
(* Publishing is not part of a transaction, so it and the transaction that *)
(* marks the event are two actions, between which the worker may crash or  *)
(* lose its claim.  A claim is named by the attempt that made it.          *)
(***************************************************************************)
EXTENDS Naturals

CONSTANTS
    Events,
    Workers,
    MaxFaults  \* bound: crashes, errors and leases lost under way

ASSUME FaultsAssumption == MaxFaults \in Nat

VARIABLES
    rows,        \* the outbox_events rows
    deliveries,  \* how often each event reached the channel
    up,          \* the workers whose loop runs
    batch,       \* the claims each worker has yet to publish
    sent,        \* the claim a worker has published and has yet to mark
    failing,     \* the claim whose failure a worker has yet to record
    faults       \* counts against MaxFaults

vars == <<rows, deliveries, up, batch, sent, failing, faults>>

workers == <<up, batch, sent, failing>>

(* due: available_at <= now.  token: the attempt that holds the claim, 0    *)
(* for none.  lease: claim_until.                                          *)
Row == [stored : BOOLEAN, published : BOOLEAN, due : BOOLEAN, attempts : Nat,
        token : Nat, lease : {"none", "held", "expired"}]

NoRow == [stored |-> FALSE, published |-> FALSE, due |-> FALSE, attempts |-> 0,
          token |-> 0, lease |-> "none"]

Claims == [event : Events, token : Nat]

Init ==
    /\ rows = [e \in Events |-> NoRow]
    /\ deliveries = [e \in Events |-> 0]
    /\ up = Workers
    /\ batch = [w \in Workers |-> {}]
    /\ sent = [w \in Workers |-> {}]
    /\ failing = [w \in Workers |-> {}]
    /\ faults = 0

Fault ==
    /\ faults < MaxFaults
    /\ faults' = faults + 1

(* enqueue: a command or a deadline commits, and its event with it. *)
Enqueue(e) ==
    /\ ~rows[e].stored
    /\ rows' = [rows EXCEPT ![e].stored = TRUE, ![e].due = TRUE]
    /\ UNCHANGED <<deliveries, workers, faults>>

(* The backoff of a failed attempt passes. *)
RetryFallsDue(e) ==
    /\ rows[e].stored
    /\ ~rows[e].published
    /\ ~rows[e].due
    /\ rows' = [rows EXCEPT ![e].due = TRUE]
    /\ UNCHANGED <<deliveries, workers, faults>>

Holds(w, e) ==
    [event |-> e, token |-> rows[e].token] \in batch[w] \cup sent[w] \cup failing[w]

(* A lease runs out: of a claim nobody works on any more, or, as a fault,  *)
(* under a worker that still does.                                         *)
LeaseExpires(e) ==
    /\ rows[e].lease = "held"
    /\ rows' = [rows EXCEPT ![e].lease = "expired"]
    /\ IF \E w \in Workers : Holds(w, e) THEN Fault ELSE UNCHANGED faults
    /\ UNCHANGED <<deliveries, workers>>

(***************************************************************************)
(* Workers                                                                 *)
(***************************************************************************)

Free(w) == batch[w] = {} /\ sent[w] = {} /\ failing[w] = {}

Claimable_Mutant(row) ==  \* does not look at the lease
    /\ row.stored
    /\ ~row.published
    /\ row.due

ClaimableOnce_Mutant(row) ==  \* forgets what a dead worker had claimed
    /\ row.stored
    /\ ~row.published
    /\ row.due
    /\ row.lease = "none"

Claimable(row) ==
    /\ row.stored
    /\ ~row.published
    /\ row.due
    /\ row.lease # "held"

Claimed(row) == [row EXCEPT !.attempts = @ + 1, !.token = row.attempts + 1,
                            !.lease = "held"]

(* A poll claims some of the claimable events: locked ones are skipped and *)
(* the batch has a limit.  They come back in any order.                    *)
Claim(w) ==
    /\ w \in up
    /\ Free(w)
    /\ \E S \in (SUBSET {e \in Events : Claimable(rows[e])}) \ {{}} :
          /\ rows' = [e \in Events |-> IF e \in S THEN Claimed(rows[e]) ELSE rows[e]]
          /\ batch' = [batch EXCEPT ![w] =
                          {[event |-> e, token |-> rows'[e].token] : e \in S}]
    /\ UNCHANGED <<deliveries, up, sent, failing, faults>>

Delivers_Mutant(e) ==  \* is not awaited: a failure goes unnoticed
    \/ deliveries' = [deliveries EXCEPT ![e] = @ + 1]
    \/ UNCHANGED deliveries

Delivers(e) == deliveries' = [deliveries EXCEPT ![e] = @ + 1]

(* The publisher takes the next event of the batch. *)
Publish(w) ==
    /\ sent[w] = {}
    /\ failing[w] = {}
    /\ \E c \in batch[w] :
          /\ batch' = [batch EXCEPT ![w] = @ \ {c}]
          /\ sent' = [sent EXCEPT ![w] = {c}]
          /\ Delivers(c.event)
    /\ UNCHANGED <<rows, up, failing, faults>>

(* It fails, before the event reaches the channel or after. *)
PublishFails(w) ==
    /\ sent[w] = {}
    /\ failing[w] = {}
    /\ Fault
    /\ \E c \in batch[w] :
          /\ batch' = [batch EXCEPT ![w] = @ \ {c}]
          /\ failing' = [failing EXCEPT ![w] = {c}]
          /\ Delivers(c.event) \/ UNCHANGED deliveries
    /\ UNCHANGED <<rows, up, sent>>

(* The condition of markPublished and recordFailure. *)
OwnsClaim_Mutant(c) == ~rows[c.event].published  \* whoever's claim

OwnsClaim(c) ==
    /\ rows[c.event].token = c.token
    /\ ~rows[c.event].published

Marked(row) == [row EXCEPT !.published = TRUE, !.token = 0, !.lease = "none"]

Failed(row) == [row EXCEPT !.due = FALSE, !.token = 0, !.lease = "none"]

(* The row of the claim, if the claim is still the row's. *)
Update(c, row) == rows' = IF OwnsClaim(c) THEN [rows EXCEPT ![c.event] = row] ELSE rows

MarkPublished(w) ==
    /\ \E c \in sent[w] : Update(c, Marked(rows[c.event]))
    /\ sent' = [sent EXCEPT ![w] = {}]
    /\ UNCHANGED <<deliveries, up, batch, failing, faults>>

(* Marking fails, or its answer is lost: taken for a failed publication. *)
MarkFails(w) ==
    /\ Fault
    /\ \E c \in sent[w] :
          /\ Update(c, Marked(rows[c.event])) \/ UNCHANGED rows
          /\ failing' = [failing EXCEPT ![w] = {c}]
    /\ sent' = [sent EXCEPT ![w] = {}]
    /\ UNCHANGED <<deliveries, up, batch>>

RecordFailure(w) ==
    /\ \E c \in failing[w] : Update(c, Failed(rows[c.event]))
    /\ failing' = [failing EXCEPT ![w] = {}]
    /\ UNCHANGED <<deliveries, up, batch, sent, faults>>

(* Recording the failure fails as well: the poll ends with the error and   *)
(* leaves the rest of its batch to the leases.                             *)
PollFails(w) ==
    /\ failing[w] # {}
    /\ Fault
    /\ failing' = [failing EXCEPT ![w] = {}]
    /\ batch' = [batch EXCEPT ![w] = {}]
    /\ UNCHANGED <<rows, deliveries, up, sent>>

Crash(w) ==
    /\ w \in up
    /\ Fault
    /\ up' = up \ {w}
    /\ batch' = [batch EXCEPT ![w] = {}]
    /\ sent' = [sent EXCEPT ![w] = {}]
    /\ failing' = [failing EXCEPT ![w] = {}]
    /\ UNCHANGED <<rows, deliveries>>

Start(w) ==
    /\ w \notin up
    /\ up' = up \cup {w}
    /\ UNCHANGED <<rows, deliveries, batch, sent, failing, faults>>

Process(w) == Publish(w) \/ MarkPublished(w) \/ RecordFailure(w)

Next ==
    \/ \E e \in Events : Enqueue(e) \/ RetryFallsDue(e) \/ LeaseExpires(e)
    \/ \E w \in Workers :
          \/ Claim(w)
          \/ Process(w)
          \/ PublishFails(w)
          \/ MarkFails(w)
          \/ PollFails(w)
          \/ Crash(w)
          \/ Start(w)

Spec == Init /\ [][Next]_vars

(* Time passes, a worker that is down is started again, and a worker that  *)
(* is up keeps polling and finishes what it claimed.                       *)
Fairness ==
    /\ \A e \in Events : WF_vars(RetryFallsDue(e)) /\ WF_vars(LeaseExpires(e))
    /\ \A w \in Workers : WF_vars(Start(w)) /\ WF_vars(Claim(w)) /\ WF_vars(Process(w))

FairSpec == Spec /\ Fairness

-----------------------------------------------------------------------------
(***************************************************************************)
(* Properties                                                              *)
(***************************************************************************)

(* With the constraint outbox_claim_is_complete of the table. *)
TypeOK ==
    /\ rows \in [Events -> Row]
    /\ deliveries \in [Events -> Nat]
    /\ up \in SUBSET Workers
    /\ batch \in [Workers -> SUBSET Claims]
    /\ sent \in [Workers -> SUBSET Claims]
    /\ failing \in [Workers -> SUBSET Claims]
    /\ faults \in 0..MaxFaults
    /\ \A e \in Events : rows[e].token \in {0, rows[e].attempts}
                         /\ (rows[e].token = 0 <=> rows[e].lease = "none")

(* No event is lost: one that is marked as published, and so never claimed *)
(* again, did reach the channel (services/backend/README.md:60).           *)
PublishedWasDelivered ==
    \A e \in Events : rows[e].published => deliveries[e] > 0

(* An event is delivered again only for a fault: without crashes, errors   *)
(* and leases that run out under a worker, two workers publish it once,    *)
(* and each fault costs one more delivery at most.                         *)
RepeatsAreFaults == \A e \in Events : deliveries[e] <= 1 + faults

(* While a lease is held nobody but the worker of that very claim gives    *)
(* the event up, as published or to be tried again: a late report of a     *)
(* worker whose lease had run out is ignored (outbox.ts:156, 181).         *)
OwnersRelease ==
    [][\A e \in Events :
          rows[e].lease = "held" /\ rows'[e].lease = "none" =>
              \E w \in Workers :
                  [event |-> e, token |-> rows[e].token] \in sent[w] \cup failing[w]]_vars

(* Every stored event is published in the end, whatever fails on the way   *)
(* as long as it does not fail for ever.                                   *)
EventsAreDelivered == \A e \in Events : rows[e].stored ~> rows[e].published
=============================================================================
