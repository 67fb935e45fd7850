--------------------------- MODULE Outbox_proofs ---------------------------
(***************************************************************************)
(* Theorems about Outbox, for any events, workers and number of faults.    *)
(***************************************************************************)
EXTENDS Outbox, FiniteSetTheorems, TLAPS

-----------------------------------------------------------------------------
(***************************************************************************)
(* The inductive invariant                                                 *)
(***************************************************************************)

Held(w) == batch[w] \cup sent[w] \cup failing[w]

(* The claims of an event that are yet to be published, by their tokens. *)
Tokens(e) == {t \in Nat : \E w \in Workers : [event |-> e, token |-> t] \in batch[w]}

(* The event will be claimed again, sooner or later, though nothing more    *)
(* goes wrong: nobody who is about to publish it, or has, holds its lease.  *)
Awaited(e) ==
    /\ ~rows[e].published
    /\ ~ /\ rows[e].lease = "held"
         /\ \E w \in Workers : [event |-> e, token |-> rows[e].token] \in batch[w] \cup sent[w]

Again(e) == IF Awaited(e) THEN 1 ELSE 0

(* Tokens are numbers of attempts, so a new one is nobody's. *)
TokensAreAttempts ==
    \A w \in Workers : \A c \in Held(w) : c.token \in 1..rows[c.event].attempts

(* A claim is held by one worker, to one end, and published one at a time. *)
ClaimsAreApart ==
    /\ \A w1, w2 \in Workers : w1 # w2 => Held(w1) \cap Held(w2) = {}
    /\ \A w \in Workers : /\ batch[w] \cap sent[w] = {}
                          /\ failing[w] \cap (batch[w] \cup sent[w]) = {}
                          /\ \A c, d \in sent[w] : c = d

SentWasDelivered ==
    \A w \in Workers : \A c \in sent[w] : deliveries[c.event] > 0

(* The deliveries there were, and those there may still be without another  *)
(* fault, are paid for by the faults.                                       *)
Paid(e) ==
    /\ IsFiniteSet(Tokens(e))
    /\ deliveries[e] + Cardinality(Tokens(e)) + Again(e) <= 1 + faults

IInv ==
    /\ TypeOK
    /\ TokensAreAttempts
    /\ ClaimsAreApart
    /\ SentWasDelivered
    /\ PublishedWasDelivered
    /\ \A e \in Events : Paid(e)

-----------------------------------------------------------------------------
(***************************************************************************)
(* Counting                                                                *)
(***************************************************************************)

(* Nothing has to be paid for by what delivers nothing, adds no claim, and  *)
(* makes a new attempt necessary only by a fault or for a claim that is     *)
(* given up.                                                                *)
LEMMA NothingToPay ==
    ASSUME TypeOK, TypeOK', NEW e \in Events, Paid(e),
           deliveries'[e] = deliveries[e],
           Tokens(e)' \subseteq Tokens(e),
           faults' \in {faults, faults + 1},
           Awaited(e)' => \/ Awaited(e)
                          \/ Tokens(e)' # Tokens(e)
                          \/ faults' = faults + 1
    PROVE  Paid(e)'
<1>1. /\ IsFiniteSet(Tokens(e)') /\ Cardinality(Tokens(e)') <= Cardinality(Tokens(e))
      /\ Cardinality(Tokens(e)) = Cardinality(Tokens(e)') => Tokens(e) = Tokens(e)'
  BY FS_Subset DEF Paid
<1>2. Cardinality(Tokens(e)) \in Nat /\ Cardinality(Tokens(e)') \in Nat
  BY <1>1, FS_CardinalityType DEF Paid
<1>3. deliveries[e] \in Nat /\ faults \in Nat
  BY FaultsAssumption DEF TypeOK
<1>4. deliveries'[e] + Cardinality(Tokens(e)') + Again(e)' <= 1 + faults'
  <2>1. CASE Again(e)' = 0 \/ Again(e) = 1
    BY <1>1, <1>2, <1>3, <2>1 DEF Paid, Again
  <2>2. CASE Again(e)' = 1 /\ Again(e) = 0
    <3>1. Tokens(e)' # Tokens(e) \/ faults' = faults + 1
      BY <2>2 DEF Again
    <3> QED
      BY <1>1, <1>2, <1>3, <2>2, <3>1 DEF Paid
  <2> QED
    BY <2>1, <2>2 DEF Again
<1> QED
  BY <1>1, <1>4 DEF Paid

(* A claim that is published, or that a fault interrupts, is one less. *)
LEMMA OneTokenLess ==
    ASSUME TypeOK, TypeOK', NEW e \in Events, Paid(e),
           NEW t \in Tokens(e), Tokens(e)' = Tokens(e) \ {t},
           deliveries'[e] \in {deliveries[e], deliveries[e] + 1},
           \/ faults' = faults /\ (Awaited(e)' => Awaited(e))
           \/ faults' = faults + 1
    PROVE  Paid(e)'
<1>1. /\ IsFiniteSet(Tokens(e)')
      /\ Cardinality(Tokens(e)') = Cardinality(Tokens(e)) - 1
  BY FS_RemoveElement DEF Paid
<1>2. Cardinality(Tokens(e)) \in Nat /\ Cardinality(Tokens(e)') \in Nat
  BY <1>1, FS_CardinalityType DEF Paid
<1>3. deliveries[e] \in Nat /\ faults \in Nat
  BY FaultsAssumption DEF TypeOK
<1>4. deliveries'[e] + Cardinality(Tokens(e)') + Again(e)' <= 1 + faults'
  BY <1>1, <1>2, <1>3 DEF Paid, Again
<1> QED
  BY <1>1, <1>4 DEF Paid

(* A claim is one more, but no other will be needed. *)
LEMMA OneTokenMore ==
    ASSUME TypeOK, TypeOK', NEW e \in Events, Paid(e),
           NEW t, t \notin Tokens(e), Tokens(e)' = Tokens(e) \cup {t},
           deliveries'[e] = deliveries[e], faults' = faults,
           Awaited(e), ~Awaited(e)'
    PROVE  Paid(e)'
<1>1. /\ IsFiniteSet(Tokens(e)')
      /\ Cardinality(Tokens(e)') = Cardinality(Tokens(e)) + 1
  BY FS_AddElement DEF Paid
<1>2. Cardinality(Tokens(e)) \in Nat /\ Cardinality(Tokens(e)') \in Nat
  BY <1>1, FS_CardinalityType DEF Paid
<1>3. deliveries[e] \in Nat /\ faults \in Nat
  BY FaultsAssumption DEF TypeOK
<1>4. deliveries'[e] + Cardinality(Tokens(e)') + Again(e)' <= 1 + faults'
  BY <1>1, <1>2, <1>3 DEF Paid, Again
<1> QED
  BY <1>1, <1>4 DEF Paid

LEMMA FaultCounts ==
    ASSUME TypeOK, Fault
    PROVE  faults' \in 0..MaxFaults /\ faults' = faults + 1
BY FaultsAssumption DEF TypeOK, Fault

LEMMA InitInvariant == Init => IInv
<1> SUFFICES ASSUME Init
             PROVE  IInv
  OBVIOUS
<1>1. TypeOK
  BY FaultsAssumption DEF Init, TypeOK, Row, NoRow
<1>2. \A e \in Events : Paid(e)
  <2> SUFFICES ASSUME NEW e \in Events
               PROVE  Paid(e)
    OBVIOUS
  <2>1. Tokens(e) = {}
    BY DEF Init, Tokens
  <2> QED
    BY <2>1, FS_EmptySet DEF Init, Paid, Again
<1> QED
  BY <1>1, <1>2 DEF Init, IInv, TokensAreAttempts, ClaimsAreApart, SentWasDelivered,
                    PublishedWasDelivered, Held, NoRow

-----------------------------------------------------------------------------
(***************************************************************************)
(* Rows                                                                    *)
(***************************************************************************)

RowOK(r) == r \in Row /\ r.token \in {0, r.attempts} /\ (r.token = 0 <=> r.lease = "none")

(* What becomes of a row, as far as it matters below. *)
LEMMA RowSteps ==
    ASSUME NEW r, RowOK(r)
    PROVE  /\ RowOK(Claimed(r)) /\ RowOK(Marked(r)) /\ RowOK(Failed(r))
           /\ Claimed(r).published = r.published /\ Claimed(r).lease = "held"
           /\ Claimed(r).token = r.attempts + 1 /\ Claimed(r).attempts = r.attempts + 1
           /\ Marked(r).published /\ Marked(r).attempts = r.attempts
           /\ Failed(r).published = r.published /\ Failed(r).lease = "none"
           /\ Failed(r).attempts = r.attempts
<1>1. /\ Claimed(r) \in Row
      /\ Claimed(r).published = r.published /\ Claimed(r).lease = "held"
      /\ Claimed(r).token = r.attempts + 1 /\ Claimed(r).attempts = r.attempts + 1
      /\ r.attempts \in Nat
  <2>1. r \in Row /\ r.attempts \in Nat /\ r.attempts + 1 \in Nat
    BY DEF RowOK, Row
  <2>2. ASSUME NEW n \in Nat
        PROVE  LET x == [r EXCEPT !.attempts = n, !.token = n, !.lease = "held"]
               IN  /\ x \in Row /\ x.published = r.published /\ x.lease = "held"
                   /\ x.token = n /\ x.attempts = n
    BY <2>1 DEF Row
  <2> QED
    BY <2>1, <2>2 DEF Claimed
<1>2. /\ Marked(r) \in Row /\ Marked(r).published /\ Marked(r).attempts = r.attempts
      /\ Marked(r).token = 0 /\ Marked(r).lease = "none"
  BY DEF RowOK, Row, Marked
<1>3. /\ Failed(r) \in Row /\ Failed(r).published = r.published
      /\ Failed(r).attempts = r.attempts
      /\ Failed(r).token = 0 /\ Failed(r).lease = "none"
  BY DEF RowOK, Row, Failed
<1> QED
  BY <1>1, <1>2, <1>3 DEF RowOK

(* One row becomes another, or stays. *)
LEMMA RowsKeepType ==
    ASSUME TypeOK, NEW e \in Events, NEW r, RowOK(r),
           rows' = [rows EXCEPT ![e] = r] \/ UNCHANGED rows
    PROVE  rows' \in [Events -> Row] /\ \A x \in Events : RowOK(rows'[x])
BY DEF TypeOK, RowOK

(* No worker does anything and attempts stay. *)
LEMMA RowsAlone ==
    ASSUME IInv, TypeOK', UNCHANGED <<deliveries, workers>>,
           \A e \in Events : /\ rows'[e].attempts = rows[e].attempts
                             /\ rows'[e].published = rows[e].published,
           \A e \in Events : Paid(e)'
    PROVE  IInv'
<1>1. \A e \in Events : rows[e].attempts \in Nat
  BY DEF IInv, TypeOK, Row
<1>2. TokensAreAttempts'
  <2> SUFFICES ASSUME NEW w \in Workers, NEW c \in Held(w)
               PROVE  c.token \in 1..rows'[c.event].attempts
    BY DEF TokensAreAttempts, Held, workers
  <2>1. c.event \in Events
    BY DEF IInv, TypeOK, Held, Claims
  <2> QED
    BY <2>1 DEF IInv, TokensAreAttempts
<1>3. ClaimsAreApart' /\ SentWasDelivered'
  BY DEF IInv, ClaimsAreApart, SentWasDelivered, workers, Held
<1>4. PublishedWasDelivered'
  BY DEF IInv, PublishedWasDelivered
<1> QED
  BY <1>2, <1>3, <1>4 DEF IInv

(* enqueue, and the passing of time, cost nothing; a lease that runs out   *)
(* under its worker is a fault.                                             *)
LEMMA TimeKeepsInvariant ==
    ASSUME IInv, NEW e \in Events, Enqueue(e) \/ RetryFallsDue(e) \/ LeaseExpires(e)
    PROVE  IInv'
<1>0. TypeOK /\ RowOK(rows[e])
  BY DEF IInv, TypeOK, RowOK
<1> DEFINE r == rows'[e]
<1>1. /\ UNCHANGED <<deliveries, workers>>
      /\ rows' = [rows EXCEPT ![e] = r]
      /\ RowOK(r)
      /\ r.attempts = rows[e].attempts /\ r.published = rows[e].published
      /\ r.token = rows[e].token
      /\ \/ r.lease = rows[e].lease /\ UNCHANGED faults
         \/ r.lease = "expired" /\ Fault
         \/ /\ r.lease = "expired" /\ UNCHANGED faults
            /\ \A w \in Workers : ~Holds(w, e)
  <2>1. CASE Enqueue(e)
    BY <1>0, <2>1 DEF Enqueue, TypeOK, RowOK, Row
  <2>2. CASE RetryFallsDue(e)
    BY <1>0, <2>2 DEF RetryFallsDue, TypeOK, RowOK, Row
  <2>3. CASE LeaseExpires(e)
    BY <1>0, <2>3 DEF LeaseExpires, TypeOK, RowOK, Row
  <2> QED
    BY <2>1, <2>2, <2>3
<1>2. faults' \in 0..MaxFaults /\ faults' \in {faults, faults + 1}
  BY <1>0, <1>1, FaultCounts DEF TypeOK
<1>3. TypeOK'
  <2>1. rows' \in [Events -> Row] /\ \A x \in Events : RowOK(rows'[x])
    BY <1>0, <1>1, RowsKeepType
  <2> QED
    BY <1>0, <1>1, <1>2, <2>1 DEF TypeOK, workers, RowOK
<1>4. ASSUME NEW x \in Events
      PROVE  /\ Paid(x)'
             /\ rows'[x].attempts = rows[x].attempts
             /\ rows'[x].published = rows[x].published
  <2>1. Tokens(x)' = Tokens(x)
    BY <1>1 DEF Tokens, workers
  <2>2. CASE x # e
    <3>1. rows'[x] = rows[x]
      BY <1>0, <1>1, <2>2 DEF TypeOK
    <3>2. Awaited(x)' = Awaited(x)
      BY <1>1, <3>1 DEF Awaited, workers
    <3> QED
      BY <1>0, <1>1, <1>2, <1>3, <2>1, <3>1, <3>2, NothingToPay DEF IInv
  <2>3. CASE x = e
    <3>1. Awaited(e)' => Awaited(e) \/ faults' = faults + 1
      BY <1>0, <1>1, FaultCounts DEF Awaited, workers, Holds
    <3> QED
      BY <1>0, <1>1, <1>2, <1>3, <2>1, <2>3, <3>1, NothingToPay DEF IInv
  <2> QED
    BY <2>2, <2>3
<1> QED
  BY <1>1, <1>3, <1>4, RowsAlone

-----------------------------------------------------------------------------
(***************************************************************************)
(* Workers                                                                 *)
(***************************************************************************)

LEMMA ClaimKeepsInvariant ==
    ASSUME IInv, NEW w \in Workers, Claim(w)
    PROVE  IInv'
<1>0. TypeOK /\ \A e \in Events : RowOK(rows[e])
  BY DEF IInv, TypeOK, RowOK
<1>1. PICK S \in (SUBSET {e \in Events : Claimable(rows[e])}) \ {{}} :
         /\ rows' = [e \in Events |-> IF e \in S THEN Claimed(rows[e]) ELSE rows[e]]
         /\ batch' = [batch EXCEPT ![w] = {[event |-> e, token |-> rows'[e].token] : e \in S}]
  BY DEF Claim
<1>2. /\ batch[w] = {} /\ sent[w] = {} /\ failing[w] = {}
      /\ UNCHANGED <<deliveries, up, sent, failing, faults>>
  BY DEF Claim, Free
<1>3. S \subseteq Events /\ \A e \in S : ~rows[e].published /\ rows[e].lease # "held"
  BY <1>1 DEF Claimable
<1>4. \A e \in S : /\ RowOK(rows'[e])
                   /\ rows'[e].published = rows[e].published /\ rows'[e].lease = "held"
                   /\ rows'[e].attempts = rows[e].attempts + 1
                   /\ rows'[e].token = rows[e].attempts + 1
                   /\ rows[e].attempts \in Nat
  <2> SUFFICES ASSUME NEW e \in S
               PROVE  /\ RowOK(rows'[e])
                      /\ rows'[e].published = rows[e].published /\ rows'[e].lease = "held"
                      /\ rows'[e].attempts = rows[e].attempts + 1
                      /\ rows'[e].token = rows[e].attempts + 1
                      /\ rows[e].attempts \in Nat
    OBVIOUS
  <2>1. rows'[e] = Claimed(rows[e])
    BY <1>1, <1>3
  <2>2. RowOK(rows[e]) /\ rows[e].attempts \in Nat
    BY <1>0, <1>3 DEF RowOK, Row
  <2> QED
    BY <2>1, <2>2, RowSteps
<1>5. \A e \in Events \ S : rows'[e] = rows[e]
  BY <1>1
<1>6. /\ batch'[w] = {[event |-> e, token |-> rows[e].attempts + 1] : e \in S}
      /\ batch'[w] \in SUBSET Claims
      /\ \A x \in Workers \ {w} : batch'[x] = batch[x]
  <2>1. /\ batch'[w] = {[event |-> e, token |-> rows'[e].token] : e \in S}
        /\ \A x \in Workers \ {w} : batch'[x] = batch[x]
    BY <1>0, <1>1 DEF TypeOK
  <2>2. {[event |-> e, token |-> rows'[e].token] : e \in S}
           = {[event |-> e, token |-> rows[e].attempts + 1] : e \in S}
    BY <1>4
  <2>3. \A e \in S : [event |-> e, token |-> rows[e].attempts + 1] \in Claims
    BY <1>3, <1>4 DEF Claims
  <2> QED
    BY <2>1, <2>2, <2>3
<1>7. TypeOK'
  <2>1. rows' \in [Events -> Row] /\ \A e \in Events : RowOK(rows'[e])
    <3>1. \A e \in Events : RowOK(rows'[e])
      BY <1>0, <1>4, <1>5
    <3> QED
      BY <1>1, <3>1 DEF RowOK
  <2>2. batch' \in [Workers -> SUBSET Claims]
    BY <1>0, <1>1, <1>6 DEF TypeOK
  <2> QED
    BY <1>0, <1>2, <2>1, <2>2 DEF TypeOK, RowOK
<1>8. \A x \in Workers : \A c \in Held(x) : /\ c \in Claims
                                            /\ c.token \in 1..rows[c.event].attempts
  BY <1>0 DEF IInv, TokensAreAttempts, Held, TypeOK
<1>9. TokensAreAttempts'
  <2> SUFFICES ASSUME NEW x \in Workers, NEW c \in Held(x)'
               PROVE  c.token \in 1..rows'[c.event].attempts
    BY DEF TokensAreAttempts
  <2>1. CASE c \in Held(x)
    <3>1. c.event \in Events /\ c.token \in 1..rows[c.event].attempts
      BY <1>8, <2>1 DEF Claims
    <3>2. CASE c.event \in S
      BY <1>4, <3>1, <3>2
    <3>3. CASE c.event \notin S
      BY <1>5, <3>1, <3>3
    <3> QED
      BY <3>2, <3>3
  <2>2. CASE c \notin Held(x)
    <3>1. x = w /\ c \in batch'[w]
      BY <1>2, <1>6, <2>2 DEF Held
    <3>2. PICK e \in S : c = [event |-> e, token |-> rows[e].attempts + 1]
      BY <1>6, <3>1
    <3>3. c.event = e /\ c.token = rows'[e].attempts /\ c.token >= 1 /\ c.token \in Nat
      BY <1>4, <3>2
    <3> QED
      BY <3>3
  <2> QED
    BY <2>1, <2>2
<1>10. \A x \in Workers, e \in S : [event |-> e, token |-> rows[e].attempts + 1] \notin Held(x)
  <2> SUFFICES ASSUME NEW x \in Workers, NEW e \in S,
                      [event |-> e, token |-> rows[e].attempts + 1] \in Held(x)
               PROVE  FALSE
    OBVIOUS
  <2>1. rows[e].attempts + 1 \in 1..rows[e].attempts
    BY <1>8
  <2> QED
    BY <1>4, <2>1
<1>11. ClaimsAreApart'
  <2>1. Held(w)' = batch'[w] /\ \A x \in Workers \ {w} : Held(x)' = Held(x)
    BY <1>2, <1>6 DEF Held
  <2>2. \A x \in Workers \ {w} : batch'[w] \cap Held(x) = {}
    BY <1>6, <1>10
  <2> QED
    BY <1>2, <1>6, <2>1, <2>2 DEF IInv, ClaimsAreApart
<1>12. SentWasDelivered'
  BY <1>2 DEF IInv, SentWasDelivered
<1>13. PublishedWasDelivered'
  BY <1>2, <1>4, <1>5 DEF IInv, PublishedWasDelivered
<1>14. ASSUME NEW e \in Events
       PROVE  Paid(e)'
  <2>1. CASE e \in S
    <3> DEFINE t == rows[e].attempts + 1
    <3>1. t \notin Tokens(e) /\ t \in Nat
      BY <1>4, <1>10, <2>1 DEF Tokens, Held
    <3>2. Tokens(e)' = Tokens(e) \cup {t}
      <4>1. \A n \in Nat : [event |-> e, token |-> n] \in batch'[w] <=> n = t
        BY <1>6, <2>1
      <4>2. \A n \in Nat : [event |-> e, token |-> n] \notin batch[w]
        BY <1>2
      <4> QED
        BY <1>6, <3>1, <4>1, <4>2 DEF Tokens
    <3>3. Awaited(e)
      BY <1>3, <2>1 DEF Awaited
    <3>4. ~Awaited(e)'
      BY <1>4, <1>6, <2>1 DEF Awaited
    <3> QED
      BY <1>0, <1>2, <1>7, <3>1, <3>2, <3>3, <3>4, OneTokenMore DEF IInv
  <2>2. CASE e \notin S
    <3>1. \A n \in Nat, x \in Workers :
             [event |-> e, token |-> n] \in batch'[x] <=> [event |-> e, token |-> n] \in batch[x]
      BY <1>2, <1>6, <2>2
    <3>2. Tokens(e)' = Tokens(e)
      BY <3>1 DEF Tokens
    <3>3. Awaited(e)' = Awaited(e)
      <4>1. rows'[e] = rows[e] /\ rows[e].token \in Nat
        BY <1>0, <1>5, <2>2 DEF TypeOK, Row
      <4> QED
        BY <1>2, <3>1, <4>1 DEF Awaited
    <3> QED
      BY <1>0, <1>2, <1>7, <3>2, <3>3, NothingToPay DEF IInv
  <2> QED
    BY <2>1, <2>2
<1> QED
  BY <1>7, <1>9, <1>11, <1>12, <1>13, <1>14 DEF IInv

(* A claim that is taken from a batch is one token less of its event. *)
LEMMA TakenFromBatch ==
    ASSUME IInv, NEW w \in Workers, NEW c \in batch[w],
           batch' = [batch EXCEPT ![w] = @ \ {c}]
    PROVE  /\ c.event \in Events /\ c.token \in Nat
           /\ c = [event |-> c.event, token |-> c.token]
           /\ batch' \in [Workers -> SUBSET Claims]
           /\ batch'[w] = batch[w] \ {c}
           /\ \A x \in Workers \ {w} : batch'[x] = batch[x]
           /\ c.token \in Tokens(c.event)
           /\ Tokens(c.event)' = Tokens(c.event) \ {c.token}
           /\ \A e \in Events \ {c.event} : Tokens(e)' = Tokens(e)
<1>1. /\ c \in Claims /\ batch \in [Workers -> SUBSET Claims]
      /\ \A x \in Workers \ {w} : c \notin batch[x]
  BY DEF IInv, TypeOK, ClaimsAreApart, Held
<1>2. c.event \in Events /\ c.token \in Nat /\ c = [event |-> c.event, token |-> c.token]
  BY <1>1 DEF Claims
<1>3. /\ batch' \in [Workers -> SUBSET Claims]
      /\ batch'[w] = batch[w] \ {c}
      /\ \A x \in Workers \ {w} : batch'[x] = batch[x]
  BY <1>1
<1>4. ASSUME NEW x \in Workers, NEW e \in Events, NEW n \in Nat
      PROVE  [event |-> e, token |-> n] \in batch'[x] <=>
                /\ [event |-> e, token |-> n] \in batch[x]
                /\ ~(e = c.event /\ n = c.token)
  <2>1. [event |-> e, token |-> n] = c <=> e = c.event /\ n = c.token
    BY <1>2
  <2> QED
    BY <1>1, <1>3, <2>1
<1>5. c.token \in Tokens(c.event)
  BY <1>2 DEF Tokens
<1>6. Tokens(c.event)' = Tokens(c.event) \ {c.token}
  BY <1>2, <1>4 DEF Tokens
<1>7. \A e \in Events \ {c.event} : Tokens(e)' = Tokens(e)
  BY <1>4 DEF Tokens
<1> QED
  BY <1>2, <1>3, <1>5, <1>6, <1>7

(* Attempts stay, and nobody holds what it did not hold. *)
LEMMA TokensKept ==
    ASSUME IInv, \A e \in Events : rows'[e].attempts = rows[e].attempts,
           \A x \in Workers : Held(x)' \subseteq Held(x)
    PROVE  TokensAreAttempts'
<1> SUFFICES ASSUME NEW x \in Workers, NEW c \in Held(x)
             PROVE  c.token \in 1..rows'[c.event].attempts
  BY DEF TokensAreAttempts
<1>1. c.event \in Events
  BY DEF IInv, TypeOK, Held, Claims
<1> QED
  BY <1>1 DEF IInv, TokensAreAttempts

LEMMA PublishKeepsInvariant ==
    ASSUME IInv, NEW w \in Workers, Publish(w)
    PROVE  IInv'
<1>0. TypeOK
  BY DEF IInv
<1>1. PICK c \in batch[w] :
         /\ batch' = [batch EXCEPT ![w] = @ \ {c}]
         /\ sent' = [sent EXCEPT ![w] = {c}]
         /\ Delivers(c.event)
  BY DEF Publish
<1>2. /\ sent[w] = {} /\ failing[w] = {}
      /\ UNCHANGED <<rows, up, failing, faults>>
  BY DEF Publish
<1>3. /\ c.event \in Events /\ c.token \in Nat
      /\ c = [event |-> c.event, token |-> c.token] /\ c \in Claims
      /\ batch' \in [Workers -> SUBSET Claims]
      /\ batch'[w] = batch[w] \ {c}
      /\ \A x \in Workers \ {w} : batch'[x] = batch[x]
      /\ c.token \in Tokens(c.event)
      /\ Tokens(c.event)' = Tokens(c.event) \ {c.token}
      /\ \A e \in Events \ {c.event} : Tokens(e)' = Tokens(e)
  BY <1>0, <1>1, TakenFromBatch DEF TypeOK
<1>4. sent'[w] = {c} /\ \A x \in Workers \ {w} : sent'[x] = sent[x]
  BY <1>0, <1>1 DEF TypeOK
<1>5. /\ deliveries' \in [Events -> Nat]
      /\ deliveries'[c.event] = deliveries[c.event] + 1
      /\ \A e \in Events \ {c.event} : deliveries'[e] = deliveries[e]
  BY <1>0, <1>1, <1>3 DEF TypeOK, Delivers
<1>6. TypeOK'
  BY <1>0, <1>1, <1>2, <1>3, <1>5 DEF TypeOK
<1>7. TokensAreAttempts'
  <2>1. \A x \in Workers : Held(x)' \subseteq Held(x)
    BY <1>2, <1>3, <1>4 DEF Held
  <2> QED
    BY <1>2, <2>1, TokensKept
<1>8. ClaimsAreApart'
  <2>1. \A x \in Workers : Held(x)' \subseteq Held(x)
    BY <1>2, <1>3, <1>4 DEF Held
  <2>2. \A w1, w2 \in Workers : w1 # w2 => Held(w1)' \cap Held(w2)' = {}
    BY <2>1 DEF IInv, ClaimsAreApart
  <2>3. ASSUME NEW x \in Workers
        PROVE  /\ batch'[x] \cap sent'[x] = {}
               /\ failing'[x] \cap (batch'[x] \cup sent'[x]) = {}
               /\ \A d1, d2 \in sent'[x] : d1 = d2
    <3>1. CASE x = w
      BY <1>2, <1>3, <1>4, <3>1
    <3>2. CASE x # w
      BY <1>2, <1>3, <1>4, <3>2 DEF IInv, ClaimsAreApart
    <3> QED
      BY <3>1, <3>2
  <2> QED
    BY <2>2, <2>3 DEF ClaimsAreApart
<1>9. \A e \in Events : /\ deliveries[e] \in Nat /\ deliveries'[e] \in Nat
                        /\ deliveries'[e] >= deliveries[e]
  BY <1>0, <1>5 DEF TypeOK
<1>10. SentWasDelivered'
  <2> SUFFICES ASSUME NEW x \in Workers, NEW d \in sent'[x]
               PROVE  deliveries'[d.event] > 0
    BY DEF SentWasDelivered
  <2>1. CASE d = c
    BY <1>3, <1>5, <1>9, <2>1
  <2>2. CASE d # c
    <3>1. d \in sent[x] /\ d \in Claims
      BY <1>0, <1>4, <2>2 DEF TypeOK
    <3>2. deliveries[d.event] > 0 /\ d.event \in Events
      BY <3>1 DEF IInv, SentWasDelivered, Claims
    <3> QED
      BY <1>9, <3>2
  <2> QED
    BY <2>1, <2>2
<1>11. PublishedWasDelivered'
  BY <1>2, <1>9 DEF IInv, PublishedWasDelivered
<1>12. ASSUME NEW e \in Events
       PROVE  Paid(e)'
  <2>1. Awaited(e)' => Awaited(e)
    <3>1. \A x \in Workers : batch[x] \cup sent[x] \subseteq batch'[x] \cup sent'[x]
      BY <1>2, <1>3, <1>4
    <3> QED
      BY <1>2, <3>1 DEF Awaited
  <2>2. CASE e = c.event
    BY <1>0, <1>2, <1>3, <1>5, <1>6, <2>1, <2>2, OneTokenLess DEF IInv
  <2>3. CASE e # c.event
    BY <1>0, <1>2, <1>3, <1>5, <1>6, <2>1, <2>3, NothingToPay DEF IInv
  <2> QED
    BY <2>2, <2>3
<1> QED
  BY <1>6, <1>7, <1>8, <1>10, <1>11, <1>12 DEF IInv

LEMMA PublishFailsKeepsInvariant ==
    ASSUME IInv, NEW w \in Workers, PublishFails(w)
    PROVE  IInv'
<1>0. TypeOK
  BY DEF IInv
<1>1. PICK c \in batch[w] :
         /\ batch' = [batch EXCEPT ![w] = @ \ {c}]
         /\ failing' = [failing EXCEPT ![w] = {c}]
         /\ Delivers(c.event) \/ UNCHANGED deliveries
  BY DEF PublishFails
<1>2. /\ sent[w] = {} /\ failing[w] = {}
      /\ UNCHANGED <<rows, up, sent>>
      /\ faults' \in 0..MaxFaults /\ faults' = faults + 1
  BY <1>0, FaultCounts DEF PublishFails
<1>3. /\ c.event \in Events /\ c.token \in Nat
      /\ c = [event |-> c.event, token |-> c.token] /\ c \in Claims
      /\ batch' \in [Workers -> SUBSET Claims]
      /\ batch'[w] = batch[w] \ {c}
      /\ \A x \in Workers \ {w} : batch'[x] = batch[x]
      /\ c.token \in Tokens(c.event)
      /\ Tokens(c.event)' = Tokens(c.event) \ {c.token}
      /\ \A e \in Events \ {c.event} : Tokens(e)' = Tokens(e)
  BY <1>0, <1>1, TakenFromBatch DEF TypeOK
<1>4. failing'[w] = {c} /\ \A x \in Workers \ {w} : failing'[x] = failing[x]
  BY <1>0, <1>1 DEF TypeOK
<1>5. /\ deliveries' \in [Events -> Nat]
      /\ deliveries'[c.event] \in {deliveries[c.event], deliveries[c.event] + 1}
      /\ \A e \in Events \ {c.event} : deliveries'[e] = deliveries[e]
  BY <1>0, <1>1, <1>3 DEF TypeOK, Delivers
<1>6. TypeOK'
  BY <1>0, <1>1, <1>2, <1>3, <1>5 DEF TypeOK
<1>7. \A x \in Workers : Held(x)' \subseteq Held(x)
  BY <1>2, <1>3, <1>4 DEF Held
<1>8. TokensAreAttempts'
  BY <1>2, <1>7, TokensKept
<1>9. ClaimsAreApart'
  <2>1. \A w1, w2 \in Workers : w1 # w2 => Held(w1)' \cap Held(w2)' = {}
    BY <1>7 DEF IInv, ClaimsAreApart
  <2>2. ASSUME NEW x \in Workers
        PROVE  /\ batch'[x] \cap sent'[x] = {}
               /\ failing'[x] \cap (batch'[x] \cup sent'[x]) = {}
               /\ \A d1, d2 \in sent'[x] : d1 = d2
    <3>1. CASE x = w
      BY <1>2, <1>3, <1>4, <3>1
    <3>2. CASE x # w
      BY <1>2, <1>3, <1>4, <3>2 DEF IInv, ClaimsAreApart
    <3> QED
      BY <3>1, <3>2
  <2> QED
    BY <2>1, <2>2 DEF ClaimsAreApart
<1>10. \A e \in Events : /\ deliveries[e] \in Nat /\ deliveries'[e] \in Nat
                         /\ deliveries'[e] >= deliveries[e]
  BY <1>0, <1>5 DEF TypeOK
<1>11. SentWasDelivered'
  <2>1. \A x \in Workers : \A d \in sent[x] : d.event \in Events
    BY <1>0 DEF TypeOK, Claims
  <2> QED
    BY <1>2, <1>10, <2>1 DEF IInv, SentWasDelivered
<1>12. PublishedWasDelivered'
  BY <1>2, <1>10 DEF IInv, PublishedWasDelivered
<1>13. ASSUME NEW e \in Events
       PROVE  Paid(e)'
  <2>1. CASE e = c.event
    BY <1>0, <1>2, <1>3, <1>5, <1>6, <2>1, OneTokenLess DEF IInv
  <2>2. CASE e # c.event
    BY <1>0, <1>2, <1>3, <1>5, <1>6, <2>2, NothingToPay DEF IInv
  <2> QED
    BY <2>1, <2>2
<1> QED
  BY <1>6, <1>8, <1>9, <1>11, <1>12, <1>13 DEF IInv

(* What becomes of the rows when a worker updates that of its claim. *)
LEMMA UpdateRows ==
    ASSUME IInv, NEW c \in Claims, NEW r, RowOK(r),
           r.attempts = rows[c.event].attempts,
           r.published \/ r.published = rows[c.event].published,
           Update(c, r) \/ UNCHANGED rows
    PROVE  /\ rows' \in [Events -> Row] /\ \A e \in Events : RowOK(rows'[e])
           /\ \A e \in Events : rows'[e].attempts = rows[e].attempts
           /\ \A e \in Events : rows[e].published => rows'[e].published
           /\ \A e \in Events : \/ rows'[e] = rows[e]
                                \/ e = c.event /\ OwnsClaim(c) /\ rows'[e] = r
<1>1. TypeOK /\ c.event \in Events
  BY DEF IInv, Claims
<1>2. (rows' = [rows EXCEPT ![c.event] = r] /\ OwnsClaim(c)) \/ UNCHANGED rows
  BY DEF Update
<1>3. rows' \in [Events -> Row] /\ \A e \in Events : RowOK(rows'[e])
  BY <1>1, <1>2, RowsKeepType
<1>4. \A e \in Events : \/ rows'[e] = rows[e]
                        \/ e = c.event /\ OwnsClaim(c) /\ rows'[e] = r
  BY <1>1, <1>2 DEF TypeOK
<1>5. /\ \A e \in Events : rows'[e].attempts = rows[e].attempts
      /\ \A e \in Events : rows[e].published => rows'[e].published
  BY <1>4
<1> QED
  BY <1>3, <1>4, <1>5

LEMMA MarkPublishedKeepsInvariant ==
    ASSUME IInv, NEW w \in Workers, MarkPublished(w)
    PROVE  IInv'
<1>0. TypeOK
  BY DEF IInv
<1>1. PICK c \in sent[w] : Update(c, Marked(rows[c.event]))
  BY DEF MarkPublished
<1>2. /\ UNCHANGED <<deliveries, up, batch, failing, faults>>
      /\ sent' = [sent EXCEPT ![w] = {}]
      /\ sent' \in [Workers -> SUBSET Claims]
      /\ sent'[w] = {} /\ \A x \in Workers \ {w} : sent'[x] = sent[x]
      /\ sent[w] = {c}
  BY <1>0, <1>1 DEF MarkPublished, TypeOK, IInv, ClaimsAreApart
<1>3. /\ c \in Claims /\ c.event \in Events /\ c = [event |-> c.event, token |-> c.token]
      /\ RowOK(rows[c.event])
  BY <1>0, <1>1 DEF TypeOK, Claims, RowOK
<1>4. /\ rows' \in [Events -> Row] /\ \A e \in Events : RowOK(rows'[e])
      /\ \A e \in Events : rows'[e].attempts = rows[e].attempts
      /\ \A e \in Events : \/ rows'[e] = rows[e]
                           \/ e = c.event /\ rows'[e].published
      /\ \A e \in Events : rows[e].published => rows'[e].published
  BY <1>1, <1>3, UpdateRows, RowSteps
<1>5. TypeOK'
  BY <1>0, <1>2, <1>4 DEF TypeOK, RowOK
<1>6. \A x \in Workers : Held(x)' \subseteq Held(x)
  BY <1>2 DEF Held
<1>7. TokensAreAttempts'
  BY <1>4, <1>6, TokensKept
<1>8. ClaimsAreApart'
  <2>1. \A w1, w2 \in Workers : w1 # w2 => Held(w1)' \cap Held(w2)' = {}
    BY <1>6 DEF IInv, ClaimsAreApart
  <2>2. \A x \in Workers : sent'[x] \subseteq sent[x]
    BY <1>2
  <2> QED
    BY <1>2, <2>1, <2>2 DEF IInv, ClaimsAreApart
<1>9. SentWasDelivered'
  BY <1>2 DEF IInv, SentWasDelivered
<1>10. PublishedWasDelivered'
  <2>1. deliveries[c.event] > 0
    BY <1>1 DEF IInv, SentWasDelivered
  <2> QED
    BY <1>2, <1>4, <2>1 DEF IInv, PublishedWasDelivered
<1>11. ASSUME NEW e \in Events
       PROVE  Paid(e)'
  <2>1. Tokens(e)' = Tokens(e)
    BY <1>2 DEF Tokens
  <2>2. Awaited(e)' => Awaited(e)
    <3> SUFFICES ASSUME Awaited(e)', ~Awaited(e)
                 PROVE  FALSE
      OBVIOUS
    <3> DEFINE d == [event |-> e, token |-> rows[e].token]
    <3>1. ~rows'[e].published /\ ~rows[e].published /\ (rows'[e] = rows[e] \/ e = c.event)
      BY <1>4 DEF Awaited
    <3>2. rows'[e] = rows[e]
      BY <1>4, <3>1
    <3>3. \E x \in Workers : d \in batch[x] \cup sent[x]
      BY <3>1 DEF Awaited
    <3>4. d = c
      BY <1>2, <3>2, <3>3 DEF Awaited
    <3>5. OwnsClaim(c)
      BY <3>1, <3>4 DEF OwnsClaim
    <3>6. rows'[e] = Marked(rows[e])
      BY <1>0, <1>1, <3>4, <3>5 DEF Update, TypeOK
    <3> QED
      BY <1>3, <3>1, <3>4, <3>6, RowSteps
  <2> QED
    BY <1>0, <1>2, <1>5, <2>1, <2>2, NothingToPay DEF IInv
<1> QED
  BY <1>5, <1>7, <1>8, <1>9, <1>10, <1>11 DEF IInv

LEMMA MarkFailsKeepsInvariant ==
    ASSUME IInv, NEW w \in Workers, MarkFails(w)
    PROVE  IInv'
<1>0. TypeOK
  BY DEF IInv
<1>1. PICK c \in sent[w] : /\ Update(c, Marked(rows[c.event])) \/ UNCHANGED rows
                           /\ failing' = [failing EXCEPT ![w] = {c}]
  BY DEF MarkFails
<1>2. /\ UNCHANGED <<deliveries, up, batch>>
      /\ faults' \in 0..MaxFaults /\ faults' = faults + 1
      /\ sent' \in [Workers -> SUBSET Claims]
      /\ sent'[w] = {} /\ \A x \in Workers \ {w} : sent'[x] = sent[x]
      /\ failing' \in [Workers -> SUBSET Claims]
      /\ failing'[w] = {c} /\ \A x \in Workers \ {w} : failing'[x] = failing[x]
  BY <1>0, <1>1, FaultCounts DEF MarkFails, TypeOK
<1>3. c \in Claims /\ c.event \in Events /\ RowOK(rows[c.event])
  BY <1>0, <1>1 DEF TypeOK, Claims, RowOK
<1>4. /\ rows' \in [Events -> Row] /\ \A e \in Events : RowOK(rows'[e])
      /\ \A e \in Events : rows'[e].attempts = rows[e].attempts
      /\ \A e \in Events : \/ rows'[e] = rows[e]
                           \/ e = c.event /\ rows'[e].published
  BY <1>1, <1>3, UpdateRows, RowSteps
<1>5. TypeOK'
  BY <1>0, <1>2, <1>4 DEF TypeOK, RowOK
<1>6. \A x \in Workers : Held(x)' \subseteq Held(x)
  BY <1>1, <1>2 DEF Held
<1>7. TokensAreAttempts'
  BY <1>4, <1>6, TokensKept
<1>8. ClaimsAreApart'
  <2>1. \A w1, w2 \in Workers : w1 # w2 => Held(w1)' \cap Held(w2)' = {}
    BY <1>6 DEF IInv, ClaimsAreApart
  <2>2. ASSUME NEW x \in Workers
        PROVE  /\ batch'[x] \cap sent'[x] = {}
               /\ failing'[x] \cap (batch'[x] \cup sent'[x]) = {}
               /\ \A d1, d2 \in sent'[x] : d1 = d2
    <3>1. CASE x = w
      BY <1>1, <1>2, <3>1 DEF IInv, ClaimsAreApart
    <3>2. CASE x # w
      BY <1>2, <3>2 DEF IInv, ClaimsAreApart
    <3> QED
      BY <3>1, <3>2
  <2> QED
    BY <2>1, <2>2 DEF ClaimsAreApart
<1>9. SentWasDelivered'
  BY <1>2 DEF IInv, SentWasDelivered
<1>10. PublishedWasDelivered'
  <2>1. deliveries[c.event] > 0
    BY <1>1 DEF IInv, SentWasDelivered
  <2> QED
    BY <1>2, <1>4, <2>1 DEF IInv, PublishedWasDelivered
<1>11. ASSUME NEW e \in Events
       PROVE  Paid(e)'
  <2>1. Tokens(e)' = Tokens(e)
    BY <1>2 DEF Tokens
  <2> QED
    BY <1>0, <1>2, <1>5, <2>1, NothingToPay DEF IInv
<1> QED
  BY <1>5, <1>7, <1>8, <1>9, <1>10, <1>11 DEF IInv

LEMMA RecordFailureKeepsInvariant ==
    ASSUME IInv, NEW w \in Workers, RecordFailure(w)
    PROVE  IInv'
<1>0. TypeOK
  BY DEF IInv
<1>1. PICK c \in failing[w] : Update(c, Failed(rows[c.event]))
  BY DEF RecordFailure
<1>2. /\ UNCHANGED <<deliveries, up, batch, sent, faults>>
      /\ failing' \in [Workers -> SUBSET Claims]
      /\ failing'[w] = {} /\ \A x \in Workers \ {w} : failing'[x] = failing[x]
  BY <1>0 DEF RecordFailure, TypeOK
<1>3. /\ c \in Claims /\ c.event \in Events /\ c = [event |-> c.event, token |-> c.token]
      /\ RowOK(rows[c.event])
  BY <1>0, <1>1 DEF TypeOK, Claims, RowOK
<1>4. /\ rows' \in [Events -> Row] /\ \A e \in Events : RowOK(rows'[e])
      /\ \A e \in Events : rows'[e].attempts = rows[e].attempts
      /\ \A e \in Events : rows'[e] = rows[e] \/ (e = c.event /\ OwnsClaim(c))
      /\ \A e \in Events : rows'[e].published = rows[e].published
  BY <1>1, <1>3, UpdateRows, RowSteps
<1>5. TypeOK'
  BY <1>0, <1>2, <1>4 DEF TypeOK, RowOK
<1>6. \A x \in Workers : Held(x)' \subseteq Held(x)
  BY <1>2 DEF Held
<1>7. TokensAreAttempts'
  BY <1>4, <1>6, TokensKept
<1>8. ClaimsAreApart'
  <2>1. \A w1, w2 \in Workers : w1 # w2 => Held(w1)' \cap Held(w2)' = {}
    BY <1>6 DEF IInv, ClaimsAreApart
  <2>2. \A x \in Workers : failing'[x] \subseteq failing[x]
    BY <1>2
  <2> QED
    BY <1>2, <2>1, <2>2 DEF IInv, ClaimsAreApart
<1>9. SentWasDelivered'
  BY <1>2 DEF IInv, SentWasDelivered
<1>10. PublishedWasDelivered'
  BY <1>2, <1>4 DEF IInv, PublishedWasDelivered
<1>11. ASSUME NEW e \in Events
       PROVE  Paid(e)'
  <2>1. Tokens(e)' = Tokens(e)
    BY <1>2 DEF Tokens
  <2>2. Awaited(e)' => Awaited(e)
    <3>1. CASE rows'[e] = rows[e]
      BY <1>2, <3>1 DEF Awaited
    <3>2. CASE e = c.event /\ OwnsClaim(c)
      <4>1. [event |-> e, token |-> rows[e].token] = c
        BY <1>3, <3>2 DEF OwnsClaim
      <4>2. \A x \in Workers : c \notin batch[x] \cup sent[x]
        BY <1>1 DEF IInv, ClaimsAreApart, Held
      <4> QED
        BY <1>4, <4>1, <4>2 DEF Awaited
    <3> QED
      BY <1>4, <3>1, <3>2
  <2> QED
    BY <1>0, <1>2, <1>5, <2>1, <2>2, NothingToPay DEF IInv
<1> QED
  BY <1>5, <1>7, <1>8, <1>9, <1>10, <1>11 DEF IInv

LEMMA LosingClaimsKeepsInvariant ==
    ASSUME IInv, NEW w \in Workers, PollFails(w) \/ Crash(w) \/ Start(w)
    PROVE  IInv'
<1>0. TypeOK
  BY DEF IInv
<1>1. /\ UNCHANGED <<rows, deliveries>>
      /\ up' \in SUBSET Workers
      /\ \/ UNCHANGED <<batch, sent, failing, faults>>
         \/ /\ Fault
            /\ batch' = [batch EXCEPT ![w] = {}]
            /\ sent' \in {sent, [sent EXCEPT ![w] = {}]}
            /\ failing' = [failing EXCEPT ![w] = {}]
  BY <1>0 DEF PollFails, Crash, Start, TypeOK
<1>2. /\ \A x \in Workers : /\ batch'[x] \subseteq batch[x]
                            /\ sent'[x] \subseteq sent[x]
                            /\ failing'[x] \subseteq failing[x]
      /\ batch' \in [Workers -> SUBSET Claims]
      /\ sent' \in [Workers -> SUBSET Claims]
      /\ failing' \in [Workers -> SUBSET Claims]
  BY <1>0, <1>1 DEF TypeOK
<1>3. /\ faults' \in 0..MaxFaults
      /\ \/ faults' = faults + 1
         \/ faults' = faults /\ UNCHANGED <<batch, sent>>
  BY <1>0, <1>1, FaultCounts DEF TypeOK
<1>4. TypeOK'
  BY <1>0, <1>1, <1>2, <1>3 DEF TypeOK
<1>5. \A x \in Workers : Held(x)' \subseteq Held(x)
  BY <1>2 DEF Held
<1>6. TokensAreAttempts'
  BY <1>1, <1>5, TokensKept
<1>7. ClaimsAreApart'
  <2>1. \A w1, w2 \in Workers : w1 # w2 => Held(w1)' \cap Held(w2)' = {}
    BY <1>5 DEF IInv, ClaimsAreApart
  <2>2. ASSUME NEW x \in Workers
        PROVE  /\ batch'[x] \cap sent'[x] = {}
               /\ failing'[x] \cap (batch'[x] \cup sent'[x]) = {}
               /\ \A d1, d2 \in sent'[x] : d1 = d2
    BY <1>2 DEF IInv, ClaimsAreApart
  <2> QED
    BY <2>1, <2>2 DEF ClaimsAreApart
<1>8. SentWasDelivered' /\ PublishedWasDelivered'
  BY <1>1, <1>2 DEF IInv, SentWasDelivered, PublishedWasDelivered
<1>9. ASSUME NEW e \in Events
      PROVE  Paid(e)'
  <2>1. Tokens(e)' \subseteq Tokens(e)
    BY <1>2 DEF Tokens
  <2>2. Awaited(e)' => Awaited(e) \/ faults' = faults + 1
    BY <1>1, <1>3 DEF Awaited
  <2> QED
    BY <1>0, <1>1, <1>3, <1>4, <2>1, <2>2, NothingToPay DEF IInv
<1> QED
  BY <1>4, <1>6, <1>7, <1>8, <1>9 DEF IInv

LEMMA NextKeepsInvariant == IInv /\ [Next]_vars => IInv'
<1> SUFFICES ASSUME IInv, [Next]_vars
             PROVE  IInv'
  OBVIOUS
<1>1. ASSUME NEW e \in Events, Enqueue(e) \/ RetryFallsDue(e) \/ LeaseExpires(e)
      PROVE  IInv'
  BY <1>1, TimeKeepsInvariant
<1>2. ASSUME NEW w \in Workers,
             \/ Claim(w) \/ Process(w) \/ PublishFails(w) \/ MarkFails(w)
             \/ PollFails(w) \/ Crash(w) \/ Start(w)
      PROVE  IInv'
  BY <1>2, ClaimKeepsInvariant, PublishKeepsInvariant, PublishFailsKeepsInvariant,
     MarkPublishedKeepsInvariant, MarkFailsKeepsInvariant, RecordFailureKeepsInvariant,
     LosingClaimsKeepsInvariant DEF Process
<1>3. CASE UNCHANGED vars
  <2>1. UNCHANGED <<rows, deliveries, up, batch, sent, failing, faults>>
    BY <1>3 DEF vars, workers
  <2>2. \A e \in Events : Paid(e)'
    BY <2>1 DEF IInv, Paid, Tokens, Again, Awaited
  <2> QED
    BY <2>1, <2>2 DEF IInv, TypeOK, TokensAreAttempts, ClaimsAreApart, Held,
                      SentWasDelivered, PublishedWasDelivered
<1> QED
  BY <1>1, <1>2, <1>3 DEF Next

(* In every state of every execution the inductive invariant holds. *)
THEOREM Invariance == Spec => []IInv
BY InitInvariant, NextKeepsInvariant, PTL DEF Spec

-----------------------------------------------------------------------------
(***************************************************************************)
(* What follows from it                                                    *)
(***************************************************************************)

(* Every variable keeps its type, and every row its constraint. *)
THEOREM TypeCorrect == Spec => []TypeOK
<1>1. IInv => TypeOK
  BY DEF IInv
<1> QED
  BY <1>1, Invariance, PTL

(* No event is marked as published that has not reached the channel. *)
THEOREM NoEventIsLost == Spec => []PublishedWasDelivered
<1>1. IInv => PublishedWasDelivered
  BY DEF IInv
<1> QED
  BY <1>1, Invariance, PTL

(* An event is delivered once, and once more for a fault at most. *)
THEOREM RepeatsArePaid == Spec => []RepeatsAreFaults
<1>1. IInv => RepeatsAreFaults
  <2> SUFFICES ASSUME IInv, NEW e \in Events
               PROVE  deliveries[e] <= 1 + faults
    BY DEF RepeatsAreFaults
  <2>1. Paid(e) /\ deliveries[e] \in Nat /\ faults \in Nat
    BY FaultsAssumption DEF IInv, TypeOK
  <2>2. Cardinality(Tokens(e)) \in Nat
    BY <2>1, FS_CardinalityType DEF Paid
  <2> QED
    BY <2>1, <2>2 DEF Paid, Again
<1> QED
  BY <1>1, Invariance, PTL

(* A lease that is held is given up by the worker of that very claim. *)
THEOREM OwnersReleaseAlways == Spec => OwnersRelease
<1> DEFINE Released == \A e \in Events :
              rows[e].lease = "held" /\ rows'[e].lease = "none" =>
                  \E w \in Workers :
                      [event |-> e, token |-> rows[e].token] \in sent[w] \cup failing[w]
<1>1. IInv /\ [Next]_vars => [Released]_vars
  <2> SUFFICES ASSUME IInv, Next, NEW e \in Events,
                      rows[e].lease = "held", rows'[e].lease = "none"
               PROVE  \E w \in Workers :
                         [event |-> e, token |-> rows[e].token] \in sent[w] \cup failing[w]
    OBVIOUS
  <2>0. /\ TypeOK /\ rows[e] \in Row
        /\ \A x \in Events : RowOK(rows[x])
    BY DEF IInv, TypeOK, RowOK
  <2>1. ASSUME NEW x \in Events, Enqueue(x) \/ RetryFallsDue(x) \/ LeaseExpires(x)
        PROVE  FALSE
    BY <2>0, <2>1 DEF Enqueue, RetryFallsDue, LeaseExpires, TypeOK, Row
  <2>2. ASSUME NEW w \in Workers, Claim(w)
        PROVE  FALSE
    BY <2>0, <2>2, RowSteps DEF Claim
  <2>3. ASSUME NEW w \in Workers, NEW c \in sent[w] \cup failing[w], NEW r, Update(c, r)
        PROVE  [event |-> e, token |-> rows[e].token] \in sent[w] \cup failing[w]
    <3>1. c \in Claims
      BY <2>0 DEF TypeOK
    <3>2. e = c.event /\ OwnsClaim(c)
      BY <2>0, <2>3 DEF Update, TypeOK
    <3>3. c = [event |-> e, token |-> rows[e].token]
      BY <3>1, <3>2 DEF Claims, OwnsClaim
    <3> QED
      BY <3>3
  <2>4. ASSUME NEW w \in Workers, MarkPublished(w) \/ RecordFailure(w) \/ MarkFails(w)
        PROVE  \E c \in sent[w] \cup failing[w] : \E r : Update(c, r)
    BY <2>4 DEF MarkPublished, RecordFailure, MarkFails
  <2>5. ASSUME NEW w \in Workers,
               Publish(w) \/ PublishFails(w) \/ PollFails(w) \/ Crash(w) \/ Start(w)
        PROVE  FALSE
    BY <2>5 DEF Publish, PublishFails, PollFails, Crash, Start
  <2> QED
    BY <2>1, <2>2, <2>3, <2>4, <2>5 DEF Next, Process
<1> QED
  BY <1>1, Invariance, PTL DEF Spec, OwnersRelease
=============================================================================
