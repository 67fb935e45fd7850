-------------------------- MODULE RowLocks_proofs --------------------------
(***************************************************************************)
(* Theorems about RowLocks, for any number of sessions, matches, versions  *)
(* and attempts.                                                           *)
(***************************************************************************)
EXTENDS RowLocks, FiniteSetTheorems, TLAPS

-----------------------------------------------------------------------------
(***************************************************************************)
(* Who has locked what: the inductive invariant                            *)
(***************************************************************************)

(* Why s has the lock of the job r: it is about to commit a claim or a      *)
(* failure; or it processes the job, which it has left as it was; or it     *)
(* has locked the match, and the job was pending or not there.              *)
JobLock(s, r) ==
    \/ tx[s].kind \in {"claim", "fail"} /\ tx[s].at = "commit"
    \/ /\ tx[s].kind = "process" /\ r = tx[s].row
       /\ rows[r].status = "processing" /\ view[s][r] = rows[r]
    \/ /\ tx[s].at \in {"sync", "commit"} /\ lock[MatchRow(r[1])] = s
       /\ rows[r].status \in {"pending", "absent"}

(* What a transaction does at each statement, and what it has locked then. *)
SessionOK(s) ==
    /\ tx[s].at = "claim" => tx[s].kind = "claim"
    /\ tx[s].at = "job" => /\ tx[s].kind \in {"process", "fail"} /\ tx[s].row \in JobRows
                           /\ view[s][tx[s].row].status = "processing"
    /\ tx[s].kind = "process" => tx[s].row \in JobRows
    /\ tx[s].at \in {"job", "match", "sync"} => tx[s].todo # {}
    /\ tx[s].at = "sync" => \A m \in tx[s].todo : lock[MatchRow(m)] = s
    /\ \A r \in Row : lock[r] = s => tx[s].at \in {"match", "sync", "commit"}
    /\ \A r \in JobRows : lock[r] = s => JobLock(s, r)
    /\ \A m \in Matches : lock[MatchRow(m)] = s /\ tx[s].at = "match" =>
                              \A n \in tx[s].todo : m < n

IInv == TypeOK /\ \A s \in Sessions : SessionOK(s)

-----------------------------------------------------------------------------
(***************************************************************************)
(* Rows and matches                                                        *)
(***************************************************************************)

LEMMA RowKinds ==
    /\ \A m \in Matches : MatchRow(m) \in MatchRows /\ MatchRow(m) \in Row
    /\ \A m \in Matches, n \in Matches : MatchRow(m) = MatchRow(n) => m = n
    /\ \A r \in JobRows : r \in Row /\ r \notin MatchRows /\ r[1] \in Matches /\ r[2] \in Versions
    /\ \A m \in Matches, v \in Versions : <<m, v>> \in JobRows
    /\ \A r \in Row : r \in MatchRows \/ r \in JobRows
    /\ 1 \in Matches /\ 1 \in Versions /\ Matches \subseteq Nat
BY BoundAssumption DEF Row, MatchRow, MatchRows, JobRows, Matches, Versions

(* A set of matches has a first one and a last one: of the intervals that   *)
(* end, or begin, at one of them, take a smallest.                          *)
LEMMA Extremes ==
    ASSUME NEW S \in SUBSET Matches, S # {}
    PROVE  /\ \E x \in S : \A y \in S : x <= y
           /\ \E x \in S : \A y \in S : y <= x
<1>1. Matches \subseteq Nat /\ IsFiniteSet(Matches)
  BY BoundAssumption, FS_Interval DEF Matches
<1>2. ASSUME NEW F \in SUBSET SUBSET Matches, F # {}
      PROVE  \E A \in F : \A B \in F : ~(B \subseteq A /\ B # A)
  <2>1. F \subseteq FiniteSubsetsOf(Matches)
    BY <1>1, FS_Subset DEF FiniteSubsetsOf
  <2>2. IsWellFoundedOn(StrictSubsetOrdering(Matches), FiniteSubsetsOf(Matches))
    BY FS_StrictSubsetOrderingWellFounded
  <2>3. PICK A \in F : \A B \in F : <<B, A>> \notin StrictSubsetOrdering(Matches)
    BY <1>2, <2>1, <2>2, WFMin
  <2> QED
    BY <2>3 DEF StrictSubsetOrdering
<1> DEFINE Upto(x) == {z \in Matches : z <= x}
           From(x) == {z \in Matches : z >= x}
<1>3. \E x \in S : \A y \in S : x <= y
  <2> DEFINE F == {Upto(x) : x \in S}
  <2>1. F \in SUBSET SUBSET Matches /\ F # {}
    OBVIOUS
  <2>2. \E A \in F : \A B \in F : ~(B \subseteq A /\ B # A)
    <3> HIDE DEF F
    <3> QED
      BY <1>2, <2>1
  <2>3. PICK A \in F : \A B \in F : ~(B \subseteq A /\ B # A)
    BY <2>2
  <2>4. PICK x \in S : A = Upto(x)
    OBVIOUS
  <2>5. ASSUME NEW y \in S, y < x
        PROVE  FALSE
    <3>1. x \in Nat /\ y \in Nat /\ x \in Matches
      BY <1>1
    <3>2. ASSUME NEW z \in Upto(y)
          PROVE  z \in Upto(x)
      <4>1. z \in Nat /\ z \in Matches /\ z <= y
        BY <1>1
      <4> QED
        BY <2>5, <3>1, <4>1
    <3>3. x \in Upto(x) /\ x \notin Upto(y)
      BY <2>5, <3>1
    <3>4. Upto(y) \in F
      OBVIOUS
    <3> QED
      BY <2>3, <2>4, <3>2, <3>3, <3>4
  <2> QED
    BY <1>1, <2>5
<1>4. \E x \in S : \A y \in S : y <= x
  <2> DEFINE F == {From(x) : x \in S}
  <2>1. F \in SUBSET SUBSET Matches /\ F # {}
    OBVIOUS
  <2>2. \E A \in F : \A B \in F : ~(B \subseteq A /\ B # A)
    <3> HIDE DEF F
    <3> QED
      BY <1>2, <2>1
  <2>3. PICK A \in F : \A B \in F : ~(B \subseteq A /\ B # A)
    BY <2>2
  <2>4. PICK x \in S : A = From(x)
    OBVIOUS
  <2>5. ASSUME NEW y \in S, y > x
        PROVE  FALSE
    <3>1. x \in Nat /\ y \in Nat /\ x \in Matches
      BY <1>1
    <3>2. ASSUME NEW z \in From(y)
          PROVE  z \in From(x)
      <4>1. z \in Nat /\ z \in Matches /\ z >= y
        BY <1>1
      <4> QED
        BY <2>5, <3>1, <4>1
    <3>3. x \in From(x) /\ x \notin From(y)
      BY <2>5, <3>1
    <3>4. From(y) \in F
      OBVIOUS
    <3> QED
      BY <2>3, <2>4, <3>2, <3>3, <3>4
  <2> QED
    BY <1>1, <2>5
<1> QED
  BY <1>3, <1>4

LEMMA MinIsFirst ==
    ASSUME NEW S \in SUBSET Matches, S # {}
    PROVE  Min(S) \in S /\ Min(S) \in Matches /\ \A y \in S : Min(S) <= y
<1>1. \E x \in S : \A y \in S : x <= y
  BY Extremes
<1> QED
  BY <1>1 DEF Min

-----------------------------------------------------------------------------
(***************************************************************************)
(* Why there is no deadlock                                                *)
(***************************************************************************)

(* Who waits, waits for a row that somebody else has locked. *)
LEMMA BlockersHold ==
    ASSUME IInv, NEW s \in Sessions, NEW h \in Blockers(s)
    PROVE  /\ h \in Sessions /\ h # s
           /\ tx[s].at \in {"job", "match", "sync"}
           /\ \E r \in Row : /\ r \in Needs(s) /\ lock[r] = h /\ rows[r] = view[s][r]
           /\ tx[h].at \in {"match", "sync", "commit"}
<1>1. PICK r \in Needs(s) : lock[r] = h /\ ~IsFree(s, r) /\ IsSeen(s, r)
  BY DEF Blockers
<1>2. tx[s].at \in {"job", "match", "sync"}
  BY <1>1 DEF Needs
<1>3. r \in Row
  <2>1. CASE tx[s].at = "job"
    BY <1>1, <2>1, RowKinds DEF Needs, IInv, SessionOK
  <2>2. CASE tx[s].at = "match"
    <3>1. tx[s].todo \in SUBSET Matches /\ tx[s].todo # {}
      BY <2>2 DEF IInv, TypeOK, Transaction, SessionOK
    <3>2. Min(tx[s].todo) \in Matches
      BY <3>1, MinIsFirst
    <3> QED
      BY <1>1, <2>2, <3>2, RowKinds DEF Needs
  <2>3. CASE tx[s].at = "sync"
    <3>1. r \in JobRows
      BY <1>1, <2>3 DEF Needs, Stale
    <3> QED
      BY <3>1, RowKinds
  <2> QED
    BY <1>2, <2>1, <2>2, <2>3
<1>4. h \in Sessions /\ h # s
  BY <1>1, <1>3, SessionAssumption DEF IInv, TypeOK, IsFree
<1>5. tx[h].at \in {"match", "sync", "commit"}
  BY <1>1, <1>3, <1>4 DEF IInv, SessionOK
<1>6. rows[r] = view[s][r]
  BY <1>1, <1>4 DEF IsSeen
<1> QED
  BY <1>1, <1>2, <1>3, <1>4, <1>5, <1>6

(* A transaction that waits for a job after it has locked its match waits   *)
(* for one that waits for nothing.                                          *)
LEMMA SyncWaitsForTheLast ==
    ASSUME IInv, NEW s \in Sessions, tx[s].at = "sync", NEW h \in Blockers(s)
    PROVE  Blockers(h) = {}
<1> DEFINE m == Min(tx[s].todo)
<1>1. h \in Sessions /\ h # s
  BY BlockersHold
<1>2. PICK r \in Row : r \in Needs(s) /\ lock[r] = h /\ rows[r] = view[s][r]
  BY BlockersHold
<1>3. lock[MatchRow(m)] = s
  <2>1. tx[s].todo \in SUBSET Matches /\ tx[s].todo # {}
    BY DEF IInv, TypeOK, Transaction, SessionOK
  <2>2. m \in tx[s].todo
    BY <2>1, MinIsFirst
  <2> QED
    BY <2>2 DEF IInv, SessionOK
<1>4. r \in JobRows /\ r[1] = m
  BY <1>2 DEF Needs, Stale
<1>5. \/ view[s][r].status = "pending"
      \/ view[h][r] # rows[r]
  BY <1>2 DEF Needs, Stale, IsChanging
<1>6. JobLock(h, r)
  BY <1>1, <1>2, <1>4 DEF IInv, SessionOK
<1>7. tx[h].at = "commit"
  BY <1>1, <1>2, <1>3, <1>4, <1>5, <1>6 DEF JobLock
<1> QED
  BY <1>7 DEF Blockers, Needs

(* Whoever has locked the match that another waits for, and waits for a     *)
(* match too, waits for a later one.                                        *)
LEMMA MatchesAreLockedInOrder ==
    ASSUME IInv, NEW s \in Sessions, tx[s].at = "match", NEW h \in Blockers(s),
           tx[h].at = "match"
    PROVE  Min(tx[s].todo) < Min(tx[h].todo)
<1>1. h \in Sessions
  BY BlockersHold
<1>2. PICK r \in Row : r \in Needs(s) /\ lock[r] = h
  BY BlockersHold
<1>3. r = MatchRow(Min(tx[s].todo))
  BY <1>2 DEF Needs
<1>4. /\ tx[s].todo \in SUBSET Matches /\ tx[s].todo # {}
      /\ tx[h].todo \in SUBSET Matches /\ tx[h].todo # {}
  BY <1>1 DEF IInv, TypeOK, Transaction, SessionOK
<1>5. Min(tx[s].todo) \in Matches /\ Min(tx[h].todo) \in tx[h].todo
  BY <1>4, MinIsFirst
<1> QED
  BY <1>1, <1>2, <1>3, <1>5 DEF IInv, SessionOK

LEMMA InvariantMeansNoDeadlock == IInv => NoDeadlock
<1> SUFFICES ASSUME IInv, NEW D \in SUBSET Sessions, D # {},
                    \A s \in D : Blockers(s) \cap D # {}
             PROVE  FALSE
  BY DEF NoDeadlock
<1>1. \A s \in D : tx[s].at \in {"job", "match"}
  BY BlockersHold, SyncWaitsForTheLast
<1> DEFINE W == {s \in D : tx[s].at = "match"}
           M == {Min(tx[s].todo) : s \in W}
<1>2. \A s \in D : \E h \in W : h \in Blockers(s)
  <2> SUFFICES ASSUME NEW s \in D
               PROVE  \E h \in W : h \in Blockers(s)
    OBVIOUS
  <2>1. PICK h \in D : h \in Blockers(s)
    OBVIOUS
  <2>2. tx[h].at \in {"match", "sync", "commit"}
    BY <2>1, BlockersHold
  <2> QED
    BY <1>1, <2>1, <2>2
<1>3. M # {}
  BY <1>2
<1>4. M \in SUBSET Matches
  <2> SUFFICES ASSUME NEW s \in W
               PROVE  Min(tx[s].todo) \in Matches
    OBVIOUS
  <2>1. tx[s].todo \in SUBSET Matches /\ tx[s].todo # {}
    BY DEF IInv, TypeOK, Transaction, SessionOK
  <2> QED
    BY <2>1, MinIsFirst
<1>5. PICK s \in W : \A d \in W : Min(tx[d].todo) <= Min(tx[s].todo)
  <2>1. PICK x \in M : \A y \in M : y <= x
    <3> HIDE DEF M
    <3> QED
      BY <1>3, <1>4, Extremes
  <2> QED
    BY <2>1
<1>6. PICK h \in W : h \in Blockers(s)
  BY <1>2
<1>7. Min(tx[s].todo) < Min(tx[h].todo)
  BY <1>6, MatchesAreLockedInOrder
<1>8. Min(tx[s].todo) \in Nat /\ Min(tx[h].todo) \in Nat
  BY <1>4, RowKinds
<1> QED
  BY <1>5, <1>6, <1>7, <1>8

-----------------------------------------------------------------------------
(***************************************************************************)
(* The invariant is inductive                                              *)
(***************************************************************************)

(* Nothing has happened to a session whose transaction, snapshot and locked *)
(* rows are what they were.                                                 *)
LEMMA Untouched ==
    ASSUME TypeOK, NEW d \in Sessions, SessionOK(d),
           tx'[d] = tx[d], view'[d] = view[d],
           \A r \in Row : lock'[r] = d <=> lock[r] = d,
           \A r \in Row : lock[r] = d => rows'[r] = rows[r]
    PROVE  SessionOK(d)'
<1>1. /\ \A m \in Matches : MatchRow(m) \in Row
      /\ \A r \in JobRows : r \in Row /\ r[1] \in Matches
  BY RowKinds
<1>2. tx'[d].at = "sync" => \A m \in tx'[d].todo : lock'[MatchRow(m)] = d
  BY <1>1 DEF SessionOK, TypeOK, Transaction
<1>3. ASSUME NEW r \in JobRows, lock'[r] = d
      PROVE  JobLock(d, r)'
  BY <1>1, <1>3 DEF SessionOK, JobLock
<1> QED
  BY <1>1, <1>2, <1>3 DEF SessionOK

LEMMA IdleIsTransaction == Idle \in Transaction
BY RowKinds, BoundAssumption DEF Idle, Transaction

(* Locking a row disturbs no other session. *)
LEMMA LocksKeep ==
    ASSUME IInv, NEW s \in Sessions, tx[s].at # "idle",
           NEW r \in Row, NEW value, NEW t \in Transaction,
           r \in MatchRows => value \in Match,
           r \in JobRows => value \in Job,
           Locks(s, r, value, t)
    PROVE  /\ TypeOK'
           /\ \A d \in Sessions : d # s => SessionOK(d)'
           /\ tx'[s] = t
           /\ \A x \in Row : lock'[x] = IF x = r THEN s ELSE lock[x]
           /\ \A x \in Row : view'[s][x] = IF x = r THEN value ELSE view[s][x]
           /\ rows' = rows
<1>1. tx'[s] = t /\ rows' = rows /\ lock' \in [Row -> Sessions \cup {NoOne}]
  BY DEF IInv, TypeOK, Locks
<1>2. \A x \in Row : lock'[x] = IF x = r THEN s ELSE lock[x]
  BY DEF IInv, TypeOK, Locks
<1>3. view'[s] = [view[s] EXCEPT ![r] = value] /\ DOMAIN view' = Sessions
  BY DEF IInv, TypeOK, Locks
<1>4. IsTable(view[s])
  BY DEF IInv, TypeOK
<1>5. IsTable(view'[s])
  BY <1>3, <1>4, RowKinds DEF IsTable
<1>6. \A d \in Sessions : d # s => tx'[d] = tx[d] /\ view'[d] = view[d]
  BY DEF IInv, TypeOK, Locks
<1>7. TypeOK'
  BY <1>1, <1>3, <1>5, <1>6 DEF IInv, TypeOK, Locks
<1>8. ASSUME NEW d \in Sessions, d # s
      PROVE  SessionOK(d)'
  <2>1. \A x \in Row : lock'[x] = d <=> lock[x] = d
    BY <1>2, <1>8, SessionAssumption DEF IInv, Locks, IsFree
  <2> QED
    BY <1>1, <1>6, <1>8, <2>1, Untouched DEF IInv
<1>9. \A x \in Row : view'[s][x] = IF x = r THEN value ELSE view[s][x]
  BY <1>3, <1>4 DEF IsTable
<1> QED
  BY <1>1, <1>2, <1>7, <1>8, <1>9

(* The end of a transaction may change what it has locked. *)
LEMMA EndsKeeps ==
    ASSUME IInv, NEW s \in Sessions, Ends(s), IsTable(rows)',
           \A r \in Row : lock[r] # s => rows'[r] = rows[r]
    PROVE  IInv'
<1>1. /\ tx'[s] = Idle /\ view'[s] = <<>> /\ DOMAIN view' = Sessions
      /\ \A r \in Row : lock'[r] = IF lock[r] = s THEN NoOne ELSE lock[r]
      /\ \A d \in Sessions : d # s => tx'[d] = tx[d] /\ view'[d] = view[d]
  BY DEF IInv, TypeOK, Ends
<1>2. TypeOK'
  BY <1>1, IdleIsTransaction DEF IInv, TypeOK, Ends, Idle
<1>3. SessionOK(s)'
  <2>1. \A r \in Row : lock'[r] # s
    BY <1>1, SessionAssumption
  <2> QED
    BY <1>1, <2>1, RowKinds DEF SessionOK, Idle
<1>4. ASSUME NEW d \in Sessions, d # s
      PROVE  SessionOK(d)'
  <2>1. \A r \in Row : lock'[r] = d <=> lock[r] = d
    BY <1>1, <1>4, SessionAssumption
  <2>2. \A r \in Row : lock[r] = d => rows'[r] = rows[r]
    BY <1>4
  <2> QED
    BY <1>1, <1>4, <2>1, <2>2, Untouched DEF IInv
<1> QED
  BY <1>2, <1>3, <1>4 DEF IInv

LEMMA RollsBackKeeps ==
    ASSUME IInv, NEW s \in Sessions, RollsBack(s)
    PROVE  IInv'
BY EndsKeeps DEF RollsBack, IInv, TypeOK

LEMMA BeginsKeeps ==
    ASSUME IInv, NEW s \in Sessions,
           NEW kind, NEW first, NEW r, NEW attempt, NEW todo,
           [kind |-> kind, at |-> first, row |-> r, claim |-> attempt, todo |-> todo]
              \in Transaction,
           first \in {"claim", "job", "match"},
           first = "claim" => kind = "claim",
           first = "job" => kind \in {"process", "fail"} /\ rows[r].status = "processing",
           kind \in {"process", "fail"} => r \in JobRows,
           first # "claim" => todo # {},
           Begins(s, kind, first, r, attempt, todo)
    PROVE  IInv'
<1>1. /\ tx'[s] = [kind |-> kind, at |-> first, row |-> r, claim |-> attempt, todo |-> todo]
      /\ view'[s] = rows /\ DOMAIN view' = Sessions /\ rows' = rows /\ lock' = lock
      /\ \A d \in Sessions : d # s => tx'[d] = tx[d] /\ view'[d] = view[d]
  BY DEF IInv, TypeOK, Begins
<1>2. TypeOK'
  BY <1>1 DEF IInv, TypeOK, Begins
<1>3. SessionOK(s)'
  <2>1. \A x \in Row : lock'[x] # s
    BY <1>1 DEF Begins, IInv, SessionOK
  <2> QED
    BY <1>1, <2>1, RowKinds DEF SessionOK
<1>4. \A d \in Sessions : d # s => SessionOK(d)'
  BY <1>1, Untouched DEF IInv
<1> QED
  BY <1>2, <1>3, <1>4 DEF IInv

LEMMA BeginningsKeep ==
    ASSUME IInv, NEW s \in Sessions,
           BeginCommand(s) \/ BeginClaimed(s) \/ BeginRecovery(s) \/ BeginClaim(s)
    PROVE  IInv'
<1>0. MatchRow(1) \in Row /\ 0 \in 0..MaxAttempts
  BY RowKinds, BoundAssumption
<1>1. CASE BeginCommand(s)
  <2>1. PICK m \in Matches : Begins(s, "command", "match", MatchRow(m), 0, {m})
    BY <1>1 DEF BeginCommand
  <2>2. MatchRow(m) \in Row
    BY RowKinds
  <2> QED
    BY <1>0, <2>1, <2>2, BeginsKeeps DEF Transaction
<1>2. CASE BeginClaimed(s)
  <2>0. PICK r \in JobRows, kind \in {"process", "fail"} :
           \E attempt \in 1..rows[r].attempts :
              OwnsClaim(r, attempt) /\ Begins(s, kind, "job", r, attempt, {r[1]})
    BY <1>2 DEF BeginClaimed
  <2>1. PICK attempt \in 1..rows[r].attempts :
           OwnsClaim(r, attempt) /\ Begins(s, kind, "job", r, attempt, {r[1]})
    BY <2>0
  <2>2. r \in Row /\ r[1] \in Matches
    BY RowKinds
  <2>3. rows[r] \in Job
    BY DEF IInv, TypeOK, IsTable
  <2>4. attempt \in 0..MaxAttempts
    BY <2>3, BoundAssumption DEF Job
  <2>5. rows[r].status = "processing"
    BY <2>1 DEF OwnsClaim
  <2> QED
    BY <2>1, <2>2, <2>4, <2>5, BeginsKeeps DEF Transaction
<1>3. CASE BeginRecovery(s)
  BY <1>0, <1>3, BeginsKeeps DEF BeginRecovery, Transaction
<1>4. CASE BeginClaim(s)
  BY <1>0, <1>4, BeginsKeeps DEF BeginClaim, Transaction
<1> QED
  BY <1>1, <1>2, <1>3, <1>4

LEMMA ClaimKeeps ==
    ASSUME IInv, NEW s \in Sessions, Claim(s)
    PROVE  IInv'
<1>1. tx[s].at = "claim" /\ tx[s].kind = "claim"
  BY DEF Claim, IInv, SessionOK
<1>2. PICK S \in (SUBSET {r \in JobRows : Claimable(view[s][r]) /\ lock[r] = NoOne}) \ {{}} :
          IF \E r \in S : ~IsSeen(s, r)
          THEN RollsBack(s)
          ELSE /\ lock' = [r \in Row |-> IF r \in S THEN s ELSE lock[r]]
               /\ view' = [view EXCEPT ![s] = [r \in Row |->
                              IF r \in S THEN [status |-> "processing",
                                               attempts |-> view[s][r].attempts + 1]
                                         ELSE view[s][r]]]
               /\ tx' = [tx EXCEPT ![s].at = "commit"]
               /\ UNCHANGED rows
  BY DEF Claim
<1>3. CASE \E r \in S : ~IsSeen(s, r)
  BY <1>2, <1>3, RollsBackKeeps
<1>4. CASE ~\E r \in S : ~IsSeen(s, r)
  <2>1. /\ tx'[s] = [tx[s] EXCEPT !.at = "commit"] /\ rows' = rows /\ DOMAIN view' = Sessions
        /\ \A r \in Row : lock'[r] = IF r \in S THEN s ELSE lock[r]
        /\ \A d \in Sessions : d # s => tx'[d] = tx[d] /\ view'[d] = view[d]
    BY <1>2, <1>4 DEF IInv, TypeOK
  <2>2. tx[s] \in Transaction
    BY DEF IInv, TypeOK
  <2>3. tx'[s] \in Transaction /\ tx'[s].at = "commit" /\ tx'[s].kind = "claim"
    BY <1>1, <2>1, <2>2 DEF Transaction
  <2>4. IsTable(view[s])
    BY <1>1 DEF IInv, TypeOK
  <2>5. \A r \in S : r \in JobRows /\ Claimable(view[s][r]) /\ lock[r] = NoOne
    OBVIOUS
  <2>6. \A r \in S : [status |-> "processing", attempts |-> view[s][r].attempts + 1] \in Job
    BY <2>4, <2>5, BoundAssumption DEF IsTable, Job, Claimable
  <2>7. view'[s] = [r \in Row |-> IF r \in S THEN [status |-> "processing",
                                                   attempts |-> view[s][r].attempts + 1]
                                             ELSE view[s][r]]
    BY <1>2, <1>4 DEF IInv, TypeOK
  <2>8. IsTable(view'[s])
    <3>1. /\ \A r \in MatchRows : view'[s][r] = view[s][r] /\ r \in Row /\ r \notin JobRows
          /\ \A r \in JobRows : view'[s][r] = view[s][r] \/ view'[s][r] \in Job
      BY <2>5, <2>6, <2>7, RowKinds DEF Row
    <3>2. /\ \A r \in MatchRows : view'[s][r] \in Match
          /\ \A r \in JobRows : view'[s][r] \in Job
      BY <2>4, <3>1 DEF IsTable
    <3>3. \A r \in Row : view'[s][r] \in Match \cup Job
      BY <3>2, RowKinds
    <3> QED
      BY <2>7, <3>2, <3>3 DEF IsTable
  <2>9. TypeOK'
    BY <1>2, <1>4, <2>1, <2>3, <2>8 DEF IInv, TypeOK
  <2>10. SessionOK(s)'
    <3>1. tx'[s].row = tx[s].row
      BY <2>1, <2>2 DEF Transaction
    <3> QED
      BY <2>3, <3>1 DEF SessionOK, JobLock
  <2>11. ASSUME NEW d \in Sessions, d # s
         PROVE  SessionOK(d)'
    <3>1. \A r \in Row : lock'[r] = d <=> lock[r] = d
      BY <2>1, <2>5, <2>11, SessionAssumption
    <3> QED
      BY <2>1, <2>11, <3>1, Untouched DEF IInv
  <2> QED
    BY <2>9, <2>10, <2>11 DEF IInv
<1> QED
  BY <1>3, <1>4

LEMMA LockJobKeeps ==
    ASSUME IInv, NEW s \in Sessions, LockJob(s)
    PROVE  IInv'
<1> DEFINE t == tx[s]
           job == view[s][t.row]
<1>1. /\ t.at = "job" /\ t \in Transaction /\ t.row \in JobRows /\ t.row \in Row
      /\ t.kind \in {"process", "fail"} /\ job.status = "processing"
      /\ t.todo # {}
  BY RowKinds DEF LockJob, IInv, TypeOK, SessionOK
<1>2. job \in Job
  BY <1>1 DEF IInv, TypeOK, IsTable
<1>3. \A r \in Row : lock[r] # s
  BY <1>1 DEF IInv, SessionOK
<1>4. CASE ~IsSeen(s, t.row)
  BY <1>4, RollsBackKeeps DEF LockJob
<1>5. CASE IsSeen(s, t.row) /\ t.kind = "fail"
  <2> DEFINE u == [t EXCEPT !.at = "commit"]
  <2>1. Locks(s, t.row, Released(job), u)
    BY <1>5 DEF LockJob
  <2>2. u \in Transaction /\ u.at = "commit" /\ u.kind = "fail"
    BY <1>1, <1>5 DEF Transaction
  <2>3. Released(job) \in Job /\ t.row \notin MatchRows
    BY <1>1, <1>2, RowKinds DEF Released, Job
  <2> HIDE DEF t, u, job
  <2>4. TypeOK' /\ tx'[s] = u /\ \A d \in Sessions : d # s => SessionOK(d)'
    BY <1>1, <2>1, <2>2, <2>3, LocksKeep DEF t
  <2>5. SessionOK(s)'
    BY <2>2, <2>4 DEF SessionOK, JobLock
  <2> QED
    BY <2>4, <2>5 DEF IInv
<1>6. CASE IsSeen(s, t.row) /\ t.kind # "fail"
  <2> DEFINE u == [t EXCEPT !.at = "match"]
  <2>1. Locks(s, t.row, job, u)
    BY <1>6 DEF LockJob
  <2>2. /\ u \in Transaction /\ u.at = "match" /\ u.kind = "process" /\ u.row = t.row
        /\ u.todo = t.todo
    BY <1>1, <1>6 DEF Transaction
  <2>3. rows[t.row] = job
    BY <1>1, <1>3, <1>6 DEF IsSeen
  <2> HIDE DEF t, u, job
  <2>4. /\ TypeOK' /\ tx'[s] = u /\ rows' = rows
        /\ \A d \in Sessions : d # s => SessionOK(d)'
        /\ \A x \in Row : lock'[x] = IF x = t.row THEN s ELSE lock[x]
        /\ \A x \in Row : view'[s][x] = IF x = t.row THEN job ELSE view[s][x]
    BY <1>1, <1>2, <2>1, <2>2, LocksKeep, RowKinds DEF t
  <2>0. PICK r \in JobRows : r = t.row
    BY <1>1
  <2>5. \A x \in Row : lock'[x] = s => x = r
    BY <1>3, <2>0, <2>4
  <2>6. JobLock(s, r)'
    <3>1. rows'[r] = job /\ view'[s][r] = job /\ tx'[s].row = r
      BY <1>1, <2>0, <2>2, <2>3, <2>4
    <3> QED
      BY <1>1, <2>2, <2>4, <3>1 DEF JobLock
  <2>7. \A m \in Matches : MatchRow(m) \in Row /\ MatchRow(m) # r
    BY RowKinds
  <2>8. SessionOK(s)'
    BY <1>1, <2>2, <2>4, <2>5, <2>6, <2>7, RowKinds DEF SessionOK
  <2> QED
    BY <2>4, <2>8 DEF IInv
<1> QED
  BY <1>4, <1>5, <1>6

(* A job is locked after its match: it is pending or not there. *)
LEMMA SyncLocksKeep ==
    ASSUME IInv, NEW s \in Sessions, tx[s].at = "sync",
           NEW r \in JobRows, lock[MatchRow(r[1])] = s,
           IsSeen(s, r), view[s][r].status \in {"pending", "absent"},
           NEW value \in Job, NEW t \in Transaction,
           t.kind = tx[s].kind, t.row = tx[s].row, t.at \in {"sync", "commit"},
           t.todo \subseteq tx[s].todo, t.at = "sync" => t.todo # {},
           Locks(s, r, value, t)
    PROVE  IInv'
<1>1. r \in Row /\ r \notin MatchRows /\ r[1] \in Matches
  BY RowKinds
<1>2. rows[r].status \in {"pending", "absent"}
  <2>1. CASE lock[r] = s
    BY <2>1 DEF IInv, SessionOK, JobLock
  <2>2. CASE lock[r] # s
    BY <2>2 DEF IsSeen
  <2> QED
    BY <2>1, <2>2
<1>3. /\ TypeOK' /\ tx'[s] = t /\ rows' = rows
      /\ \A d \in Sessions : d # s => SessionOK(d)'
      /\ \A x \in Row : lock'[x] = IF x = r THEN s ELSE lock[x]
      /\ \A x \in Row : view'[s][x] = IF x = r THEN value ELSE view[s][x]
  BY <1>1, LocksKeep
<1>4. \A n \in Matches : MatchRow(n) \in Row /\ MatchRow(n) # r
  BY RowKinds
<1>5. \A n \in t.todo : lock'[MatchRow(n)] = s
  BY <1>3, <1>4 DEF IInv, SessionOK, Transaction
<1>6. ASSUME NEW x \in JobRows, lock'[x] = s
      PROVE  JobLock(s, x)'
  <2>1. x \in Row /\ x[1] \in Matches
    BY RowKinds
  <2>2. CASE x = r
    BY <1>1, <1>2, <1>3, <1>4, <2>2 DEF JobLock
  <2>3. CASE x # r
    <3>1. JobLock(s, x)
      BY <1>3, <1>6, <2>1, <2>3 DEF IInv, SessionOK
    <3> QED
      BY <1>3, <1>4, <2>1, <2>3, <3>1 DEF JobLock
  <2> QED
    BY <2>2, <2>3
<1>7. SessionOK(s)'
  BY <1>3, <1>5, <1>6 DEF IInv, SessionOK
<1> QED
  BY <1>3, <1>7 DEF IInv

LEMMA SyncIsOfALockedMatch ==
    ASSUME IInv, NEW s \in Sessions, tx[s].at = "sync"
    PROVE  /\ tx[s] \in Transaction /\ IsTable(view[s])
           /\ Min(tx[s].todo) \in tx[s].todo /\ Min(tx[s].todo) \in Matches
           /\ lock[MatchRow(Min(tx[s].todo))] = s
<1>1. tx[s].todo \in SUBSET Matches /\ tx[s].todo # {}
  BY DEF IInv, TypeOK, Transaction, SessionOK
<1>2. Min(tx[s].todo) \in tx[s].todo /\ Min(tx[s].todo) \in Matches
  BY <1>1, MinIsFirst
<1> QED
  BY <1>1, <1>2 DEF IInv, TypeOK, SessionOK

LEMMA CancelJobKeeps ==
    ASSUME IInv, NEW s \in Sessions, CancelJob(s)
    PROVE  IInv'
<1>1. tx[s].at = "sync"
  BY DEF CancelJob
<1>2. PICK r \in Stale(view[s], Min(tx[s].todo)) :
         IF ~IsSeen(s, r) THEN RollsBack(s)
         ELSE Locks(s, r, [view[s][r] EXCEPT !.status = "cancelled"], tx[s])
  BY DEF CancelJob
<1>3. r \in JobRows /\ r[1] = Min(tx[s].todo) /\ view[s][r].status = "pending"
  BY <1>2 DEF Stale
<1>4. CASE ~IsSeen(s, r)
  BY <1>2, <1>4, RollsBackKeeps
<1>5. CASE IsSeen(s, r)
  <2>1. [view[s][r] EXCEPT !.status = "cancelled"] \in Job
    BY <1>1, <1>3, SyncIsOfALockedMatch DEF IsTable, Job
  <2>2. lock[MatchRow(r[1])] = s /\ tx[s] \in Transaction /\ tx[s].todo # {}
    BY <1>1, <1>3, SyncIsOfALockedMatch
  <2> QED
    BY <1>1, <1>2, <1>3, <1>5, <2>1, <2>2, SyncLocksKeep
<1> QED
  BY <1>4, <1>5

LEMMA InsertJobKeeps ==
    ASSUME IInv, NEW s \in Sessions, InsertJob(s)
    PROVE  IInv'
<1> DEFINE t == tx[s]
           m == Min(t.todo)
           match == view[s][MatchRow(m)]
           r == <<m, match.version>>
           next == IF t.todo = {m} THEN [t EXCEPT !.at = "commit", !.todo = {}]
                                   ELSE [t EXCEPT !.todo = @ \ {m}]
<1>1. t.at = "sync"
  BY DEF InsertJob
<1>2. /\ t \in Transaction /\ IsTable(view[s]) /\ m \in t.todo /\ m \in Matches
      /\ lock[MatchRow(m)] = s
  BY <1>1, SyncIsOfALockedMatch
<1>3. /\ next \in Transaction /\ next.kind = t.kind /\ next.row = t.row
      /\ next.at \in {"sync", "commit"} /\ next.todo \subseteq t.todo
      /\ next.at = "sync" => next.todo # {}
  BY <1>1, <1>2 DEF Transaction
<1>4. CASE match.running /\ ~IsSeen(s, r)
  BY <1>4, RollsBackKeeps DEF InsertJob
<1>5. CASE match.running /\ IsSeen(s, r) /\ view[s][r] = NoJob
  <2>1. Locks(s, r, NewJob, next)
    BY <1>5 DEF InsertJob
  <2>2. match \in Match
    BY <1>2, RowKinds DEF IsTable
  <2>3. r \in JobRows /\ r[1] = m
    BY <1>2, <1>5, <2>2, RowKinds DEF Match
  <2>4. NewJob \in Job
    BY BoundAssumption DEF NewJob, Job
  <2>5. view[s][r].status = "absent"
    BY <1>5 DEF NoJob
  <2> HIDE DEF r, next
  <2> QED
    BY <1>1, <1>2, <1>3, <1>5, <2>1, <2>3, <2>4, <2>5, SyncLocksKeep
<1>6. CASE ~(match.running /\ (~IsSeen(s, r) \/ view[s][r] = NoJob))
  <2>1. tx' = [tx EXCEPT ![s] = next] /\ UNCHANGED <<rows, lock, view>>
    BY <1>6 DEF InsertJob
  <2> HIDE DEF next
  <2>2. tx'[s] = next /\ \A d \in Sessions : d # s => tx'[d] = tx[d]
    BY <2>1 DEF IInv, TypeOK
  <2>3. TypeOK'
    BY <1>1, <1>2, <1>3, <2>1, <2>2 DEF IInv, TypeOK
  <2>4. \A d \in Sessions : d # s => SessionOK(d)'
    BY <2>1, <2>2, Untouched DEF IInv
  <2>5. \A x \in JobRows : lock[x] = s => JobLock(s, x)'
    <3>1. \A x \in JobRows : lock[x] = s => JobLock(s, x)
      BY DEF IInv, SessionOK
    <3> QED
      BY <1>1, <1>3, <2>1, <2>2, <3>1 DEF JobLock
  <2>6. SessionOK(s)'
    BY <1>1, <1>3, <2>1, <2>2, <2>5 DEF IInv, SessionOK
  <2> QED
    BY <2>3, <2>4, <2>6 DEF IInv
<1> QED
  BY <1>4, <1>5, <1>6

LEMMA OutcomesAreMatches ==
    ASSUME NEW t, NEW match \in Match
    PROVE  Outcomes(t, match) \subseteq Match
BY DEF Outcomes

LEMMA LockMatchKeeps ==
    ASSUME IInv, NEW s \in Sessions, LockMatch(s)
    PROVE  IInv'
<1> DEFINE t == tx[s]
           m == Min(t.todo)
           match == view[s][MatchRow(m)]
           locked == {n \in Matches : lock[MatchRow(n)] = s} \cup {m}
           After(new) == IF t.todo # {m} THEN [t EXCEPT !.todo = @ \ {m}]
                         ELSE IF t.kind # "recovery" /\ new = match
                              THEN [t EXCEPT !.at = "commit"]
                              ELSE [t EXCEPT !.at = "sync", !.todo = locked]
<1>1. /\ t.at = "match" /\ t \in Transaction /\ IsTable(view[s])
      /\ t.todo \in SUBSET Matches /\ t.todo # {}
  BY DEF LockMatch, IInv, TypeOK, SessionOK, Transaction
<1>2. m \in t.todo /\ m \in Matches /\ \A n \in t.todo : m <= n
  BY <1>1, MinIsFirst
<1>3. match \in Match
  BY <1>1, <1>2, RowKinds DEF IsTable
<1>4. CASE ~IsSeen(s, MatchRow(m))
  BY <1>4, RollsBackKeeps DEF LockMatch
<1>5. CASE IsSeen(s, MatchRow(m))
  <2>1. PICK new \in Outcomes(t, match) : Locks(s, MatchRow(m), new, After(new))
    BY <1>5 DEF LockMatch
  <2>2. new \in Match
    BY <1>3, OutcomesAreMatches
  <2>3. PICK u \in Transaction : u = After(new)
    BY <1>1, <1>2 DEF Transaction
  <2>4. /\ u.kind = t.kind /\ u.row = t.row
        /\ \/ u.at = "match" /\ u.todo = t.todo \ {m} /\ t.todo # {m}
           \/ u.at = "commit"
           \/ u.at = "sync" /\ u.todo = locked
    BY <1>1, <2>3 DEF Transaction
  <2>5. PICK k \in Matches : k = m
    BY <1>2
  <2>6. /\ TypeOK' /\ tx'[s] = u /\ rows' = rows
        /\ \A d \in Sessions : d # s => SessionOK(d)'
        /\ \A x \in Row : lock'[x] = IF x = MatchRow(k) THEN s ELSE lock[x]
        /\ \A x \in Row : view'[s][x] = IF x = MatchRow(k) THEN new ELSE view[s][x]
    <3> HIDE DEF After
    <3> QED
      BY <1>1, <2>1, <2>2, <2>3, <2>5, LocksKeep, RowKinds
  <2>7. \A x \in JobRows : x \in Row /\ x # MatchRow(k) /\ x[1] \in Matches
    BY RowKinds
  <2>8. ASSUME NEW x \in JobRows, lock'[x] = s
        PROVE  JobLock(s, x)'
    <3>1. JobLock(s, x)
      BY <2>6, <2>7, <2>8 DEF IInv, SessionOK
    <3>2. /\ t.kind = "process" /\ x = t.row
          /\ rows[x].status = "processing" /\ view[s][x] = rows[x]
      BY <1>1, <3>1 DEF JobLock
    <3> QED
      BY <2>4, <2>6, <2>7, <3>2 DEF JobLock
  <2>9. u.at = "sync" => \A n \in u.todo : n \in Matches /\ lock'[MatchRow(n)] = s
    BY <1>2, <2>4, <2>5, <2>6, RowKinds
  <2>10. ASSUME NEW n \in Matches, lock'[MatchRow(n)] = s, u.at = "match",
                NEW x \in u.todo
         PROVE  n < x
    <3>1. x \in t.todo /\ x # k /\ k < x
      <4>1. x \in t.todo /\ x # k /\ k <= x
        BY <1>2, <2>4, <2>5, <2>10
      <4>2. x \in Nat /\ k \in Nat
        BY <1>1, <4>1, RowKinds
      <4> QED
        BY <4>1, <4>2
    <3>2. CASE n = k
      BY <3>1, <3>2
    <3>3. CASE n # k
      <4>1. lock[MatchRow(n)] = s
        BY <2>6, <2>10, <3>3, RowKinds
      <4> QED
        BY <1>1, <3>1, <4>1 DEF IInv, SessionOK
    <3> QED
      BY <3>2, <3>3
  <2>11. u.at \in {"match", "sync"} => u.todo # {}
    BY <1>2, <2>4
  <2>12. SessionOK(s)'
    <3> HIDE DEF After, locked, m, match
    <3>1. t.kind = "process" => t.row \in JobRows
      BY DEF IInv, SessionOK
    <3> QED
      BY <2>4, <2>6, <2>8, <2>9, <2>10, <2>11, <3>1 DEF SessionOK
  <2> QED
    BY <2>6, <2>12 DEF IInv
<1> QED
  BY <1>4, <1>5

LEMMA CommitKeeps ==
    ASSUME IInv, NEW s \in Sessions, Commit(s)
    PROVE  IInv'
<1>1. /\ rows' = [r \in Row |-> IF lock[r] = s THEN Committed(s, r) ELSE rows[r]]
      /\ Ends(s) /\ tx[s].at = "commit"
  BY DEF Commit
<1>2. IsTable(view[s]) /\ IsTable(rows)
  BY <1>1 DEF IInv, TypeOK
<1>3. \A r \in MatchRows : r \in Row /\ r \notin JobRows /\ Committed(s, r) = view[s][r]
  BY RowKinds DEF Row, IInv, SessionOK, Committed
<1>4. \A r \in JobRows : r \in Row /\ Committed(s, r) \in Job
  BY <1>2, RowKinds DEF Committed, IsTable, Job
<1>5. /\ \A r \in MatchRows : rows'[r] \in Match
      /\ \A r \in JobRows : rows'[r] \in Job
  BY <1>1, <1>2, <1>3, <1>4 DEF IsTable
<1>6. \A r \in Row : rows'[r] \in Match \cup Job
  BY <1>5, RowKinds
<1>7. IsTable(rows)'
  BY <1>1, <1>5, <1>6 DEF IsTable
<1> QED
  BY <1>1, <1>7, EndsKeeps

-----------------------------------------------------------------------------
(***************************************************************************)
(* The theorems                                                            *)
(***************************************************************************)

LEMMA InitInvariant == Init => IInv
<1> SUFFICES ASSUME Init PROVE IInv
  OBVIOUS
<1>1. [version |-> 1, running |-> TRUE] \in Match
  BY RowKinds, BoundAssumption DEF Match
<1>2. NewJob \in Job /\ NoJob \in Job
  BY BoundAssumption DEF NewJob, NoJob, Job
<1>3. IsTable(rows)
  <2>1. /\ \A r \in MatchRows : r \in Row /\ rows[r] = [version |-> 1, running |-> TRUE]
        /\ \A r \in JobRows : r \in Row /\ rows[r] \in {NewJob, NoJob}
    BY RowKinds DEF Init, Row
  <2>2. /\ \A r \in MatchRows : rows[r] \in Match
        /\ \A r \in JobRows : rows[r] \in Job
    BY <1>1, <1>2, <2>1
  <2>3. \A r \in Row : rows[r] \in Match \cup Job
    BY <2>2, RowKinds
  <2> QED
    BY <2>2, <2>3 DEF Init, IsTable
<1>4. TypeOK
  BY <1>3, IdleIsTransaction DEF Init, TypeOK, Idle
<1>5. ASSUME NEW s \in Sessions
      PROVE  SessionOK(s)
  BY SessionAssumption, RowKinds DEF Init, SessionOK, Idle
<1> QED
  BY <1>4, <1>5 DEF IInv

LEMMA StepKeepsInvariant == IInv /\ [Next]_vars => IInv'
<1> SUFFICES ASSUME IInv, [Next]_vars PROVE IInv'
  OBVIOUS
<1>1. CASE UNCHANGED vars
  BY <1>1 DEF vars, IInv, TypeOK, IsTable, SessionOK, JobLock
<1>2. ASSUME NEW s \in Sessions,
             \/ BeginCommand(s) \/ BeginClaimed(s) \/ BeginRecovery(s) \/ BeginClaim(s)
      PROVE  IInv'
  BY <1>2, BeginningsKeep
<1>3. ASSUME NEW s \in Sessions, Claim(s) PROVE IInv'
  BY <1>3, ClaimKeeps
<1>4. ASSUME NEW s \in Sessions, LockJob(s) PROVE IInv'
  BY <1>4, LockJobKeeps
<1>5. ASSUME NEW s \in Sessions, LockMatch(s) PROVE IInv'
  BY <1>5, LockMatchKeeps
<1>6. ASSUME NEW s \in Sessions, CancelJob(s) PROVE IInv'
  BY <1>6, CancelJobKeeps
<1>7. ASSUME NEW s \in Sessions, InsertJob(s) PROVE IInv'
  BY <1>7, InsertJobKeeps
<1>8. ASSUME NEW s \in Sessions, Commit(s) PROVE IInv'
  BY <1>8, CommitKeeps
<1>9. ASSUME NEW s \in Sessions, Abort(s) PROVE IInv'
  BY <1>9, RollsBackKeeps DEF Abort
<1> QED
  BY <1>1, <1>2, <1>3, <1>4, <1>5, <1>6, <1>7, <1>8, <1>9 DEF Next

(* What every session has locked, and why, at every statement of its        *)
(* transaction.                                                             *)
THEOREM Invariance == Spec => []IInv
<1>1. Init => IInv
  BY InitInvariant
<1>2. IInv /\ [Next]_vars => IInv'
  BY StepKeepsInvariant
<1> QED
  BY <1>1, <1>2, PTL DEF Spec

(* The variables have their types: matches, jobs and transactions stay      *)
(* within their bounds.                                                     *)
THEOREM TypeCorrect == Spec => []TypeOK
<1>1. IInv => TypeOK
  BY DEF IInv
<1> QED
  BY <1>1, Invariance, PTL

(* However many sessions run, never do some of them all wait for each other *)
(* (scheduled-jobs.ts:79, 280; deadline-handler.ts:275-282).                *)
THEOREM NoDeadlockAlways == Spec => []NoDeadlock
<1>1. IInv => NoDeadlock
  BY InvariantMeansNoDeadlock
<1> QED
  BY <1>1, Invariance, PTL

-----------------------------------------------------------------------------
(***************************************************************************)
(* What the transactions make of a match and its deadline: the inductive   *)
(* invariant                                                               *)
(***************************************************************************)

(* What a job is that a match can count on. *)
Live == {"pending", "processing", "failed"}

(* Of each match: while it goes on its version has a live job, and later    *)
(* versions have none yet.                                                  *)
MatchesAreServed ==
    \A m \in Matches :
        LET match == rows[MatchRow(m)]
        IN  /\ match.running => rows[<<m, match.version>>].status \in Live
            /\ \A v \in Versions : v > match.version => rows[<<m, v>>] = NoJob

(* Each kind of transaction locks what it needs in its own order: claims    *)
(* and failures no match, a command and a deadline one, and a deadline its  *)
(* job before it.                                                           *)
KindOK(s) ==
    /\ tx[s].at \in {"match", "sync"} => tx[s].kind \notin {"claim", "fail"}
    /\ tx[s].at = "match" /\ tx[s].kind # "recovery" =>
          /\ \A m \in Matches : lock[MatchRow(m)] # s
          /\ \A m \in tx[s].todo, n \in tx[s].todo : m = n
    /\ tx[s].kind = "process" /\ tx[s].at \in {"job", "match"} => tx[s].todo = {tx[s].row[1]}
    /\ tx[s].kind = "process" /\ tx[s].at \in {"match", "sync", "commit"} =>
          /\ lock[tx[s].row] = s
          /\ rows[tx[s].row].status = "processing"
          /\ view[s][tx[s].row] = rows[tx[s].row]
          /\ tx[s].at # "match" => lock[MatchRow(tx[s].row[1])] = s

(* What s makes of a job r that it has locked: one it has claimed or        *)
(* released stays live, and every other is of a match that it has locked.   *)
JobOK(s, r) ==
    /\ \/ /\ tx[s].kind \in {"claim", "fail"} /\ tx[s].at = "commit"
          /\ rows[r].status \in {"pending", "processing"} /\ view[s][r].status \in Live
       \/ tx[s].kind = "process" /\ tx[s].at = "match"
       \/ lock[MatchRow(r[1])] = s
    /\ \/ rows[r] # NoJob
       \/ lock[MatchRow(r[1])] = s /\ r[2] = view[s][MatchRow(r[1])].version

(* Match m, which s has locked, is not synchronized with its jobs yet. *)
Unsynchronized(s, m) ==
    tx[s].at = "match" \/ (tx[s].at = "sync" /\ m \in tx[s].todo)

(* What s makes of a match m that it has locked: it leaves it as it is or   *)
(* takes it further, from the version of its job if it is a deadline; once  *)
(* it is synchronized its version has a live job.                           *)
MatchOK(s, m) ==
    LET old == rows[MatchRow(m)]
        new == view[s][MatchRow(m)]
        r == <<m, new.version>>
    IN  /\ tx[s].kind \notin {"claim", "fail"}
        /\ new = old \/ (tx[s].kind # "recovery" /\ new.version > old.version)
        /\ tx[s].kind = "process" =>
              /\ m = tx[s].row[1]
              /\ new # old => tx[s].row[2] = old.version
              /\ new.running => tx[s].row[2] # new.version
        /\ new.running =>
              IF Unsynchronized(s, m) THEN lock[r] # s
              ELSE (IF lock[r] = s THEN view[s][r] ELSE rows[r]).status \in Live

Serves(s) ==
    /\ KindOK(s)
    /\ \A r \in JobRows : lock[r] = s => JobOK(s, r)
    /\ \A m \in Matches : lock[MatchRow(m)] = s => MatchOK(s, m)

DeadlineInv == MatchesAreServed /\ \A s \in Sessions : Serves(s)

-----------------------------------------------------------------------------
(***************************************************************************)
(* What a session does for others                                          *)
(***************************************************************************)

LEMMA JobsOfMatches ==
    /\ \A r \in JobRows : r = <<r[1], r[2]>> /\ r \in Row /\ MatchRow(r[1]) \in Row
    /\ \A match \in Match, m \in Matches :
          match.running => <<m, match.version>> \in JobRows
    /\ \A match \in Match : match.version \in Nat
    /\ Versions \subseteq Nat
<1>1. \A r \in JobRows : r = <<r[1], r[2]>>
  BY DEF JobRows
<1>2. \A match \in Match, m \in Matches :
         match.running => <<m, match.version>> \in JobRows
  BY DEF JobRows, Match
<1>3. \A match \in Match : match.version \in Nat
  BY BoundAssumption DEF Match
<1>4. Versions \subseteq Nat
  BY BoundAssumption DEF Versions
<1> QED
  BY <1>1, <1>2, <1>3, <1>4, RowKinds

LEMMA HoldersSeeTables ==
    ASSUME IInv, NEW s \in Sessions, NEW r \in Row, lock[r] = s
    PROVE  /\ tx[s].at \in {"match", "sync", "commit"} /\ tx[s] \in Transaction
           /\ IsTable(view[s])
BY DEF IInv, TypeOK, SessionOK

(* A session goes on serving its matches as long as others leave alone what *)
(* it has locked, and leave a live job of its matches live.                 *)
LEMMA OthersServe ==
    ASSUME IInv, NEW d \in Sessions, Serves(d),
           tx'[d] = tx[d], view'[d] = view[d],
           \A r \in Row : lock'[r] = d <=> lock[r] = d,
           \A r \in Row : lock[r] = d => rows'[r] = rows[r],
           \A r \in JobRows : lock[MatchRow(r[1])] = d /\ rows[r].status \in Live
                                 => rows'[r].status \in Live
    PROVE  Serves(d)'
<1>0. \A m \in Matches : MatchRow(m) \in Row
  BY RowKinds
<1>1. KindOK(d)'
  <2>1. tx[d].kind = "process" => tx[d].row \in Row /\ MatchRow(tx[d].row[1]) \in Row
    BY JobsOfMatches DEF IInv, SessionOK
  <2> QED
    BY <1>0, <2>1 DEF Serves, KindOK
<1>2. ASSUME NEW r \in JobRows, lock'[r] = d
      PROVE  JobOK(d, r)'
  <2>1. r \in Row /\ MatchRow(r[1]) \in Row
    BY JobsOfMatches
  <2> QED
    BY <1>2, <2>1 DEF Serves, JobOK
<1>3. ASSUME NEW m \in Matches, lock'[MatchRow(m)] = d
      PROVE  MatchOK(d, m)'
  <2>1. MatchRow(m) \in Row /\ lock[MatchRow(m)] = d
    BY <1>0, <1>3
  <2>2. view[d][MatchRow(m)] \in Match
    BY <2>1, RowKinds, HoldersSeeTables DEF IsTable
  <2>3. MatchOK(d, m)
    BY <2>1 DEF Serves
  <2>4. CASE ~view[d][MatchRow(m)].running
    BY <2>1, <2>3, <2>4 DEF MatchOK
  <2>5. CASE view[d][MatchRow(m)].running
    <3> DEFINE r == <<m, view[d][MatchRow(m)].version>>
    <3>1. r \in JobRows /\ r \in Row /\ r[1] = m
      BY <2>2, <2>5, JobsOfMatches
    <3>2. Unsynchronized(d, m)' <=> Unsynchronized(d, m)
      BY DEF Unsynchronized
    <3>3. (IF lock[r] = d THEN view[d][r] ELSE rows[r]).status \in Live
             => (IF lock[r] = d THEN view[d][r] ELSE rows'[r]).status \in Live
      BY <2>1, <3>1
    <3> QED
      BY <2>1, <2>3, <2>5, <3>1, <3>2, <3>3 DEF MatchOK
  <2> QED
    BY <2>4, <2>5
<1> QED
  BY <1>1, <1>2, <1>3 DEF Serves

(* Locking a row changes nothing that is committed. *)
LEMMA LocksServe ==
    ASSUME IInv, DeadlineInv, NEW s \in Sessions, tx[s].at # "idle",
           NEW r \in Row, NEW value, NEW t \in Transaction,
           r \in MatchRows => value \in Match,
           r \in JobRows => value \in Job,
           Locks(s, r, value, t)
    PROVE  /\ MatchesAreServed' /\ \A d \in Sessions : d # s => Serves(d)'
           /\ tx'[s] = t /\ rows' = rows
           /\ \A x \in Row : lock'[x] = IF x = r THEN s ELSE lock[x]
           /\ \A x \in Row : view'[s][x] = IF x = r THEN value ELSE view[s][x]
<1>1. /\ tx'[s] = t /\ rows' = rows
      /\ \A x \in Row : lock'[x] = IF x = r THEN s ELSE lock[x]
      /\ \A x \in Row : view'[s][x] = IF x = r THEN value ELSE view[s][x]
  BY LocksKeep
<1>2. MatchesAreServed'
  BY <1>1 DEF DeadlineInv, MatchesAreServed
<1>3. ASSUME NEW d \in Sessions, d # s
      PROVE  Serves(d)'
  <2>1. \A x \in Row : lock'[x] = d <=> lock[x] = d
    BY <1>1, <1>3, SessionAssumption DEF Locks, IsFree
  <2>2. tx'[d] = tx[d] /\ view'[d] = view[d]
    BY <1>3 DEF IInv, TypeOK, Locks
  <2> QED
    BY <1>1, <2>1, <2>2, OthersServe DEF DeadlineInv
<1> QED
  BY <1>1, <1>2, <1>3

(* The end of a transaction leaves the matches of the others served. *)
LEMMA EndsServe ==
    ASSUME IInv, DeadlineInv, NEW s \in Sessions, Ends(s), MatchesAreServed',
           \A r \in Row : lock[r] # s => rows'[r] = rows[r],
           \A r \in JobRows :
              lock[r] = s /\ lock[MatchRow(r[1])] # s /\ rows[r].status \in Live
                 => rows'[r].status \in Live
    PROVE  DeadlineInv'
<1>1. /\ tx'[s] = Idle
      /\ \A r \in Row : lock'[r] = IF lock[r] = s THEN NoOne ELSE lock[r]
      /\ \A d \in Sessions : d # s => tx'[d] = tx[d] /\ view'[d] = view[d]
  BY DEF IInv, TypeOK, Ends
<1>2. Serves(s)'
  <2>1. \A r \in Row : lock'[r] # s
    BY <1>1, SessionAssumption
  <2> QED
    BY <1>1, <2>1, RowKinds DEF Serves, KindOK, Idle
<1>3. ASSUME NEW d \in Sessions, d # s
      PROVE  Serves(d)'
  <2>1. \A r \in Row : lock'[r] = d <=> lock[r] = d
    BY <1>1, <1>3, SessionAssumption
  <2>2. \A r \in Row : lock[r] = d => rows'[r] = rows[r]
    BY <1>3
  <2>3. ASSUME NEW r \in JobRows, lock[MatchRow(r[1])] = d, rows[r].status \in Live
        PROVE  rows'[r].status \in Live
    BY <1>3, <2>3, JobsOfMatches
  <2> QED
    BY <1>1, <1>3, <2>1, <2>2, <2>3, OthersServe DEF DeadlineInv
<1> QED
  BY <1>2, <1>3 DEF DeadlineInv

LEMMA RollsBackServes ==
    ASSUME IInv, DeadlineInv, NEW s \in Sessions, RollsBack(s)
    PROVE  DeadlineInv'
<1>1. Ends(s) /\ rows' = rows
  BY DEF RollsBack
<1>2. MatchesAreServed'
  BY <1>1 DEF DeadlineInv, MatchesAreServed
<1> QED
  BY <1>1, <1>2, EndsServe

-----------------------------------------------------------------------------
(***************************************************************************)
(* The invariant is inductive                                              *)
(***************************************************************************)

(* A transaction that begins has locked nothing. *)
LEMMA BeginsServes ==
    ASSUME IInv, DeadlineInv, NEW s \in Sessions,
           NEW kind, NEW first, NEW r, NEW attempt, NEW todo,
           first \in {"claim", "job", "match"},
           first = "match" => kind \in {"command", "recovery"},
           kind = "command" => \A m \in todo, n \in todo : m = n,
           kind = "process" => todo = {r[1]},
           Begins(s, kind, first, r, attempt, todo)
    PROVE  DeadlineInv'
<1>1. /\ tx'[s] = [kind |-> kind, at |-> first, row |-> r, claim |-> attempt, todo |-> todo]
      /\ rows' = rows /\ lock' = lock
      /\ \A d \in Sessions : d # s => tx'[d] = tx[d] /\ view'[d] = view[d]
  BY DEF IInv, TypeOK, Begins
<1>2. MatchesAreServed'
  BY <1>1 DEF DeadlineInv, MatchesAreServed
<1>3. Serves(s)'
  <2>1. \A x \in Row : lock'[x] # s
    BY <1>1 DEF Begins, IInv, SessionOK
  <2> QED
    BY <1>1, <2>1, RowKinds DEF Serves, KindOK
<1>4. \A d \in Sessions : d # s => Serves(d)'
  BY <1>1, OthersServe DEF DeadlineInv
<1> QED
  BY <1>2, <1>3, <1>4 DEF DeadlineInv

LEMMA BeginningsServe ==
    ASSUME IInv, DeadlineInv, NEW s \in Sessions,
           BeginCommand(s) \/ BeginClaimed(s) \/ BeginRecovery(s) \/ BeginClaim(s)
    PROVE  DeadlineInv'
<1>1. CASE BeginCommand(s)
  <2>1. PICK m \in Matches : Begins(s, "command", "match", MatchRow(m), 0, {m})
    BY <1>1 DEF BeginCommand
  <2> QED
    BY <2>1, BeginsServes
<1>2. CASE BeginClaimed(s)
  <2>1. PICK r \in JobRows, kind \in {"process", "fail"} :
           \E attempt \in 1..rows[r].attempts :
              OwnsClaim(r, attempt) /\ Begins(s, kind, "job", r, attempt, {r[1]})
    BY <1>2 DEF BeginClaimed
  <2> QED
    BY <2>1, BeginsServes
<1>3. CASE BeginRecovery(s)
  BY <1>3, BeginsServes DEF BeginRecovery
<1>4. CASE BeginClaim(s)
  BY <1>4, BeginsServes DEF BeginClaim
<1> QED
  BY <1>1, <1>2, <1>3, <1>4

LEMMA ClaimServes ==
    ASSUME IInv, DeadlineInv, NEW s \in Sessions, Claim(s)
    PROVE  DeadlineInv'
<1>1. tx[s].at = "claim" /\ tx[s].kind = "claim" /\ tx[s] \in Transaction
  BY DEF Claim, IInv, TypeOK, SessionOK
<1>2. PICK S \in (SUBSET {r \in JobRows : Claimable(view[s][r]) /\ lock[r] = NoOne}) \ {{}} :
          IF \E r \in S : ~IsSeen(s, r)
          THEN RollsBack(s)
          ELSE /\ lock' = [r \in Row |-> IF r \in S THEN s ELSE lock[r]]
               /\ view' = [view EXCEPT ![s] = [r \in Row |->
                              IF r \in S THEN [status |-> "processing",
                                               attempts |-> view[s][r].attempts + 1]
                                         ELSE view[s][r]]]
               /\ tx' = [tx EXCEPT ![s].at = "commit"]
               /\ UNCHANGED rows
  BY DEF Claim
<1>3. CASE \E r \in S : ~IsSeen(s, r)
  BY <1>2, <1>3, RollsBackServes
<1>4. CASE ~\E r \in S : ~IsSeen(s, r)
  <2>1. /\ tx'[s] = [tx[s] EXCEPT !.at = "commit"] /\ rows' = rows
        /\ \A r \in Row : lock'[r] = IF r \in S THEN s ELSE lock[r]
        /\ \A r \in Row : r \in S => view'[s][r].status = "processing"
        /\ \A d \in Sessions : d # s => tx'[d] = tx[d] /\ view'[d] = view[d]
    BY <1>2, <1>4 DEF IInv, TypeOK
  <2>2. tx'[s].at = "commit" /\ tx'[s].kind = "claim"
    BY <1>1, <2>1 DEF Transaction
  <2>3. \A r \in S : r \in JobRows /\ r \in Row /\ Claimable(view[s][r]) /\ lock[r] = NoOne
    BY RowKinds
  <2>4. \A r \in S : rows[r].status \in {"pending", "processing"}
    BY <1>4, <2>3, SessionAssumption DEF IsSeen, Claimable
  <2>5. \A r \in Row : lock[r] # s
    BY <1>1 DEF IInv, SessionOK
  <2>6. MatchesAreServed'
    BY <2>1 DEF DeadlineInv, MatchesAreServed
  <2>7. ASSUME NEW r \in JobRows, lock'[r] = s
        PROVE  JobOK(s, r)'
    <3>1. r \in S /\ r \in Row
      BY <2>1, <2>5, <2>7, RowKinds
    <3>2. rows'[r] # NoJob /\ rows'[r].status \in {"pending", "processing"}
      BY <2>1, <2>4, <3>1 DEF NoJob
    <3>3. view'[s][r].status \in Live
      BY <2>1, <3>1 DEF Live
    <3> QED
      BY <2>2, <3>2, <3>3 DEF JobOK
  <2>8. \A m \in Matches : lock'[MatchRow(m)] # s
    BY <2>1, <2>3, <2>5, RowKinds
  <2>9. Serves(s)'
    BY <2>2, <2>7, <2>8 DEF Serves, KindOK
  <2>10. ASSUME NEW d \in Sessions, d # s
         PROVE  Serves(d)'
    <3>1. \A r \in Row : lock'[r] = d <=> lock[r] = d
      BY <2>1, <2>3, <2>10, SessionAssumption
    <3> QED
      BY <2>1, <2>10, <3>1, OthersServe DEF DeadlineInv
  <2> QED
    BY <2>6, <2>9, <2>10 DEF DeadlineInv
<1> QED
  BY <1>3, <1>4

LEMMA LockJobServes ==
    ASSUME IInv, DeadlineInv, NEW s \in Sessions, LockJob(s)
    PROVE  DeadlineInv'
<1> DEFINE t == tx[s]
           job == view[s][t.row]
<1>1. /\ t.at = "job" /\ t \in Transaction /\ t.row \in JobRows /\ t.row \in Row
      /\ t.row \notin MatchRows
      /\ t.kind \in {"process", "fail"} /\ job.status = "processing"
  BY RowKinds DEF LockJob, IInv, TypeOK, SessionOK
<1>2. job \in Job
  BY <1>1 DEF IInv, TypeOK, IsTable
<1>3. \A r \in Row : lock[r] # s
  BY <1>1 DEF IInv, SessionOK
<1>4. CASE ~IsSeen(s, t.row)
  BY <1>4, RollsBackServes DEF LockJob
<1>5. ASSUME IsSeen(s, t.row)
      PROVE  rows[t.row] = job
  BY <1>1, <1>3, <1>5 DEF IsSeen
<1>6. CASE IsSeen(s, t.row) /\ t.kind = "fail"
  <2> DEFINE u == [t EXCEPT !.at = "commit"]
  <2>1. Locks(s, t.row, Released(job), u)
    BY <1>6 DEF LockJob
  <2>2. u \in Transaction /\ u.at = "commit" /\ u.kind = "fail"
    BY <1>1, <1>6 DEF Transaction
  <2>3. Released(job) \in Job /\ Released(job).status \in Live
    BY <1>2 DEF Released, Job, Live
  <2>4. rows[t.row] = job
    BY <1>5, <1>6
  <2> HIDE DEF t, u, job
  <2>5. /\ MatchesAreServed' /\ \A d \in Sessions : d # s => Serves(d)'
        /\ tx'[s] = u /\ rows' = rows
        /\ \A x \in Row : lock'[x] = IF x = t.row THEN s ELSE lock[x]
        /\ \A x \in Row : view'[s][x] = IF x = t.row THEN Released(job) ELSE view[s][x]
    BY <1>1, <2>1, <2>2, <2>3, LocksServe DEF t
  <2>6. \A m \in Matches : lock'[MatchRow(m)] # s
    BY <1>1, <1>3, <2>5, RowKinds
  <2>7. ASSUME NEW r \in JobRows, lock'[r] = s
        PROVE  JobOK(s, r)'
    <3>1. r = t.row
      BY <1>3, <2>5, <2>7, RowKinds
    <3>2. rows'[r] = job /\ view'[s][r] = Released(job)
      BY <1>1, <2>4, <2>5, <3>1
    <3>3. job # NoJob
      BY <1>1 DEF NoJob
    <3> QED
      BY <1>1, <2>2, <2>3, <2>5, <3>2, <3>3 DEF JobOK
  <2>8. Serves(s)'
    BY <2>2, <2>5, <2>6, <2>7 DEF Serves, KindOK
  <2> QED
    BY <2>5, <2>8 DEF DeadlineInv
<1>7. CASE IsSeen(s, t.row) /\ t.kind # "fail"
  <2> DEFINE u == [t EXCEPT !.at = "match"]
  <2>1. Locks(s, t.row, job, u)
    BY <1>7 DEF LockJob
  <2>2. /\ u \in Transaction /\ u.at = "match" /\ u.kind = "process" /\ u.row = t.row
        /\ u.todo = t.todo
    BY <1>1, <1>7 DEF Transaction
  <2>3. rows[t.row] = job /\ t.todo = {t.row[1]}
    BY <1>1, <1>5, <1>7 DEF DeadlineInv, Serves, KindOK
  <2> HIDE DEF t, u, job
  <2>4. /\ MatchesAreServed' /\ \A d \in Sessions : d # s => Serves(d)'
        /\ tx'[s] = u /\ rows' = rows
        /\ \A x \in Row : lock'[x] = IF x = t.row THEN s ELSE lock[x]
        /\ \A x \in Row : view'[s][x] = IF x = t.row THEN job ELSE view[s][x]
    BY <1>1, <1>2, <2>1, <2>2, LocksServe DEF t
  <2>5. \A m \in Matches : lock'[MatchRow(m)] # s
    BY <1>1, <1>3, <2>4, RowKinds
  <2>6. lock'[t.row] = s /\ rows'[t.row] = job /\ view'[s][t.row] = job
    BY <1>1, <2>3, <2>4
  <2>7. ASSUME NEW r \in JobRows, lock'[r] = s
        PROVE  JobOK(s, r)'
    <3>1. r = t.row
      BY <1>3, <2>4, <2>7, RowKinds
    <3>2. job # NoJob
      BY <1>1 DEF NoJob
    <3> QED
      BY <2>2, <2>4, <2>6, <3>1, <3>2 DEF JobOK
  <2>8. Serves(s)'
    BY <1>1, <2>2, <2>3, <2>4, <2>5, <2>6, <2>7 DEF Serves, KindOK
  <2> QED
    BY <2>4, <2>8 DEF DeadlineInv
<1> QED
  BY <1>4, <1>6, <1>7

(* A job is locked after its match m, to be cancelled or inserted: it is    *)
(* one that was there, or the one of the version that m is to have.         *)
LEMMA SyncLocksServe ==
    ASSUME IInv, DeadlineInv, NEW s \in Sessions, tx[s].at = "sync",
           NEW m \in Matches, lock[MatchRow(m)] = s,
           NEW r \in JobRows, r[1] = m, rows[r].status \in {"pending", "absent"},
           rows[r] # NoJob \/ r[2] = view[s][MatchRow(m)].version,
           NEW value \in Job, NEW t \in Transaction,
           t.kind = tx[s].kind, t.row = tx[s].row,
           \/ /\ t = tx[s] /\ m \in tx[s].todo
              /\ r[2] # view[s][MatchRow(m)].version
           \/ /\ \/ t.at = "sync" /\ t.todo = tx[s].todo \ {m}
                 \/ t.at = "commit" /\ tx[s].todo = {m}
              /\ r[2] = view[s][MatchRow(m)].version /\ value.status \in Live,
           Locks(s, r, value, t)
    PROVE  DeadlineInv'
<1>1. r \in Row /\ r \notin MatchRows
  BY RowKinds
<1>2. /\ MatchesAreServed' /\ \A d \in Sessions : d # s => Serves(d)'
      /\ tx'[s] = t /\ rows' = rows
      /\ \A x \in Row : lock'[x] = IF x = r THEN s ELSE lock[x]
      /\ \A x \in Row : view'[s][x] = IF x = r THEN value ELSE view[s][x]
  BY <1>1, LocksServe
<1>3. \A n \in Matches : /\ MatchRow(n) \in Row /\ MatchRow(n) # r
                         /\ lock'[MatchRow(n)] = lock[MatchRow(n)]
                         /\ view'[s][MatchRow(n)] = view[s][MatchRow(n)]
  BY <1>1, <1>2, RowKinds
<1>4. Serves(s) /\ t.at \in {"sync", "commit"}
  BY DEF DeadlineInv
<1>5. KindOK(s)'
  <2>1. ASSUME t.kind = "process"
        PROVE  /\ lock'[t.row] = s /\ rows'[t.row].status = "processing"
               /\ view'[s][t.row] = rows'[t.row]
               /\ lock'[MatchRow(t.row[1])] = s
    <3>1. /\ lock[t.row] = s /\ rows[t.row].status = "processing"
          /\ view[s][t.row] = rows[t.row] /\ lock[MatchRow(t.row[1])] = s
      BY <1>4, <2>1 DEF Serves, KindOK
    <3>2. t.row \in JobRows /\ t.row \in Row /\ t.row[1] \in Matches /\ t.row # r
      BY <2>1, <3>1, RowKinds DEF IInv, SessionOK
    <3> QED
      BY <1>2, <1>3, <3>1, <3>2
  <2> QED
    BY <1>2, <1>4, <2>1 DEF Serves, KindOK
<1>6. ASSUME NEW x \in JobRows, lock'[x] = s
      PROVE  JobOK(s, x)'
  <2>1. x \in Row /\ x[1] \in Matches
    BY RowKinds
  <2>2. CASE x = r
    BY <1>2, <1>3, <2>2 DEF JobOK
  <2>3. CASE x # r
    <3>1. JobOK(s, x)
      BY <1>2, <1>4, <1>6, <2>1, <2>3 DEF Serves
    <3>2. lock[MatchRow(x[1])] = s
      BY <3>1 DEF JobOK
    <3> QED
      BY <1>2, <1>3, <2>1, <2>3, <3>1, <3>2 DEF JobOK
  <2> QED
    BY <2>2, <2>3
<1>7. ASSUME NEW n \in Matches, lock'[MatchRow(n)] = s
      PROVE  MatchOK(s, n)'
  <2> DEFINE new == view[s][MatchRow(n)]
             j == <<n, new.version>>
  <2>1. MatchOK(s, n)
    BY <1>3, <1>4, <1>7 DEF Serves
  <2>2. CASE ~new.running
    BY <1>2, <1>3, <2>1, <2>2 DEF MatchOK
  <2>3. CASE new.running
    <3>1. new \in Match
      BY <1>3, <1>7, RowKinds, HoldersSeeTables DEF IsTable
    <3>2. j \in JobRows /\ j \in Row /\ j[1] = n /\ j[2] = new.version
      BY <2>3, <3>1, JobsOfMatches
    <3>3. IF Unsynchronized(s, n)' THEN lock'[j] # s
          ELSE (IF lock'[j] = s THEN view'[s][j] ELSE rows'[j]).status \in Live
      <4>1. CASE j = r
        <5>1. n = m /\ r[2] = new.version
          BY <3>2, <4>1
        <5>2. t.at = "commit" \/ (t.at = "sync" /\ m \notin t.todo)
          BY <5>1
        <5>3. value.status \in Live
          BY <5>1
        <5>4. ~Unsynchronized(s, n)'
          BY <1>2, <5>1, <5>2 DEF Unsynchronized
        <5> QED
          BY <1>1, <1>2, <4>1, <5>3, <5>4
      <4>2. CASE j # r
        <5>1. lock'[j] = lock[j] /\ view'[s][j] = view[s][j] /\ rows'[j] = rows[j]
          BY <1>2, <3>2, <4>2
        <5>2. n = m => r[2] # new.version
          BY <4>2, JobsOfMatches
        <5>3. Unsynchronized(s, n)' <=> Unsynchronized(s, n)
          BY <1>2, <5>2 DEF Unsynchronized
        <5>4. IF Unsynchronized(s, n) THEN lock[j] # s
              ELSE (IF lock[j] = s THEN view[s][j] ELSE rows[j]).status \in Live
          BY <2>1, <2>3 DEF MatchOK
        <5> QED
          BY <5>1, <5>3, <5>4
      <4> QED
        BY <4>1, <4>2
    <3> QED
      BY <1>2, <1>3, <2>1, <2>3, <3>3 DEF MatchOK
  <2> QED
    BY <2>2, <2>3
<1>8. Serves(s)'
  BY <1>5, <1>6, <1>7 DEF Serves
<1> QED
  BY <1>2, <1>8 DEF DeadlineInv

LEMMA CancelJobServes ==
    ASSUME IInv, DeadlineInv, NEW s \in Sessions, CancelJob(s)
    PROVE  DeadlineInv'
<1> DEFINE m == Min(tx[s].todo)
<1>1. tx[s].at = "sync"
  BY DEF CancelJob
<1>2. PICK r \in Stale(view[s], m) :
         IF ~IsSeen(s, r) THEN RollsBack(s)
         ELSE Locks(s, r, [view[s][r] EXCEPT !.status = "cancelled"], tx[s])
  BY DEF CancelJob
<1>3. /\ r \in JobRows /\ r[1] = m /\ view[s][r].status = "pending"
      /\ r[2] # view[s][MatchRow(m)].version
  BY <1>2 DEF Stale
<1>4. CASE ~IsSeen(s, r)
  BY <1>2, <1>4, RollsBackServes
<1>5. CASE IsSeen(s, r)
  <2>1. [view[s][r] EXCEPT !.status = "cancelled"] \in Job
    BY <1>1, <1>3, SyncIsOfALockedMatch DEF IsTable, Job
  <2>2. /\ m \in Matches /\ m \in tx[s].todo /\ lock[MatchRow(m)] = s /\ tx[s] \in Transaction
    BY <1>1, SyncIsOfALockedMatch
  <2>3. rows[r].status \in {"pending", "absent"} /\ rows[r] # NoJob
    <3>1. CASE lock[r] = s
      <4>1. JobLock(s, r) /\ JobOK(s, r)
        BY <1>3, <3>1 DEF IInv, SessionOK, DeadlineInv, Serves
      <4> QED
        BY <1>1, <1>3, <4>1 DEF JobLock, JobOK
    <3>2. CASE lock[r] # s
      BY <1>3, <1>5, <3>2 DEF IsSeen, NoJob
    <3> QED
      BY <3>1, <3>2
  <2> HIDE DEF m
  <2> QED
    BY <1>1, <1>2, <1>3, <1>5, <2>1, <2>2, <2>3, SyncLocksServe
<1> QED
  BY <1>4, <1>5

LEMMA InsertJobServes ==
    ASSUME IInv, DeadlineInv, NEW s \in Sessions, InsertJob(s)
    PROVE  DeadlineInv'
<1> DEFINE t == tx[s]
           m == Min(t.todo)
           match == view[s][MatchRow(m)]
           r == <<m, match.version>>
           next == IF t.todo = {m} THEN [t EXCEPT !.at = "commit", !.todo = {}]
                                   ELSE [t EXCEPT !.todo = @ \ {m}]
<1>1. t.at = "sync"
  BY DEF InsertJob
<1>2. /\ t \in Transaction /\ IsTable(view[s]) /\ m \in t.todo /\ m \in Matches
      /\ lock[MatchRow(m)] = s
  BY <1>1, SyncIsOfALockedMatch
<1>3. /\ next \in Transaction /\ next.kind = t.kind /\ next.row = t.row
      /\ \/ next.at = "sync" /\ next.todo = t.todo \ {m}
         \/ next.at = "commit" /\ t.todo = {m}
  BY <1>1, <1>2 DEF Transaction
<1>4. match \in Match
  BY <1>2, RowKinds DEF IsTable
<1>5. MatchOK(s, m) /\ Unsynchronized(s, m)
  BY <1>1, <1>2 DEF DeadlineInv, Serves, Unsynchronized
<1>6. ASSUME match.running
      PROVE  r \in JobRows /\ r \in Row /\ r[1] = m /\ r[2] = match.version /\ lock[r] # s
  BY <1>2, <1>4, <1>5, <1>6, JobsOfMatches DEF MatchOK
<1>7. CASE match.running /\ ~IsSeen(s, r)
  BY <1>7, RollsBackServes DEF InsertJob
<1>8. CASE match.running /\ IsSeen(s, r) /\ view[s][r] = NoJob
  <2>1. Locks(s, r, NewJob, next)
    BY <1>8 DEF InsertJob
  <2>2. NewJob \in Job /\ NewJob.status \in Live
    BY BoundAssumption DEF NewJob, Job, Live
  <2>3. rows[r].status \in {"pending", "absent"}
    BY <1>6, <1>8 DEF IsSeen, NoJob
  <2>4. r \in JobRows /\ r[1] = m /\ r[2] = view[s][MatchRow(m)].version
    BY <1>6, <1>8
  <2>5. PICK job \in JobRows : job = r
    BY <2>4
  <2> HIDE DEF r, next, m, match
  <2> QED
    BY <1>1, <1>2, <1>3, <2>1, <2>2, <2>3, <2>4, <2>5, SyncLocksServe
<1>9. CASE ~(match.running /\ (~IsSeen(s, r) \/ view[s][r] = NoJob))
  <2>1. tx' = [tx EXCEPT ![s] = next] /\ UNCHANGED <<rows, lock, view>>
    BY <1>9 DEF InsertJob
  <2>2. ASSUME match.running
        PROVE  rows[r].status \in Live
    <3>1. rows[r] # NoJob
      BY <1>6, <1>9, <2>2 DEF IsSeen
    <3>2. rows[MatchRow(m)] \in Match
      BY <1>2, RowKinds DEF IInv, TypeOK, IsTable
    <3>3. ~(match.version > rows[MatchRow(m)].version)
      <4>1. match.version \in Versions
        BY <1>4, <2>2 DEF Match
      <4> QED
        BY <1>2, <3>1, <4>1 DEF DeadlineInv, MatchesAreServed
    <3>4. match = rows[MatchRow(m)]
      BY <1>5, <3>3 DEF MatchOK
    <3> QED
      BY <1>2, <2>2, <3>4 DEF DeadlineInv, MatchesAreServed
  <2> HIDE DEF next
  <2>3. tx'[s] = next /\ \A d \in Sessions : d # s => tx'[d] = tx[d]
    BY <2>1 DEF IInv, TypeOK
  <2>4. MatchesAreServed'
    BY <2>1 DEF DeadlineInv, MatchesAreServed
  <2>5. \A d \in Sessions : d # s => Serves(d)'
    BY <2>1, <2>3, OthersServe DEF DeadlineInv
  <2>6. KindOK(s)'
    BY <1>1, <1>3, <2>1, <2>3 DEF DeadlineInv, Serves, KindOK
  <2>7. ASSUME NEW x \in JobRows, lock'[x] = s
        PROVE  JobOK(s, x)'
    <3>1. JobOK(s, x)
      BY <2>1, <2>7 DEF DeadlineInv, Serves
    <3> QED
      BY <1>1, <2>1, <3>1 DEF JobOK
  <2>8. ASSUME NEW n \in Matches, lock'[MatchRow(n)] = s
        PROVE  MatchOK(s, n)'
    <3>1. MatchOK(s, n)
      BY <2>1, <2>8 DEF DeadlineInv, Serves
    <3>2. CASE n = m
      BY <1>3, <1>6, <2>1, <2>2, <2>3, <3>1, <3>2 DEF MatchOK
    <3>3. CASE n # m
      <4>1. Unsynchronized(s, n)' <=> Unsynchronized(s, n)
        BY <1>1, <1>3, <2>3, <3>3 DEF Unsynchronized
      <4> QED
        BY <1>3, <2>1, <2>3, <3>1, <4>1 DEF MatchOK
    <3> QED
      BY <3>2, <3>3
  <2>9. Serves(s)'
    BY <2>6, <2>7, <2>8 DEF Serves
  <2> QED
    BY <2>4, <2>5, <2>9 DEF DeadlineInv
<1> QED
  BY <1>7, <1>8, <1>9

(* What a match that goes on to new becomes by each kind of transaction. *)
LEMMA OutcomesGoOn ==
    ASSUME NEW t \in Transaction, t.kind \in {"command", "process", "recovery"},
           NEW match \in Match, NEW new \in Outcomes(t, match)
    PROVE  /\ new = match \/ (t.kind # "recovery" /\ new.version > match.version)
           /\ t.kind = "process" =>
                 /\ new # match => t.row[2] = match.version
                 /\ new.running => t.row[2] # new.version
<1>1. match.version \in Nat
  BY JobsOfMatches
<1>2. CASE t.kind = "command"
  BY <1>2 DEF Outcomes
<1>3. CASE t.kind = "process"
  <2>1. CASE IsCurrent(match, t.row)
    BY <1>1, <1>3, <2>1 DEF Outcomes, IsCurrent
  <2>2. CASE ~IsCurrent(match, t.row)
    BY <1>3, <2>2 DEF Outcomes, IsCurrent
  <2> QED
    BY <2>1, <2>2
<1>4. CASE t.kind = "recovery"
  BY <1>4 DEF Outcomes
<1> QED
  BY <1>2, <1>3, <1>4

LEMMA LockMatchServes ==
    ASSUME IInv, DeadlineInv, NEW s \in Sessions, LockMatch(s)
    PROVE  DeadlineInv'
<1> DEFINE t == tx[s]
           m == Min(t.todo)
           match == view[s][MatchRow(m)]
           locked == {n \in Matches : lock[MatchRow(n)] = s} \cup {m}
           After(new) == IF t.todo # {m} THEN [t EXCEPT !.todo = @ \ {m}]
                         ELSE IF t.kind # "recovery" /\ new = match
                              THEN [t EXCEPT !.at = "commit"]
                              ELSE [t EXCEPT !.at = "sync", !.todo = locked]
<1>1. /\ t.at = "match" /\ t \in Transaction /\ IsTable(view[s])
      /\ t.todo \in SUBSET Matches /\ t.todo # {}
      /\ t.kind \in {"command", "process", "recovery"}
  BY DEF LockMatch, IInv, TypeOK, SessionOK, Transaction, DeadlineInv, Serves, KindOK
<1>2. m \in t.todo /\ m \in Matches
  BY <1>1, MinIsFirst
<1>3. match \in Match
  BY <1>1, <1>2, RowKinds DEF IsTable
<1>4. CASE ~IsSeen(s, MatchRow(m))
  BY <1>4, RollsBackServes DEF LockMatch
<1>5. CASE IsSeen(s, MatchRow(m))
  <2>1. PICK new \in Outcomes(t, match) : Locks(s, MatchRow(m), new, After(new))
    BY <1>5 DEF LockMatch
  <2>2. new \in Match
    BY <1>3, OutcomesAreMatches
  <2>3. PICK u \in Transaction : u = After(new)
    BY <1>1, <1>2 DEF Transaction
  <2>4. /\ u.kind = t.kind /\ u.row = t.row
        /\ \/ u.at = "match" /\ u.todo = t.todo \ {m} /\ t.todo # {m}
           \/ u.at = "commit" /\ t.kind # "recovery" /\ new = match
           \/ u.at = "sync" /\ u.todo = locked
    BY <1>1, <2>3 DEF Transaction
  <2>5. PICK k \in Matches : k = m
    BY <1>2
  <2>6. /\ MatchesAreServed' /\ \A d \in Sessions : d # s => Serves(d)'
        /\ tx'[s] = u /\ rows' = rows
        /\ \A x \in Row : lock'[x] = IF x = MatchRow(k) THEN s ELSE lock[x]
        /\ \A x \in Row : view'[s][x] = IF x = MatchRow(k) THEN new ELSE view[s][x]
    <3> HIDE DEF After
    <3> QED
      BY <1>1, <2>1, <2>2, <2>3, <2>5, LocksServe, RowKinds
  <2>7. rows[MatchRow(k)] = match
    <3>1. lock[MatchRow(k)] # s
      BY <1>1, <1>2, <2>5, RowKinds DEF IInv, SessionOK
    <3> QED
      BY <1>5, <2>5, <3>1 DEF IsSeen
  <2>8. /\ new = match \/ (t.kind # "recovery" /\ new.version > match.version)
        /\ t.kind = "process" =>
              /\ new # match => t.row[2] = match.version
              /\ new.running => t.row[2] # new.version
    BY <1>1, <1>3, OutcomesGoOn
  <2>9. t.kind # "recovery" => t.todo = {k} /\ \A n \in Matches : lock[MatchRow(n)] # s
    BY <1>1, <1>2, <2>5 DEF DeadlineInv, Serves, KindOK
  <2>10. t.kind = "process" =>
            /\ t.row \in JobRows /\ t.row[1] = k /\ lock[t.row] = s
            /\ rows[t.row].status = "processing" /\ view[s][t.row] = rows[t.row]
    <3>1. ASSUME t.kind = "process"
          PROVE  /\ t.row \in JobRows /\ t.todo = {t.row[1]} /\ lock[t.row] = s
                 /\ rows[t.row].status = "processing" /\ view[s][t.row] = rows[t.row]
      BY <1>1, <3>1 DEF DeadlineInv, Serves, KindOK, IInv, SessionOK
    <3> QED
      BY <1>2, <2>5, <3>1
  <2>11. \A x \in JobRows : /\ x \in Row /\ x # MatchRow(k) /\ lock'[x] = lock[x]
                            /\ view'[s][x] = view[s][x]
    BY <2>6, RowKinds
  <2>12. \A x \in JobRows : lock[x] = s => t.kind = "process" /\ x = t.row
    BY <1>1, <2>11 DEF IInv, SessionOK, JobLock
  <2>13. MatchRow(k) \in Row /\ lock'[MatchRow(k)] = s /\ view'[s][MatchRow(k)] = new
    BY <2>6, RowKinds
  <2>14. KindOK(s)'
    BY <1>1, <2>4, <2>5, <2>6, <2>9, <2>10, <2>11, <2>13 DEF KindOK
  <2>15. ASSUME NEW x \in JobRows, lock'[x] = s
         PROVE  JobOK(s, x)'
    <3>1. t.kind = "process" /\ x = t.row
      BY <2>11, <2>12, <2>15
    <3> QED
      BY <2>6, <2>10, <2>13, <3>1 DEF JobOK, NoJob
  <2>16. ASSUME NEW n \in Matches, lock'[MatchRow(n)] = s
         PROVE  MatchOK(s, n)'
    <3>1. CASE n = k
      <4> DEFINE r == <<k, new.version>>
      <4>1. ASSUME new.running
            PROVE  r \in JobRows /\ lock'[r] # s
        <5>1. r \in JobRows /\ r[2] = new.version
          BY <2>2, <4>1, JobsOfMatches
        <5> QED
          BY <2>8, <2>11, <2>12, <4>1, <5>1
      <4>2. ASSUME new.running, ~Unsynchronized(s, k)'
            PROVE  rows[r].status \in Live
        <5>1. new = match
          BY <2>4, <2>5, <2>6, <4>2 DEF Unsynchronized
        <5> QED
          BY <2>7, <4>2, <5>1 DEF DeadlineInv, MatchesAreServed
      <4> HIDE DEF After, locked, m, match
      <4> QED
        BY <1>1, <2>4, <2>6, <2>7, <2>8, <2>10, <2>13, <3>1, <4>1, <4>2 DEF MatchOK
    <3>2. CASE n # k
      <4>1. /\ MatchRow(n) \in Row /\ lock[MatchRow(n)] = s
            /\ view'[s][MatchRow(n)] = view[s][MatchRow(n)]
        BY <2>6, <2>16, <3>2, RowKinds
      <4>2. t.kind = "recovery"
        BY <2>9, <4>1
      <4>3. MatchOK(s, n) /\ Unsynchronized(s, n)
        BY <1>1, <4>1 DEF DeadlineInv, Serves, Unsynchronized
      <4>4. Unsynchronized(s, n)'
        BY <2>4, <2>6, <4>1, <4>2 DEF Unsynchronized
      <4>5. view[s][MatchRow(n)] \in Match
        BY <1>1, <4>1, RowKinds DEF IsTable
      <4>6. view[s][MatchRow(n)].running =>
               LET j == <<n, view[s][MatchRow(n)].version>>
               IN  j \in JobRows /\ lock'[j] = lock[j]
        BY <2>11, <4>5, JobsOfMatches
      <4> HIDE DEF After, locked, m, match
      <4> QED
        BY <2>4, <2>6, <4>1, <4>2, <4>3, <4>4, <4>6 DEF MatchOK
    <3> QED
      BY <3>1, <3>2
  <2>17. Serves(s)'
    BY <2>14, <2>15, <2>16 DEF Serves
  <2> QED
    BY <2>6, <2>17 DEF DeadlineInv
<1> QED
  BY <1>4, <1>5

(* What a commit makes of the rows its session has locked. *)
LEMMA CommittedRows ==
    ASSUME IInv, DeadlineInv, NEW s \in Sessions, Commit(s)
    PROVE  /\ Ends(s) /\ tx[s].at = "commit"
           /\ \A r \in Row : lock[r] # s => rows'[r] = rows[r]
           /\ \A m \in Matches : lock[MatchRow(m)] = s =>
                 rows'[MatchRow(m)] = view[s][MatchRow(m)] /\ MatchOK(s, m)
           /\ \A r \in JobRows : lock[r] = s =>
                 /\ tx[s].kind # "process" \/ r # tx[s].row => rows'[r] = view[s][r]
                 /\ JobOK(s, r)
           /\ tx[s].kind = "process" =>
                 /\ tx[s].row \in JobRows /\ rows[tx[s].row].status = "processing"
                 /\ rows'[tx[s].row].status = "completed"
<1>1. /\ rows' = [r \in Row |-> IF lock[r] = s THEN Committed(s, r) ELSE rows[r]]
      /\ Ends(s) /\ tx[s].at = "commit"
  BY DEF Commit
<1>2. \A r \in MatchRows : r \in Row /\ r \notin JobRows
  BY RowKinds DEF Row
<1>3. tx[s].kind = "process" =>
         tx[s].row \in JobRows /\ tx[s].row \in Row /\ lock[tx[s].row] = s
         /\ rows[tx[s].row].status = "processing"
  BY <1>1, RowKinds DEF IInv, SessionOK, DeadlineInv, Serves, KindOK
<1>4. ASSUME NEW m \in Matches, lock[MatchRow(m)] = s
      PROVE  rows'[MatchRow(m)] = view[s][MatchRow(m)] /\ MatchOK(s, m)
  BY <1>1, <1>2, <1>3, <1>4, RowKinds DEF Committed, DeadlineInv, Serves
<1>5. ASSUME NEW r \in JobRows, lock[r] = s
      PROVE  /\ tx[s].kind # "process" \/ r # tx[s].row => rows'[r] = view[s][r]
             /\ JobOK(s, r)
  BY <1>1, <1>5, RowKinds DEF Committed, DeadlineInv, Serves
<1>6. ASSUME tx[s].kind = "process"
      PROVE  rows'[tx[s].row].status = "completed"
  <2>1. view[s][tx[s].row] \in Job
    BY <1>1, <1>3, <1>6 DEF IInv, TypeOK, IsTable
  <2> QED
    BY <1>1, <1>3, <1>6, <2>1 DEF Committed, Job
<1> QED
  BY <1>1, <1>3, <1>4, <1>5, <1>6

LEMMA CommitServes ==
    ASSUME IInv, DeadlineInv, NEW s \in Sessions, Commit(s)
    PROVE  DeadlineInv'
<1>1. /\ Ends(s) /\ tx[s].at = "commit"
      /\ \A r \in Row : lock[r] # s => rows'[r] = rows[r]
  BY CommittedRows
<1>2. ASSUME NEW r \in JobRows, lock[r] = s, lock[MatchRow(r[1])] # s
      PROVE  /\ rows[r].status \in {"pending", "processing"} /\ rows[r] # NoJob
             /\ rows'[r].status \in Live
  <2>1. JobOK(s, r) /\ (tx[s].kind # "process" => rows'[r] = view[s][r])
    BY <1>2, CommittedRows
  <2> QED
    BY <1>1, <1>2, <2>1 DEF JobOK
<1>3. ASSUME NEW m \in Matches
      PROVE  /\ rows'[MatchRow(m)].running =>
                   rows'[<<m, rows'[MatchRow(m)].version>>].status \in Live
             /\ \A v \in Versions : v > rows'[MatchRow(m)].version => rows'[<<m, v>>] = NoJob
  <2> DEFINE old == rows[MatchRow(m)]
             new == rows'[MatchRow(m)]
             r == <<m, new.version>>
  <2>1. MatchRow(m) \in Row /\ MatchRow(m) \in MatchRows /\ old \in Match /\ old.version \in Nat
    BY RowKinds, JobsOfMatches DEF IInv, TypeOK, IsTable
  <2>2. /\ old.running => rows[<<m, old.version>>].status \in Live
        /\ \A v \in Versions : v > old.version => rows[<<m, v>>] = NoJob
    BY DEF DeadlineInv, MatchesAreServed
  <2>3. \A v \in Versions : <<m, v>> \in JobRows /\ <<m, v>> \in Row
    BY RowKinds
  <2>4. CASE lock[MatchRow(m)] = s
    <3>1. new = view[s][MatchRow(m)] /\ MatchOK(s, m)
      BY <2>4, CommittedRows
    <3>2. new \in Match /\ new.version \in Nat
      BY <2>1, <2>4, <3>1, JobsOfMatches, HoldersSeeTables DEF IsTable
    <3>3. ASSUME new.running
          PROVE  rows'[r].status \in Live
      <4>1. r \in JobRows /\ r \in Row /\ r[1] = m /\ r[2] = new.version
        BY <3>2, <3>3, JobsOfMatches
      <4>2. (IF lock[r] = s THEN view[s][r] ELSE rows[r]).status \in Live
        BY <1>1, <3>1, <3>3 DEF MatchOK, Unsynchronized
      <4>3. CASE lock[r] = s
        <5>1. tx[s].kind = "process" => r # tx[s].row
          BY <3>1, <3>3, <4>1 DEF MatchOK
        <5>2. rows'[r] = view[s][r]
          BY <4>1, <4>3, <5>1, CommittedRows
        <5> QED
          BY <4>2, <4>3, <5>2
      <4>4. CASE lock[r] # s
        BY <1>1, <4>1, <4>2, <4>4
      <4> QED
        BY <4>3, <4>4
    <3>4. ASSUME NEW v \in Versions, v > new.version
          PROVE  rows'[<<m, v>>] = NoJob
      <4>1. v \in Nat /\ (new = old \/ new.version > old.version)
        BY <3>1, JobsOfMatches DEF MatchOK
      <4>2. rows[<<m, v>>] = NoJob
        BY <2>1, <2>2, <3>2, <3>4, <4>1
      <4>3. lock[<<m, v>>] # s
        <5>1. SUFFICES ASSUME lock[<<m, v>>] = s PROVE FALSE
          OBVIOUS
        <5>2. JobOK(s, <<m, v>>)
          BY <2>3, <5>1, CommittedRows
        <5>3. v = view[s][MatchRow(m)].version
          BY <4>2, <5>2 DEF JobOK
        <5> QED
          BY <3>1, <3>2, <3>4, <4>1, <5>3
      <4> QED
        BY <1>1, <2>3, <4>2, <4>3
    <3> QED
      BY <3>3, <3>4
  <2>5. CASE lock[MatchRow(m)] # s
    <3>1. new = old
      BY <1>1, <2>1, <2>5
    <3>2. ASSUME NEW v \in Versions, rows[<<m, v>>].status \in Live
          PROVE  rows'[<<m, v>>].status \in Live
      BY <1>1, <1>2, <2>3, <2>5, <3>2
    <3>3. ASSUME NEW v \in Versions, rows[<<m, v>>] = NoJob
          PROVE  rows'[<<m, v>>] = NoJob
      BY <1>1, <1>2, <2>3, <2>5, <3>3
    <3>4. old.running => old.version \in Versions
      BY <2>1 DEF Match
    <3> QED
      BY <2>2, <3>1, <3>2, <3>3, <3>4
  <2> QED
    BY <2>4, <2>5
<1>4. MatchesAreServed'
  BY <1>3 DEF MatchesAreServed
<1> QED
  BY <1>1, <1>2, <1>4, EndsServe

LEMMA InitServes == Init => DeadlineInv
<1> SUFFICES ASSUME Init PROVE DeadlineInv
  OBVIOUS
<1>1. \A r \in Row : lock[r] = NoOne
  BY DEF Init
<1>2. \A s \in Sessions : Serves(s)
  BY <1>1, SessionAssumption, RowKinds DEF Init, Serves, KindOK, Idle
<1>3. ASSUME NEW m \in Matches
      PROVE  /\ rows[MatchRow(m)].version = 1
             /\ rows[<<m, 1>>] = NewJob
             /\ \A v \in Versions : v > 1 => rows[<<m, v>>] = NoJob
  <2>1. MatchRow(m) \in Row /\ MatchRow(m) \in MatchRows /\ <<m, 1>> \in JobRows
    BY RowKinds
  <2>2. \A v \in Versions : /\ <<m, v>> \in Row /\ <<m, v>> \notin MatchRows
                            /\ v \in Nat
    BY RowKinds, JobsOfMatches
  <2>3. rows[MatchRow(m)] = [version |-> 1, running |-> TRUE]
    BY <2>1 DEF Init
  <2>4. rows[MatchRow(m)].version = 1
    BY <2>3
  <2> QED
    BY <2>1, <2>2, <2>4, RowKinds DEF Init
<1>4. NewJob.status \in Live
  BY DEF NewJob, Live
<1>5. MatchesAreServed
  <2> SUFFICES ASSUME NEW m \in Matches
               PROVE  /\ rows[MatchRow(m)].running =>
                            rows[<<m, rows[MatchRow(m)].version>>].status \in Live
                      /\ \A v \in Versions : v > rows[MatchRow(m)].version
                                                => rows[<<m, v>>] = NoJob
    BY DEF MatchesAreServed
  <2> QED
    BY <1>3, <1>4
<1> QED
  BY <1>2, <1>5 DEF DeadlineInv

LEMMA StepServes == IInv /\ DeadlineInv /\ [Next]_vars => DeadlineInv'
<1> SUFFICES ASSUME IInv, DeadlineInv, [Next]_vars PROVE DeadlineInv'
  OBVIOUS
<1>1. CASE UNCHANGED vars
  <2>1. rows' = rows /\ lock' = lock /\ view' = view /\ tx' = tx
    BY <1>1 DEF vars
  <2>2. MatchesAreServed'
    BY <2>1 DEF DeadlineInv, MatchesAreServed
  <2>3. \A d \in Sessions : Serves(d)'
    BY <2>1, OthersServe DEF DeadlineInv
  <2> QED
    BY <2>2, <2>3 DEF DeadlineInv
<1>2. ASSUME NEW s \in Sessions,
             \/ BeginCommand(s) \/ BeginClaimed(s) \/ BeginRecovery(s) \/ BeginClaim(s)
      PROVE  DeadlineInv'
  BY <1>2, BeginningsServe
<1>3. ASSUME NEW s \in Sessions, Claim(s) PROVE DeadlineInv'
  BY <1>3, ClaimServes
<1>4. ASSUME NEW s \in Sessions, LockJob(s) PROVE DeadlineInv'
  BY <1>4, LockJobServes
<1>5. ASSUME NEW s \in Sessions, LockMatch(s) PROVE DeadlineInv'
  BY <1>5, LockMatchServes
<1>6. ASSUME NEW s \in Sessions, CancelJob(s) PROVE DeadlineInv'
  BY <1>6, CancelJobServes
<1>7. ASSUME NEW s \in Sessions, InsertJob(s) PROVE DeadlineInv'
  BY <1>7, InsertJobServes
<1>8. ASSUME NEW s \in Sessions, Commit(s) PROVE DeadlineInv'
  BY <1>8, CommitServes
<1>9. ASSUME NEW s \in Sessions, Abort(s) PROVE DeadlineInv'
  BY <1>9, RollsBackServes DEF Abort
<1> QED
  BY <1>1, <1>2, <1>3, <1>4, <1>5, <1>6, <1>7, <1>8, <1>9 DEF Next

-----------------------------------------------------------------------------
(***************************************************************************)
(* The theorems                                                            *)
(***************************************************************************)

(* Every transaction leaves the matches it has locked with a live job. *)
THEOREM MatchesAreAlwaysServed == Spec => []DeadlineInv
<1>1. Init => DeadlineInv
  BY InitServes
<1>2. IInv /\ DeadlineInv /\ [Next]_vars => DeadlineInv'
  BY StepServes
<1> QED
  BY <1>1, <1>2, Invariance, PTL DEF Spec

(* DeadlineIsKept: however the statements of commands, deadlines, claims    *)
(* and recovery interleave, a match that goes on has the job of its version *)
(* (scheduled-jobs.ts:59-116, deadline-handler.ts:286-303).                 *)
THEOREM DeadlineIsKeptAlways == Spec => []DeadlineIsKept
<1>1. DeadlineInv => DeadlineIsKept
  BY DEF DeadlineInv, MatchesAreServed, DeadlineIsKept, Live
<1> QED
  BY <1>1, MatchesAreAlwaysServed, PTL

(* AdvanceSpendsItsJob: no version is advanced by two deadlines, or by one  *)
(* that loaded what a command has changed (deadline-handler.ts:277-314).    *)
THEOREM AdvanceIsExclusive == Spec => AdvanceSpendsItsJob
<1> DEFINE Spent(m) ==
              rows'[MatchRow(m)] # rows[MatchRow(m)] =>
                 \/ \E s \in Sessions : tx[s].kind = "command" /\ tx[s].at = "commit"
                                        /\ tx'[s].at = "idle"
                 \/ /\ rows[<<m, rows[MatchRow(m)].version>>].status = "processing"
                    /\ rows'[<<m, rows[MatchRow(m)].version>>].status = "completed"
<1>1. ASSUME IInv, DeadlineInv, Next, NEW m \in Matches, rows'[MatchRow(m)] # rows[MatchRow(m)]
      PROVE  Spent(m)
  <2>1. PICK s \in Sessions : Commit(s)
    BY <1>1 DEF Next, BeginCommand, BeginClaimed, BeginRecovery, BeginClaim, Begins, Claim,
                LockJob, LockMatch, CancelJob, InsertJob, Abort, Locks, RollsBack
  <2>2. MatchRow(m) \in Row
    BY RowKinds
  <2>3. lock[MatchRow(m)] = s
    BY <1>1, <2>1, <2>2, CommittedRows
  <2>4. MatchOK(s, m) /\ rows'[MatchRow(m)] = view[s][MatchRow(m)] /\ tx[s].at = "commit"
    BY <1>1, <2>1, <2>3, CommittedRows
  <2>5. tx[s].kind \in {"command", "process"}
    BY <1>1, <2>4 DEF MatchOK, IInv, TypeOK, Transaction
  <2>6. CASE tx[s].kind = "command"
    <3>1. tx'[s].at = "idle"
      BY <1>1, <2>1 DEF Commit, Ends, Idle, IInv, TypeOK
    <3> QED
      BY <2>4, <2>6, <3>1
  <2>7. CASE tx[s].kind = "process"
    <3>1. /\ tx[s].row \in JobRows /\ rows[tx[s].row].status = "processing"
          /\ rows'[tx[s].row].status = "completed"
      BY <1>1, <2>1, <2>7, CommittedRows
    <3>2. tx[s].row[1] = m /\ tx[s].row[2] = rows[MatchRow(m)].version
      BY <1>1, <2>4, <2>7 DEF MatchOK
    <3>3. tx[s].row = <<m, rows[MatchRow(m)].version>>
      BY <3>1, <3>2, JobsOfMatches
    <3> QED
      BY <3>1, <3>3
  <2> QED
    BY <2>5, <2>6, <2>7
<1>2. IInv /\ DeadlineInv /\ [Next]_vars => [\A m \in Matches : Spent(m)]_vars
  BY <1>1
<1>3. [\A m \in Matches : Spent(m)]_vars =>
         [\A m \in Matches :
             LET old == rows[MatchRow(m)]
                 job == <<m, old.version>>
             IN  rows'[MatchRow(m)] # old =>
                    \/ \E s \in Sessions : tx[s].kind = "command" /\ tx[s].at = "commit"
                                           /\ tx'[s].at = "idle"
                    \/ rows[job].status = "processing" /\ rows'[job].status = "completed"]_vars
  OBVIOUS
<1> QED
  BY <1>2, <1>3, Invariance, MatchesAreAlwaysServed, PTL DEF Spec, AdvanceSpendsItsJob
=============================================================================
