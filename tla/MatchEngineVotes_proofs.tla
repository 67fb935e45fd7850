---------------------- MODULE MatchEngineVotes_proofs ----------------------
(***************************************************************************)
(* Theorems about MatchEngine that count: what becomes of every vote, and  *)
(* how far a match is from its end, for every roster and every bound.      *)
(* MatchEngine_proofs has the invariant they build on.                     *)
(***************************************************************************)
EXTENDS MatchEngine_proofs

-----------------------------------------------------------------------------
(***************************************************************************)
(* Totals                                                                  *)
(*                                                                         *)
(* TotalOf folds a recursive function over the elements in the order in    *)
(* which CHOOSE picks them.  No induction is needed to know its value: a   *)
(* function that satisfies the equation shows that there is one, and among *)
(* the parts of the domain where two of them differ there is a smallest.   *)
(***************************************************************************)

(* In a non-empty family of subsets of a finite set one has no other below it. *)
LEMMA SmallestSubset ==
    ASSUME NEW S, IsFiniteSet(S), NEW F \in SUBSET SUBSET S, F # {}
    PROVE  \E A \in F : \A B \in F : ~(B \subseteq A /\ B # A)
<1>1. F \subseteq FiniteSubsetsOf(S)
  BY FS_Subset DEF FiniteSubsetsOf
<1>2. IsWellFoundedOn(StrictSubsetOrdering(S), FiniteSubsetsOf(S))
  BY FS_StrictSubsetOrderingWellFounded
<1>3. PICK A \in F : \A B \in F : <<B, A>> \notin StrictSubsetOrdering(S)
  BY <1>1, <1>2, WFMin
<1> QED
  BY <1>3 DEF StrictSubsetOrdering

(* The one value of a total: whatever h makes of every part of the domain, *)
(* if it starts at 0 and each element adds its own, is what the fold makes. *)
LEMMA TotalIs ==
    ASSUME NEW D, IsFiniteSet(D), NEW f \in [D -> Nat], NEW h \in [SUBSET D -> Nat],
           h[{}] = 0,
           \A s \in SUBSET D : \A x \in s : h[s] = f[x] + h[s \ {x}]
    PROVE  TotalOf(f) = h[D]
<1> DEFINE chosen(s) == CHOOSE x \in s : TRUE
           Unfolds(g) == g = [s \in SUBSET D |->
                                 IF s = {} THEN 0 ELSE f[chosen(s)] + g[s \ {chosen(s)}]]
           fold == CHOOSE g : Unfolds(g)
<1>1. TotalOf(f) = fold[D]
  BY DEF TotalOf, MapThenSumSet, MapThenFoldSet
<1>2. \A s \in SUBSET D : s # {} => chosen(s) \in s
  OBVIOUS
<1> HIDE DEF chosen
<1>3. Unfolds(h)
  <2>1. ASSUME NEW s \in SUBSET D
        PROVE  h[s] = IF s = {} THEN 0 ELSE f[chosen(s)] + h[s \ {chosen(s)}]
    BY <1>2
  <2> QED
    BY <2>1, Zenon
<1>4. Unfolds(fold)
  <2> HIDE DEF Unfolds
  <2> QED
    BY <1>3, Zenon
<1>5. \A s \in SUBSET D : fold[s] = IF s = {} THEN 0
                                    ELSE f[chosen(s)] + fold[s \ {chosen(s)}]
  <2> HIDE DEF fold
  <2> QED
    BY <1>4, Zenon
<1> DEFINE Wrong == {s \in SUBSET D : fold[s] # h[s]}
<1> HIDE DEF fold
<1>6. ASSUME Wrong # {}
      PROVE  FALSE
  <2>1. Wrong \in SUBSET SUBSET D
    OBVIOUS
  <2>2. PICK A \in Wrong : \A B \in Wrong : ~(B \subseteq A /\ B # A)
    <3> HIDE DEF Wrong
    <3> QED
      BY <1>6, <2>1, SmallestSubset
  <2>3. A \in SUBSET D /\ fold[A] # h[A]
    OBVIOUS
  <2>4. A # {}
    BY <1>5, <2>3
  <2>5. chosen(A) \in A
    BY <1>2, <2>3, <2>4
  <2>6. A \ {chosen(A)} \notin Wrong
    BY <2>2, <2>5
  <2>7. fold[A \ {chosen(A)}] = h[A \ {chosen(A)}]
    BY <2>3, <2>6
  <2> QED
    BY <1>5, <2>3, <2>4, <2>5, <2>7
<1> QED
  BY <1>1, <1>6

(* A total counts pairs: each element with the numbers up to its value. *)
PairsOf(f, s) == UNION {{p} \X (1..f[p]) : p \in s}

(* The pairs of one element are as many as its value. *)
LEMMA PairsOfOne ==
    ASSUME NEW n \in Nat, NEW p
    PROVE  IsFiniteSet({p} \X (1..n)) /\ Cardinality({p} \X (1..n)) = n
<1>1. IsFiniteSet(1..n) /\ Cardinality(1..n) = n
  BY FS_Interval
<1>2. IsFiniteSet({p}) /\ Cardinality({p}) = 1
  BY FS_Singleton
<1>3. /\ IsFiniteSet({p} \X (1..n))
      /\ Cardinality({p} \X (1..n)) = Cardinality({p}) * Cardinality(1..n)
  BY <1>1, <1>2, FS_Product
<1> QED
  BY <1>1, <1>2, <1>3

(* A finite set of elements has finitely many pairs. *)
LEMMA PairsAreFinite ==
    ASSUME NEW S, IsFiniteSet(S), NEW f \in [S -> Nat]
    PROVE  IsFiniteSet(PairsOf(f, S))
<1> DEFINE parts == {{p} \X (1..f[p]) : p \in S}
           g == [p \in S |-> {p} \X (1..f[p])]
<1>1. IsFiniteSet(parts)
  <2>1. g \in Surjection(S, parts)
    BY DEF Surjection
  <2> HIDE DEF g, parts
  <2> QED
    BY <2>1, FS_Surjection
<1>2. \A T \in parts : IsFiniteSet(T)
  <2>1. \A p \in S : IsFiniteSet({p} \X (1..f[p]))
    <3>1. \A p \in S : f[p] \in Nat
      OBVIOUS
    <3> QED
      BY <3>1, PairsOfOne
  <2> QED
    BY <2>1
<1> HIDE DEF parts
<1>3. IsFiniteSet(UNION parts)
  BY <1>1, <1>2, FS_UNION
<1> QED
  BY <1>3 DEF PairsOf, parts

(* Each element of a part adds its own value to the pairs of the part. *)
LEMMA PairsWithOneMore ==
    ASSUME NEW S, IsFiniteSet(S), NEW f \in [S -> Nat], NEW s \in SUBSET S, NEW x \in s
    PROVE  /\ Cardinality(PairsOf(f, s \ {x})) \in Nat
           /\ Cardinality(PairsOf(f, s)) = Cardinality(PairsOf(f, s \ {x})) + f[x]
<1> DEFINE A == PairsOf(f, s \ {x})
           B == {x} \X (1..f[x])
<1>1. PairsOf(f, s) = A \cup B /\ A \cap B = {}
  BY DEF PairsOf
<1>2. IsFiniteSet(A) /\ Cardinality(A) \in Nat
  <2>1. IsFiniteSet(PairsOf(f, S)) /\ A \subseteq PairsOf(f, S)
    BY PairsAreFinite DEF PairsOf
  <2> QED
    BY <2>1, FS_Subset, FS_CardinalityType
<1>3. f[x] \in Nat /\ IsFiniteSet(B) /\ Cardinality(B) = f[x]
  BY PairsOfOne
<1> HIDE DEF A, B
<1>4. Cardinality(A \cup B) = Cardinality(A) + Cardinality(B) - Cardinality({})
  BY <1>1, <1>2, <1>3, FS_Union
<1>5. Cardinality(A \cup B) = Cardinality(A) + f[x]
  BY <1>2, <1>3, <1>4, FS_EmptySet
<1> QED
  BY <1>1, <1>2, <1>5 DEF A

(* The total is the number of pairs. *)
LEMMA TotalIsPairs ==
    ASSUME NEW S, IsFiniteSet(S), NEW f \in [S -> Nat]
    PROVE  TotalOf(f) = Cardinality(PairsOf(f, S))
<1> DEFINE h == [s \in SUBSET S |-> Cardinality(PairsOf(f, s))]
<1>1. h \in [SUBSET S -> Nat]
  <2>1. ASSUME NEW s \in SUBSET S
        PROVE  Cardinality(PairsOf(f, s)) \in Nat
    <3>1. IsFiniteSet(PairsOf(f, S)) /\ PairsOf(f, s) \subseteq PairsOf(f, S)
      BY PairsAreFinite DEF PairsOf
    <3> QED
      BY <3>1, FS_Subset, FS_CardinalityType
  <2> QED
    BY <2>1
<1>2. h[{}] = 0
  BY FS_EmptySet DEF PairsOf
<1>3. \A s \in SUBSET S : \A x \in s : h[s] = f[x] + h[s \ {x}]
  <2>1. ASSUME NEW s \in SUBSET S, NEW x \in s
        PROVE  h[s] = f[x] + h[s \ {x}]
    BY PairsWithOneMore
  <2> QED
    BY <2>1
<1>4. h[S] = Cardinality(PairsOf(f, S))
  OBVIOUS
<1> HIDE DEF h
<1> QED
  BY <1>1, <1>2, <1>3, <1>4, TotalIs

(* One more element adds its value to the total. *)
LEMMA TotalWithOneMore ==
    ASSUME NEW S, IsFiniteSet(S), NEW x, x \notin S, NEW f \in [S -> Nat],
           NEW g \in [S \cup {x} -> Nat], \A p \in S : g[p] = f[p]
    PROVE  TotalOf(g) = TotalOf(f) + g[x]
<1> DEFINE T == S \cup {x}
<1>1. IsFiniteSet(T) /\ x \in T /\ T \ {x} = S /\ g \in [T -> Nat]
  BY FS_AddElement
<1> HIDE DEF T
<1>2. Cardinality(PairsOf(g, T)) = Cardinality(PairsOf(g, S)) + g[x]
  BY <1>1, PairsWithOneMore
<1>3. PairsOf(g, S) = PairsOf(f, S)
  BY DEF PairsOf
<1> QED
  BY <1>1, <1>2, <1>3, TotalIsPairs

(* A total of natural numbers is one. *)
LEMMA TotalIsNat ==
    ASSUME NEW S, IsFiniteSet(S), NEW f \in [S -> Nat]
    PROVE  TotalOf(f) \in Nat
BY TotalIsPairs, PairsAreFinite, FS_CardinalityType

(* The total over no elements is zero. *)
LEMMA TotalOfNothing ==
    ASSUME NEW f \in [{} -> Nat]
    PROVE  TotalOf(f) = 0
<1>1. IsFiniteSet({}) /\ Cardinality({}) = 0
  BY FS_EmptySet
<1>2. PairsOf(f, {}) = {}
  BY DEF PairsOf
<1> QED
  BY <1>1, <1>2, TotalIsPairs

(* The total of the sizes of disjoint sets is the size of their union. *)
LEMMA TotalOfParts ==
    ASSUME NEW S, IsFiniteSet(S), NEW U, IsFiniteSet(U), NEW part \in [S -> SUBSET U],
           \A p, q \in S : p # q => part[p] \cap part[q] = {}
    PROVE  TotalOf([p \in S |-> Cardinality(part[p])])
              = Cardinality(UNION {part[p] : p \in S})
<1> DEFINE f == [p \in S |-> Cardinality(part[p])]
           h == [s \in SUBSET S |-> Cardinality(UNION {part[p] : p \in s})]
<1>1. \A V \in SUBSET U : IsFiniteSet(V) /\ Cardinality(V) \in Nat
  BY FS_Subset, FS_CardinalityType
<1>2. f \in [S -> Nat] /\ h \in [SUBSET S -> Nat]
  <2>1. \A s \in SUBSET S : UNION {part[p] : p \in s} \in SUBSET U
    OBVIOUS
  <2>2. \A p \in S : part[p] \in SUBSET U
    OBVIOUS
  <2> QED
    BY <1>1, <2>1, <2>2
<1>3. h[{}] = 0
  BY FS_EmptySet
<1>4. \A s \in SUBSET S : \A x \in s : h[s] = f[x] + h[s \ {x}]
  <2>1. ASSUME NEW s \in SUBSET S, NEW x \in s
        PROVE  h[s] = f[x] + h[s \ {x}]
    <3> DEFINE A == UNION {part[p] : p \in s \ {x}}
               B == part[x]
    <3>1. /\ UNION {part[p] : p \in s} = A \cup B /\ A \cap B = {}
          /\ A \in SUBSET U /\ B \in SUBSET U
      OBVIOUS
    <3>2. h[s] = Cardinality(A \cup B) /\ f[x] = Cardinality(B) /\ h[s \ {x}] = Cardinality(A)
      BY <3>1
    <3> HIDE DEF A, B, f, h
    <3>3. /\ IsFiniteSet(A) /\ Cardinality(A) \in Nat
          /\ IsFiniteSet(B) /\ Cardinality(B) \in Nat
      BY <1>1, <3>1
    <3>4. Cardinality(A \cup B) = Cardinality(A) + Cardinality(B) - Cardinality({})
      BY <3>1, <3>3, FS_Union
    <3>5. Cardinality(A \cup B) = Cardinality(A) + Cardinality(B)
      BY <3>3, <3>4, FS_EmptySet
    <3> QED
      BY <3>2, <3>3, <3>5
  <2> QED
    BY <2>1
<1>5. h[S] = Cardinality(UNION {part[p] : p \in S})
  OBVIOUS
<1> HIDE DEF f, h
<1>6. TotalOf(f) = h[S]
  BY <1>2, <1>3, <1>4, TotalIs
<1> QED
  BY <1>5, <1>6 DEF f

-----------------------------------------------------------------------------
(***************************************************************************)
(* Ballots and contestants                                                 *)
(***************************************************************************)

(* How many contestants are left, from the rounds that were archived. *)
LEMMA ActiveCount ==
    ASSUME IInv
    PROVE  /\ Len(completedRounds) \in Nat /\ Cardinality(Players) \in Nat
           /\ Cardinality(Active) = Cardinality(Players) - Len(completedRounds)
                                    - IF phase = "elimination" THEN 1 ELSE 0
<1>1. /\ Active = Players \ Jurors /\ Jurors \in SUBSET Players
      /\ Jurors = Archived \cup Revealed /\ Revealed \cap Archived = {}
      /\ Cardinality(Archived) = Len(completedRounds)
  BY ActiveOrJuror DEF IInv, RosterInv
<1>2. /\ IsFiniteSet(Archived) /\ Cardinality(Archived) \in Nat
      /\ IsFiniteSet(Players) /\ Cardinality(Players) \in Nat
      /\ IsFiniteSet(Jurors) /\ Cardinality(Jurors) \in Nat
  BY <1>1, SizeOfPlayers
<1>3. /\ IsFiniteSet(Revealed)
      /\ Cardinality(Revealed) = IF phase = "elimination" THEN 1 ELSE 0
  BY FS_EmptySet, FS_Singleton DEF Revealed
<1>4. Cardinality(Jurors) = Cardinality(Archived) + Cardinality(Revealed)
  <2>1. Cardinality(Archived \cup Revealed)
           = Cardinality(Archived) + Cardinality(Revealed) - Cardinality({})
    BY <1>1, <1>2, <1>3, FS_Union
  <2> QED
    BY <1>1, <1>2, <1>3, <2>1, FS_EmptySet
<1>5. Cardinality(Active) = Cardinality(Players) - Cardinality(Jurors)
  <2>1. Players \cap Jurors = Jurors
    BY <1>1
  <2>2. Cardinality(Players \ Jurors)
           = Cardinality(Players) - Cardinality(Players \cap Jurors)
    BY <1>2, FS_Difference
  <2> QED
    BY <1>1, <2>1, <2>2
<1> QED
  BY <1>1, <1>2, <1>3, <1>4, <1>5

(* Each active player's vote is counted for exactly one player, so a tally *)
(* has as many votes as there are active players.                          *)
LEMMA OneVotePerActive ==
    ASSUME TypeOK, ValidTallyState
    PROVE  TotalOf(NormalVotes) = Cardinality(Active)
<1> DEFINE own(p)  == IF p \in missingNormalBallotPlayerIds THEN {p} ELSE {}
           part    == [p \in Players |-> CastFor(normalBallots, p) \cup own(p)]
<1>1. IsFiniteSet(Players) /\ Active \in SUBSET Players
  BY SizeOfPlayers, ActiveOrJuror
<1>2. part \in [Players -> SUBSET Players]
  BY DEF CastFor
<1>3. /\ missingNormalBallotPlayerIds = Active \ Voted(normalBallots)
      /\ \A v \in Voted(normalBallots) : v \in Active /\ normalBallots[v].target \in Active
      /\ NoPlayer \notin Players
  BY RosterAssumption DEF ValidTallyState
<1>4. \A p, v \in Players :
         v \in part[p] <=> \/ normalBallots[v].target = p
                           \/ v = p /\ normalBallots[v].target = NoPlayer /\ v \in Active
  BY <1>3 DEF CastFor, Voted
<1>5. \A p, q \in Players : p # q => part[p] \cap part[q] = {}
  BY <1>2, <1>3, <1>4
<1>6. UNION {part[p] : p \in Players} = Active
  <2>1. ASSUME NEW v \in Active PROVE \E p \in Players : v \in part[p]
    BY <1>1, <1>3, <1>4 DEF Voted
  <2>2. ASSUME NEW p \in Players, NEW v \in part[p] PROVE v \in Active
    BY <1>2, <1>3, <1>4 DEF Voted
  <2> QED
    BY <2>1, <2>2
<1>7. NormalVotes = [p \in Players |-> Cardinality(part[p])]
  <2>1. ASSUME NEW p \in Players
        PROVE  Cardinality(part[p]) = Cardinality(CastFor(normalBallots, p))
                                      + IF p \in missingNormalBallotPlayerIds THEN 1 ELSE 0
    <3>1. /\ IsFiniteSet(CastFor(normalBallots, p))
          /\ Cardinality(CastFor(normalBallots, p)) \in Nat
      BY SizeOfPlayers DEF CastFor
    <3>2. CASE p \in missingNormalBallotPlayerIds
      <4>1. p \notin CastFor(normalBallots, p)
        BY <1>3, <3>2 DEF CastFor, Voted
      <4>2. part[p] = CastFor(normalBallots, p) \cup {p}
        BY <3>2
      <4> HIDE DEF part
      <4> QED
        BY <3>1, <3>2, <4>1, <4>2, FS_AddElement
    <3>3. CASE p \notin missingNormalBallotPlayerIds
      <4>1. part[p] = CastFor(normalBallots, p)
        BY <3>3
      <4> HIDE DEF part
      <4> QED
        BY <3>1, <3>3, <4>1
    <3> QED
      BY <3>2, <3>3
  <2> HIDE DEF part
  <2> QED
    BY <2>1 DEF NormalVotes
<1> HIDE DEF part
<1> QED
  BY <1>1, <1>2, <1>5, <1>6, <1>7, TotalOfParts

(* A runoff counts one vote at most for each contestant outside the tie. *)
LEMMA OneVotePerRunoffVoter ==
    ASSUME TypeOK, ValidRunoffBallots
    PROVE  /\ TotalOf(RunoffVotes) \in Nat
           /\ TotalOf(RunoffVotes) <= Cardinality(RunoffVoters)
<1> DEFINE part == [p \in Players |-> IF p \in runoffPlayerIds
                                      THEN CastFor(runoffBallots, p) ELSE {}]
           counted == UNION {part[p] : p \in Players}
<1>1. IsFiniteSet(Players) /\ RunoffVoters \in SUBSET Players
  BY SizeOfPlayers, ActiveOrJuror DEF RunoffVoters
<1>2. part \in [Players -> SUBSET Players]
  BY DEF CastFor
<1>3. \A p, q \in Players : p # q => part[p] \cap part[q] = {}
  BY DEF CastFor
<1>4. counted \in SUBSET RunoffVoters
  BY RosterAssumption DEF ValidRunoffBallots, CastFor, Voted
<1>5. RunoffVotes = [p \in Players |-> Cardinality(part[p])]
  <2>1. \A p \in Players : Cardinality(part[p]) =
           IF p \in runoffPlayerIds THEN Cardinality(CastFor(runoffBallots, p)) ELSE 0
    BY FS_EmptySet
  <2> HIDE DEF part
  <2> QED
    BY <2>1 DEF RunoffVotes
<1> HIDE DEF part
<1>6. TotalOf(RunoffVotes) = Cardinality(counted)
  BY <1>1, <1>2, <1>3, <1>5, TotalOfParts
<1> HIDE DEF counted
<1>7. /\ IsFiniteSet(RunoffVoters) /\ counted \in SUBSET Players
  BY <1>1, <1>4, SizeOfPlayers
<1> QED
  BY <1>4, <1>6, <1>7, FS_Subset, SizeOfPlayers

(* A count without a vote has none in total. *)
LEMMA NoVotesTotal == TotalOf(NoVotes) = 0
<1> DEFINE part == [p \in Players |-> {}]
<1>1. NoVotes = [p \in Players |-> Cardinality(part[p])]
  BY FS_EmptySet DEF NoVotes
<1>2. UNION {part[p] : p \in Players} = {} /\ part \in [Players -> SUBSET Players]
  OBVIOUS
<1>3. \A p, q \in Players : p # q => part[p] \cap part[q] = {}
  OBVIOUS
<1> HIDE DEF part
<1> QED
  BY <1>1, <1>2, <1>3, SizeOfPlayers, TotalOfParts, FS_EmptySet

-----------------------------------------------------------------------------
(***************************************************************************)
(* Every vote is counted once                                              *)
(*                                                                         *)
(* Neither property is inductive alone.  What a tally adds to the totals   *)
(* must find nothing of this round there yet, and a runoff's votes are     *)
(* bounded by the tie they were cast in, which is forgotten with the next  *)
(* vote.                                                                   *)
(***************************************************************************)

(* What the round's runoff has left behind, and when. *)
RunoffInv ==
    /\ phase \in {"voting", "tally"} => runoffPlayerIds = {}
    /\ phase \in {"voting", "tally"} \cup RunoffPhases => tieResolution = NoResolution
    /\ phase = "elimination" =>
          TotalOf(tieResolution.votes) <= Cardinality(Players) - Len(completedRounds)
                                          - Cardinality(runoffPlayerIds)

(* Inductive with IInv: the two properties and what they need of a runoff. *)
VoteInv == CumulativeIsEveryVote /\ OneVoteEach /\ RunoffInv

(* The votes of the archived rounds for a player. *)
ArchivedVotes(p) ==
    TotalOf([r \in DOMAIN completedRounds |->
                completedRounds[r].votes[p] + completedRounds[r].runoffVotes[p]])

(* What OneVoteEach says of the archived rounds. *)
ArchivedRoundsCount ==
    \A r \in DOMAIN completedRounds :
        LET round == completedRounds[r]
            began == Cardinality(Players) - (r - 1)
        IN  /\ TotalOf(round.votes) = began
            /\ TotalOf(round.runoffVotes) <= began - Cardinality(round.tied)

(* What VoteInv says while nothing is archived, from the votes of the round. *)
LEMMA AccountsOfTheRound ==
    ASSUME VoteInv, UNCHANGED completedRounds,
           \A p \in Players :
              cumulative'[p] = ArchivedVotes(p)
                 + IF OpenRound' THEN normalTally'.votes[p] + tieResolution'.votes[p]
                                 ELSE 0,
           (OpenRound /\ normalTally # NoTally)' =>
              TotalOf(normalTally'.votes) = Cardinality(Players) - Len(completedRounds)
    PROVE  CumulativeIsEveryVote' /\ OneVoteEach'
<1>1. ArchivedRoundsCount' = ArchivedRoundsCount
  BY DEF ArchivedRoundsCount
<1>2. ArchivedRoundsCount
  BY DEF VoteInv, OneVoteEach, ArchivedRoundsCount
<1>3. CumulativeIsEveryVote'
  BY DEF CumulativeIsEveryVote, ArchivedVotes
<1>4. OneVoteEach'
  BY <1>1, <1>2 DEF OneVoteEach, ArchivedRoundsCount
<1> QED
  BY <1>3, <1>4

(* A step that neither counts nor archives keeps the accounts. *)
LEMMA SameAccounts ==
    ASSUME VoteInv, UNCHANGED <<cumulative, completedRounds, normalTally, tieResolution,
                                runoffPlayerIds>>,
           \/ phase' = phase
           \/ ~OpenRound /\ phase' \notin {"voting"} /\ ~OpenRound'
           \/ phase \in RunoffPhases /\ phase' \in RunoffPhases
    PROVE  VoteInv'
<1>1. OpenRound' = OpenRound
  BY DEF OpenRound, RunoffPhases
<1>2. CumulativeIsEveryVote' /\ OneVoteEach'
  BY <1>1, AccountsOfTheRound DEF VoteInv, CumulativeIsEveryVote, OneVoteEach, ArchivedVotes
<1>3. RunoffInv'
  BY DEF VoteInv, RunoffInv, RunoffPhases, OpenRound
<1> QED
  BY <1>2, <1>3 DEF VoteInv

(* The votes of the archived rounds for a player are finitely many         *)
(* numbers, and their total is one.                                        *)
LEMMA ArchivedVotesAreNat ==
    ASSUME TypeOK, NEW p \in Players
    PROVE  /\ IsFiniteSet(DOMAIN completedRounds)
           /\ [r \in DOMAIN completedRounds |->
                  completedRounds[r].votes[p] + completedRounds[r].runoffVotes[p]]
                 \in [DOMAIN completedRounds -> Nat]
           /\ ArchivedVotes(p) \in Nat
<1> DEFINE f == [r \in DOMAIN completedRounds |->
                    completedRounds[r].votes[p] + completedRounds[r].runoffVotes[p]]
<1>1. completedRounds \in Seq(Round)
  BY DEF TypeOK
<1>2. DOMAIN completedRounds = 1..Len(completedRounds) /\ Len(completedRounds) \in Nat
  BY <1>1
<1>3. IsFiniteSet(DOMAIN completedRounds)
  BY <1>2, FS_Interval
<1>4. \A r \in DOMAIN completedRounds : completedRounds[r] \in Round
  BY <1>1
<1>5. f \in [DOMAIN completedRounds -> Nat]
  BY <1>4 DEF Round, Votes
<1>6. TotalOf(f) \in Nat
  <2> HIDE DEF f
  <2> QED
    BY <1>3, <1>5, TotalIsNat
<1> QED
  BY <1>3, <1>5, <1>6 DEF ArchivedVotes

(* Nobody has a vote in the null of a result. *)
LEMMA NullVotes ==
    \A p \in Players : NoTally.votes[p] = 0 /\ NoResolution.votes[p] = 0
BY DEF NoTally, NoResolution, NoVotes

(* The tally counts the ballots of the round once. *)
LEMMA TallyCounts ==
    ASSUME IInv, VoteInv, NormalBallotsTallied
    PROVE  VoteInv'
<1>1. /\ phase = "tally" /\ normalTally = NoTally /\ ValidTallyState
      /\ cumulative' = AddVotes(cumulative, NormalVotes)
      /\ normalTally'.votes = NormalVotes
      /\ phase' \in {"tally", "elimination"}
      /\ UNCHANGED <<completedRounds, runoffPlayerIds, tieResolution>>
  BY DEF NormalBallotsTallied, Enter, Stay, runoff
<1>2. tieResolution = NoResolution /\ runoffPlayerIds = {}
  BY <1>1 DEF VoteInv, RunoffInv
<1>3. OpenRound /\ OpenRound'
  BY <1>1 DEF OpenRound
<1>4. \A p \in Players :
         cumulative'[p] = ArchivedVotes(p)
                          + (normalTally'.votes[p] + tieResolution'.votes[p])
  <2> SUFFICES ASSUME NEW p \in Players
               PROVE  cumulative'[p] = ArchivedVotes(p)
                          + (normalTally'.votes[p] + tieResolution'.votes[p])
    OBVIOUS
  <2>1. cumulative[p] = ArchivedVotes(p) + (0 + 0)
    BY <1>1, <1>2, <1>3, NullVotes DEF VoteInv, CumulativeIsEveryVote, ArchivedVotes
  <2>2. cumulative'[p] = cumulative[p] + NormalVotes[p]
    BY <1>1 DEF AddVotes
  <2>3. ArchivedVotes(p) \in Nat /\ NormalVotes[p] \in Nat
    BY ArchivedVotesAreNat, CountsAreVotes DEF IInv, Votes
  <2>4. tieResolution'.votes[p] = 0
    BY <1>1, <1>2, NullVotes
  <2> QED
    BY <1>1, <2>1, <2>2, <2>3, <2>4
<1>5. /\ TotalOf(NormalVotes) = Cardinality(Players) - Len(completedRounds)
      /\ TotalOf(NormalVotes) \in Nat
  BY <1>1, OneVotePerActive, ActiveCount, ActiveOrJuror DEF IInv
<1>6. CumulativeIsEveryVote' /\ OneVoteEach'
  BY <1>1, <1>3, <1>4, <1>5, AccountsOfTheRound
<1>7. RunoffInv'
  <2>1. /\ TotalOf(tieResolution'.votes) = 0 /\ Cardinality(runoffPlayerIds') = 0
        /\ tieResolution' = NoResolution /\ runoffPlayerIds' = {}
    BY <1>1, <1>2, NoVotesTotal, FS_EmptySet DEF NoResolution
  <2> QED
    BY <1>1, <1>5, <2>1, ActiveCount DEF RunoffInv, RunoffPhases
<1> QED
  BY <1>6, <1>7 DEF VoteInv

(* The resolution of a tie counts the runoff's ballots once. *)
LEMMA ResolveTieCounts ==
    ASSUME IInv, VoteInv, phase \in {"tally", "runoff_voting"}, normalTally # NoTally,
           NEW tied \in SUBSET Players, NEW votes \in Votes, NEW candidates,
           TotalOf(votes) <= Cardinality(Active) - Cardinality(tied),
           ResolveTie(tied, votes, candidates), UNCHANGED <<voting, completedRounds>>
    PROVE  VoteInv'
<1>1. /\ cumulative' = AddVotes(cumulative, votes)
      /\ runoffPlayerIds' = tied
      /\ tieResolution'.votes = votes
      /\ phase' = "elimination"
      /\ UNCHANGED <<normalTally, completedRounds>>
  BY DEF ResolveTie, Enter, voting
<1>2. tieResolution = NoResolution
  BY DEF VoteInv, RunoffInv, RunoffPhases
<1>3. OpenRound /\ OpenRound'
  BY <1>1 DEF OpenRound
<1>4. \A p \in Players :
         cumulative'[p] = ArchivedVotes(p)
                          + (normalTally'.votes[p] + tieResolution'.votes[p])
  <2> SUFFICES ASSUME NEW p \in Players
               PROVE  cumulative'[p] = ArchivedVotes(p)
                          + (normalTally'.votes[p] + tieResolution'.votes[p])
    OBVIOUS
  <2>1. cumulative[p] = ArchivedVotes(p) + (normalTally.votes[p] + 0)
    BY <1>2, <1>3, NullVotes DEF VoteInv, CumulativeIsEveryVote, ArchivedVotes
  <2>2. cumulative'[p] = cumulative[p] + votes[p]
    BY <1>1 DEF AddVotes
  <2>3. ArchivedVotes(p) \in Nat /\ votes[p] \in Nat /\ normalTally.votes[p] \in Nat
    BY ArchivedVotesAreNat DEF IInv, TypeOK, Tally, Votes
  <2> QED
    BY <1>1, <2>1, <2>2, <2>3
<1>5. TotalOf(normalTally.votes) = Cardinality(Players) - Len(completedRounds)
  BY <1>3 DEF VoteInv, OneVoteEach
<1>6. CumulativeIsEveryVote' /\ OneVoteEach'
  BY <1>1, <1>3, <1>4, <1>5, AccountsOfTheRound
<1>7. Cardinality(Active) = Cardinality(Players) - Len(completedRounds)
  BY ActiveCount, ActiveOrJuror DEF IInv
<1>8. RunoffInv'
  BY <1>1, <1>7 DEF RunoffInv, RunoffPhases
<1> QED
  BY <1>6, <1>8 DEF VoteInv

(* Both ways to resolve a tie count their votes once: the runoff that      *)
(* nobody but tied players could vote in is skipped, any other is tallied. *)
LEMMA RunoffCounts ==
    ASSUME IInv, VoteInv, RunoffStarted \/ RunoffTallied
    PROVE  VoteInv'
<1>1. CASE RunoffStarted /\ ResolveTie(Active, NoVotes, Active)
  <2>1. /\ phase = "tally" /\ normalTally # NoTally
        /\ UNCHANGED <<voting, completedRounds>>
    BY <1>1 DEF RunoffStarted
  <2>2. TotalOf(NoVotes) <= Cardinality(Active) - Cardinality(Active)
    BY NoVotesTotal, ActiveOrJuror DEF IInv
  <2>3. Active \in SUBSET Players /\ NoVotes \in Votes
    BY ActiveOrJuror, CountsAreVotes DEF IInv
  <2> QED
    BY <1>1, <2>1, <2>2, <2>3, ResolveTieCounts
<1>2. CASE RunoffStarted /\ ~ResolveTie(Active, NoVotes, Active)
  <2>1. /\ phase = "tally" /\ phase' = "runoff_negotiation" /\ normalTally # NoTally
        /\ tieResolution' = NoResolution
        /\ UNCHANGED <<cumulative, completedRounds, normalTally>>
    BY <1>2 DEF RunoffStarted, Enter, voting
  <2>2. OpenRound /\ OpenRound' /\ UNCHANGED tieResolution
    BY <2>1 DEF OpenRound, VoteInv, RunoffInv
  <2>3. CumulativeIsEveryVote' /\ OneVoteEach'
    BY <2>1, <2>2, AccountsOfTheRound
       DEF VoteInv, CumulativeIsEveryVote, OneVoteEach, ArchivedVotes
  <2> QED
    BY <2>1, <2>3 DEF VoteInv, RunoffInv, RunoffPhases
<1>3. CASE RunoffTallied
  <2>1. /\ phase = "runoff_voting" /\ normalTally # NoTally
        /\ runoffPlayerIds \in SUBSET Active
        /\ ValidRunoffBallots
        /\ ResolveTie(runoffPlayerIds, RunoffVotes, Most(RunoffVotes, runoffPlayerIds))
        /\ UNCHANGED <<voting, completedRounds>>
    BY <1>3 DEF RunoffTallied, IInv, RoundInv, RunoffPhases
  <2>2. Active \in SUBSET Players /\ IsFiniteSet(Active)
    BY ActiveOrJuror, SizeOfPlayers DEF IInv
  <2>3. Cardinality(RunoffVoters) = Cardinality(Active) - Cardinality(runoffPlayerIds)
    <3>1. Active \cap runoffPlayerIds = runoffPlayerIds
      BY <2>1
    <3>2. Cardinality(Active \ runoffPlayerIds)
             = Cardinality(Active) - Cardinality(Active \cap runoffPlayerIds)
      BY <2>2, FS_Difference
    <3> QED
      BY <3>1, <3>2 DEF RunoffVoters
  <2>4. TotalOf(RunoffVotes) <= Cardinality(Active) - Cardinality(runoffPlayerIds)
    BY <2>1, <2>3, OneVotePerRunoffVoter DEF IInv
  <2>5. runoffPlayerIds \in SUBSET Players /\ RunoffVotes \in Votes
    BY <2>1, <2>2, CountsAreVotes
  <2> QED
    BY <2>1, <2>4, <2>5, ResolveTieCounts
<1> QED
  BY <1>1, <1>2, <1>3

(* The reveal moves the votes of the round to the archive. *)
LEMMA RevealCounts ==
    ASSUME IInv, VoteInv, EliminationRevealTimedOut
    PROVE  VoteInv'
<1> DEFINE old == DOMAIN completedRounds
           n   == Len(completedRounds)
<1>1. /\ phase = "elimination" /\ phase' \in {"final_plea", "negotiation"}
      /\ normalTally # NoTally
      /\ completedRounds' = Append(completedRounds, ArchivedRound)
      /\ UNCHANGED <<cumulative, normalTally, tieResolution, runoffPlayerIds>>
  BY DEF EliminationRevealTimedOut, Enter, CanArchive, voting, runoff
<1>2. OpenRound /\ ~OpenRound'
  BY <1>1 DEF OpenRound
<1>3. completedRounds \in Seq(Round) /\ n \in Nat
  BY DEF IInv, TypeOK
<1>4. /\ old = 1..n /\ n + 1 \notin old
      /\ DOMAIN completedRounds' = old \cup {n + 1}
      /\ \A r \in old : completedRounds'[r] = completedRounds[r]
      /\ completedRounds'[n + 1] = ArchivedRound
  BY <1>1, <1>3
<1>5. CumulativeIsEveryVote'
  <2> SUFFICES ASSUME NEW p \in Players
               PROVE  cumulative'[p] = ArchivedVotes(p)' + 0
    BY <1>2 DEF CumulativeIsEveryVote, ArchivedVotes
  <2> DEFINE f == [r \in old |->
                      completedRounds[r].votes[p] + completedRounds[r].runoffVotes[p]]
             g == [r \in DOMAIN completedRounds' |->
                      completedRounds'[r].votes[p] + completedRounds'[r].runoffVotes[p]]
             v == normalTally.votes[p] + tieResolution.votes[p]
  <2>1. IsFiniteSet(old) /\ f \in [old -> Nat] /\ ArchivedVotes(p) \in Nat
    BY ArchivedVotesAreNat DEF IInv
  <2>2. v \in Nat
    BY DEF IInv, TypeOK, Tally, Resolution, Votes
  <2>3. g[n + 1] = v
    BY <1>4 DEF ArchivedRound
  <2>4. \A r \in old : g[r] = f[r]
    BY <1>4
  <2>5. g \in [old \cup {n + 1} -> Nat]
    <3>1. DOMAIN g = old \cup {n + 1} /\ g = [r \in DOMAIN g |-> g[r]]
      BY <1>4
    <3> HIDE DEF f, g
    <3> QED
      BY <2>1, <2>2, <2>3, <2>4, <3>1
  <2>6. cumulative[p] = ArchivedVotes(p) + v
    BY <1>2 DEF VoteInv, CumulativeIsEveryVote, ArchivedVotes
  <2>7. ArchivedVotes(p) = TotalOf(f) /\ ArchivedVotes(p)' = TotalOf(g)
    BY DEF ArchivedVotes
  <2> HIDE DEF f, g, v, old, n
  <2>8. TotalOf(g) = TotalOf(f) + g[n + 1]
    <3> DEFINE last == n + 1
    <3>1. last \notin old /\ g \in [old \cup {last} -> Nat]
      BY <1>4, <2>5
    <3> HIDE DEF last
    <3>2. TotalOf(g) = TotalOf(f) + g[last]
      BY <2>1, <2>4, <3>1, TotalWithOneMore
    <3> QED
      BY <3>2 DEF last
  <2> QED
    BY <1>1, <2>1, <2>2, <2>3, <2>6, <2>7, <2>8
<1>6. OneVoteEach'
  <2>1. /\ TotalOf(normalTally.votes) = Cardinality(Players) - n
        /\ TotalOf(tieResolution.votes)
              <= Cardinality(Players) - n - Cardinality(runoffPlayerIds)
    BY <1>1, <1>2 DEF VoteInv, OneVoteEach, RunoffInv
  <2>2. /\ ArchivedRound.votes = normalTally.votes
        /\ ArchivedRound.runoffVotes = tieResolution.votes
        /\ ArchivedRound.tied = runoffPlayerIds
    BY DEF ArchivedRound
  <2>3. ArchivedRoundsCount
    BY DEF VoteInv, OneVoteEach, ArchivedRoundsCount
  <2>4. Cardinality(Players) \in Nat /\ (n + 1) - 1 = n
    BY <1>3, ActiveCount
  <2>5. ArchivedRoundsCount'
    <3> SUFFICES ASSUME NEW r \in old \cup {n + 1}
                 PROVE  LET round == completedRounds'[r]
                            began == Cardinality(Players) - (r - 1)
                        IN  /\ TotalOf(round.votes) = began
                            /\ TotalOf(round.runoffVotes) <= began - Cardinality(round.tied)
      BY <1>4 DEF ArchivedRoundsCount
    <3> HIDE DEF n, old
    <3>1. CASE r \in old
      BY <1>4, <2>3, <3>1 DEF ArchivedRoundsCount, old
    <3>2. CASE r = n + 1
      BY <1>4, <2>1, <2>2, <2>4, <3>2
    <3> QED
      BY <3>1, <3>2
  <2> QED
    BY <1>2, <2>5 DEF OneVoteEach, ArchivedRoundsCount
<1> QED
  BY <1>1, <1>5, <1>6 DEF VoteInv, RunoffInv, RunoffPhases

(* Every step of the engine keeps the accounts of the votes. *)
LEMMA StepKeepsVoteInv ==
    ASSUME IInv, VoteInv, [Next]_vars
    PROVE  VoteInv'
<1> DEFINE Accounts == <<cumulative, completedRounds, normalTally, tieResolution,
                         runoffPlayerIds>>
<1>1. CASE UNCHANGED vars \/ Tick
  <2>1. UNCHANGED Accounts /\ UNCHANGED phase
    BY <1>1 DEF vars, Tick, voting, runoff
  <2> QED
    BY <2>1, SameAccounts
<1>2. CASE \/ \E p \in Players : ContestantReady(p) \/ FinalPleaSubmitted(p)
           \/ \E j, f \in Players : JuryBallotSubmitted(j, f)
           \/ LobbyTimedOut \/ FinalPleaTimedOut \/ JuryTallied
  <2>1. /\ UNCHANGED Accounts
        /\ phase \in {"lobby"} \cup FinalePhases
        /\ phase' \in {"lobby", "negotiation", "cancelled"} \cup FinalePhases
    BY <1>2 DEF ContestantReady, FinalPleaSubmitted, JuryBallotSubmitted,
         LobbyTimedOut, FinalPleaTimedOut, JuryTallied, StartJuryVoting, Enter, Stay,
         FinalePhases, voting, runoff
  <2> QED
    BY <2>1, SameAccounts DEF OpenRound, FinalePhases
<1>3. CASE NegotiationTimedOut
  <2>1. /\ phase = "negotiation" /\ phase' = "voting"
        /\ runoffPlayerIds' = {} /\ tieResolution' = NoResolution
        /\ UNCHANGED <<cumulative, completedRounds>>
    BY <1>3 DEF NegotiationTimedOut, Enter
  <2>2. ~OpenRound /\ ~OpenRound'
    BY <2>1 DEF OpenRound
  <2>3. CumulativeIsEveryVote' /\ OneVoteEach'
    BY <2>1, <2>2, AccountsOfTheRound
       DEF VoteInv, CumulativeIsEveryVote, ArchivedVotes
  <2> QED
    BY <2>1, <2>3 DEF VoteInv, RunoffInv, RunoffPhases
<1>4. CASE VotingTimedOut \/ \E v, t \in Players : NormalBallotSubmitted(v, t)
  <2>1. /\ phase = "voting" /\ phase' \in {"voting", "tally"}
        /\ UNCHANGED Accounts
    BY <1>4 DEF VotingTimedOut, NormalBallotSubmitted, CloseVoting, Enter, Stay, runoff
  <2>2. CASE phase' = "voting"
    BY <2>1, <2>2, SameAccounts
  <2>3. CASE phase' = "tally"
    <3>1. normalTally = NoTally /\ tieResolution = NoResolution
      BY <2>1 DEF IInv, RoundInv, VoteInv, RunoffInv
    <3>2. ~OpenRound /\ OpenRound'
      BY <2>1, <2>3 DEF OpenRound
    <3>3. \A p \in Players :
             cumulative'[p] = ArchivedVotes(p)
                              + (normalTally'.votes[p] + tieResolution'.votes[p])
      BY <2>1, <3>1, <3>2, NullVotes
         DEF VoteInv, CumulativeIsEveryVote, ArchivedVotes
    <3>4. CumulativeIsEveryVote' /\ OneVoteEach'
      BY <2>1, <3>1, <3>2, <3>3, AccountsOfTheRound
    <3> QED
      BY <2>1, <2>3, <3>4 DEF VoteInv, RunoffInv, RunoffPhases
  <2> QED
    BY <2>1, <2>2, <2>3
<1>5. CASE NormalBallotsTallied
  BY <1>5, TallyCounts
<1>6. CASE RunoffStarted \/ RunoffTallied
  BY <1>6, RunoffCounts
<1>7. CASE \/ RunoffNegotiationTimedOut
           \/ \E v, t \in Players : RunoffBallotSubmitted(v, t)
  <2>1. /\ phase \in RunoffPhases /\ phase' \in RunoffPhases
        /\ UNCHANGED Accounts
    BY <1>7 DEF RunoffNegotiationTimedOut, RunoffBallotSubmitted, Enter, Stay,
                RunoffPhases, voting, runoff
  <2> QED
    BY <2>1, SameAccounts
<1>8. CASE EliminationRevealTimedOut
  BY <1>8, RevealCounts
<1> QED
  BY <1>1, <1>2, <1>3, <1>4, <1>5, <1>6, <1>7, <1>8 DEF Next, Submission, Advance

(* A match in the lobby has no vote to account for. *)
LEMMA InitVoteInv == Init => VoteInv
<1> SUFFICES ASSUME Init PROVE VoteInv
  OBVIOUS
<1>1. ~OpenRound /\ DOMAIN completedRounds = {}
  BY DEF Init, OpenRound
<1>2. \A p \in Players : cumulative[p] = 0
  BY DEF Init, NoVotes
<1>3. CumulativeIsEveryVote
  <2> SUFFICES ASSUME NEW p \in Players PROVE cumulative[p] = ArchivedVotes(p) + 0
    BY <1>1 DEF CumulativeIsEveryVote, ArchivedVotes
  <2> DEFINE f == [r \in DOMAIN completedRounds |->
                      completedRounds[r].votes[p] + completedRounds[r].runoffVotes[p]]
  <2>1. f \in [{} -> Nat]
    BY <1>1
  <2> HIDE DEF f
  <2>2. TotalOf(f) = 0
    BY <2>1, TotalOfNothing
  <2> QED
    BY <1>2, <2>2 DEF ArchivedVotes, f
<1>4. OneVoteEach
  BY <1>1 DEF OneVoteEach
<1> QED
  BY <1>3, <1>4 DEF Init, VoteInv, RunoffInv, RunoffPhases

(* The accounts of the votes are kept for ever. *)
LEMMA AlwaysVoteInv == Spec => []VoteInv
<1>1. IInv /\ VoteInv /\ [Next]_vars => VoteInv'
  BY StepKeepsVoteInv
<1> QED
  BY <1>1, InitVoteInv, AlwaysIInv, PTL DEF Spec

(* For every roster: the totals that break ties hold each elimination vote *)
(* of the match once, those of the archived rounds and those of the round  *)
(* being resolved (tally.ts:130-138, runoff.ts:116-127).                   *)
THEOREM CumulativeIsAlwaysEveryVote == Spec => []CumulativeIsEveryVote
<1>1. VoteInv => CumulativeIsEveryVote
  BY DEF VoteInv
<1> QED
  BY <1>1, AlwaysVoteInv, PTL

(* For every roster: a round tallies one vote for each contestant it began *)
(* with, and its runoff at most one for each outside the tie               *)
(* (tally.ts:112-128).                                                     *)
THEOREM OneVoteEachAlways == Spec => []OneVoteEach
<1>1. VoteInv => OneVoteEach
  BY DEF VoteInv
<1> QED
  BY <1>1, AlwaysVoteInv, PTL

-----------------------------------------------------------------------------
(***************************************************************************)
(* Why a match ends                                                        *)
(*                                                                         *)
(* That it does is liveness, which TLC checks on small instances.  The two *)
(* facts it rests on are safety: each change of phase comes nearer to the  *)
(* end, and past a deadline there is always a step to take.                *)
(***************************************************************************)

(* How far a match in phase p is from the end of the round. *)
Place(p) ==
    CASE p = "lobby"              -> 9
      [] p = "elimination"        -> 7
      [] p = "negotiation"        -> 6
      [] p = "voting"             -> 5
      [] p = "tally"              -> 4
      [] p = "runoff_negotiation" -> 3
      [] p = "runoff_voting"      -> 2
      [] p = "final_plea"         -> 2
      [] p = "jury_voting"        -> 1
      [] OTHER                    -> 0

(* How far the match is from its end: a round away for each contestant     *)
(* left.                                                                   *)
Remaining == 7 * Cardinality(Active) + Place(phase)

(* Each change of phase brings the match nearer to its end. *)
NearerTheEnd == [][phase' # phase => Remaining' \in Nat /\ Remaining' < Remaining]_vars

(* Every change of phase lowers a number that starts at seven per           *)
(* contestant and nine more: a match has no loop, however ties fall         *)
(* (tally.ts, runoff.ts and finale.ts name each next phase).                *)
THEOREM PhasesComeNearerTheEnd == Spec => NearerTheEnd
<1>1. ASSUME IInv, [Next]_vars
      PROVE  [phase' # phase => Remaining' \in Nat /\ Remaining' < Remaining]_vars
  <2> SUFFICES ASSUME phase' # phase
               PROVE  Remaining' \in Nat /\ Remaining' < Remaining
    OBVIOUS
  <2> DEFINE a == Cardinality(Active)
  <2>1. a \in Nat /\ a' \in Nat
    <3>1. TypeOK /\ TypeOK'
      BY <1>1, StepKeepsIInv DEF IInv
    <3> QED
      BY <3>1, ActiveOrJuror, SizeOfPlayers DEF Active, WithStatus
  <2>2. Lifecycle!Next
    BY <1>1, LifecycleStep DEF Lifecycle!vars
  <2> HIDE DEF a
  <2>3. CASE Lifecycle!Move
    <3>1. PICK m \in Lifecycle!Moves : phase = m[1] /\ phase' = m[2]
      BY <2>3 DEF Lifecycle!Move
    <3>2. Place(m[2]) \in Nat /\ Place(m[1]) \in Nat /\ Place(m[2]) < Place(m[1])
      BY DEF Lifecycle!Moves, Place
    <3>3. a' = a
      BY <2>3 DEF Lifecycle!Move, a
    <3> HIDE DEF Place
    <3> QED
      BY <2>1, <3>1, <3>2, <3>3 DEF Remaining, a
  <2>4. CASE Lifecycle!Eliminate
    <3>1. a' = a - 1 /\ phase' = "elimination" /\ phase \in {"tally", "runoff_voting"}
      BY <2>4 DEF Lifecycle!Eliminate, a
    <3>2. /\ Place("elimination") = 7
          /\ Place(phase) \in Nat /\ Place(phase) > 0
      BY <3>1 DEF Place
    <3> HIDE DEF Place
    <3> QED
      BY <2>1, <3>1, <3>2 DEF Remaining, a
  <2>5. CASE Lifecycle!Reveal
    <3>1. a' = a /\ phase' \in {"final_plea", "negotiation"} /\ phase = "elimination"
      BY <2>5 DEF Lifecycle!Reveal, a
    <3>2. /\ Place("elimination") = 7
          /\ Place(phase') \in Nat /\ Place(phase') < 7
      BY <3>1 DEF Place
    <3> HIDE DEF Place
    <3> QED
      BY <2>1, <3>1, <3>2 DEF Remaining, a
  <2> QED
    BY <2>2, <2>3, <2>4, <2>5
       DEF Lifecycle!Next, Lifecycle!Progress, Lifecycle!Submit, Lifecycle!RecordTie
<1> QED
  BY <1>1, AlwaysIInv, PTL DEF Spec, NearerTheEnd

(* Each round has removed somebody, so the rounds leave room for a final:  *)
(* with MaxRounds two below the roster the bound excludes no match.        *)
THEOREM RoundsAreBounded ==
    Spec => [](/\ Len(completedRounds) <= Cardinality(Players) - 2
               /\ phase = "negotiation" =>
                     Len(completedRounds) < Cardinality(Players) - 2)
<1>1. IInv => /\ Len(completedRounds) <= Cardinality(Players) - 2
              /\ phase = "negotiation" =>
                    Len(completedRounds) < Cardinality(Players) - 2
  BY ActiveCount DEF IInv, SizeInv, FinalePhases
<1> QED
  BY <1>1, AlwaysIInv, PTL

-----------------------------------------------------------------------------
(***************************************************************************)
(* A match that has not ended can be advanced                              *)
(***************************************************************************)

(* Finitely many numbers have a smallest. *)
LEMMA SmallestNumber ==
    ASSUME NEW S, IsFiniteSet(S), S # {}, NEW f \in [S -> Int]
    PROVE  \E p \in S : \A q \in S : f[p] <= f[q]
<1> DEFINE Below(p) == {q \in S : f[q] < f[p]}
           F == {Below(p) : p \in S}
<1>1. F \in SUBSET SUBSET S /\ F # {}
  OBVIOUS
<1>2. \E A \in F : \A B \in F : ~(B \subseteq A /\ B # A)
  <2> HIDE DEF F
  <2> QED
    BY <1>1, SmallestSubset
<1>3. PICK p \in S : \A q \in S : ~(Below(q) \subseteq Below(p) /\ Below(q) # Below(p))
  <2> HIDE DEF Below
  <2> QED
    BY <1>2
<1>4. ASSUME NEW q \in S, f[q] < f[p] PROVE FALSE
  <2>1. q \in Below(p) /\ q \notin Below(q) /\ Below(q) \subseteq Below(p)
    BY <1>4
  <2> HIDE DEF Below
  <2> QED
    BY <1>3, <2>1
<1> QED
  BY <1>4

(* A choice among some players by their votes leaves somebody. *)
LEMMA ChoiceLeavesSomebody ==
    ASSUME NEW votes \in Votes, NEW S \in SUBSET Players, S # {}
    PROVE  Most(votes, S) # {} /\ Fewest(votes, S) # {}
<1> DEFINE up   == [p \in S |-> votes[p]]
           down == [p \in S |-> 0 - votes[p]]
<1>1. \A p \in S : votes[p] \in Nat
  BY DEF Votes
<1>2. IsFiniteSet(S) /\ up \in [S -> Int] /\ down \in [S -> Int]
  BY <1>1, SizeOfPlayers
<1>3. PICK p \in S : \A q \in S : up[p] <= up[q]
  <2> HIDE DEF up
  <2> QED
    BY <1>2, SmallestNumber
<1>4. PICK r \in S : \A q \in S : down[r] <= down[q]
  <2> HIDE DEF down
  <2> QED
    BY <1>2, SmallestNumber
<1>5. p \in Fewest(votes, S)
  BY <1>3 DEF Fewest
<1>6. r \in Most(votes, S)
  BY <1>1, <1>4 DEF Most
<1> QED
  BY <1>5, <1>6

(* A tie among some players is broken to the cost of some of them. *)
LEMMA TieFallsToSomebody ==
    ASSUME NEW totals \in Votes, NEW S \in SUBSET Players, S # {}
    PROVE  TieCandidates(totals, S) # {}
BY ChoiceLeavesSomebody DEF TieCandidates

(* A phase has a deadline but for the tally, which is asked for at once, and *)
(* the ends.                                                                *)
DeadlineInv == deadline = "none" <=> phase \in TerminalPhases \cup {"tally"}

(* Every step sets or clears the deadline with its phase. *)
LEMMA AlwaysDeadlineInv == Spec => []DeadlineInv
<1>1. Init => DeadlineInv
  BY DEF Init, DeadlineInv, TerminalPhases
<1>2. IInv /\ DeadlineInv /\ [Next]_vars => DeadlineInv'
  <2> SUFFICES ASSUME IInv, DeadlineInv, [Next]_vars PROVE DeadlineInv'
    OBVIOUS
  <2>1. CASE UNCHANGED vars
    BY <2>1 DEF vars, DeadlineInv
  <2>2. CASE Tick
    BY <2>2 DEF Tick, DeadlineInv
  <2>3. CASE Stay
    BY <2>3 DEF Stay, DeadlineInv
  <2>4. ASSUME NEW p, NEW d, Enter(p, d), d = "none" <=> p \in TerminalPhases \cup {"tally"}
        PROVE  DeadlineInv'
    BY <2>4 DEF Enter, DeadlineInv
  <2>5. \/ UNCHANGED vars \/ Tick \/ Stay
        \/ \E p \in {"negotiation", "voting", "runoff_negotiation", "runoff_voting",
                     "elimination", "final_plea", "jury_voting"} : Enter(p, "running")
        \/ \E p \in TerminalPhases \cup {"tally"} : Enter(p, "none")
    BY DEF TerminalPhases, Next, Submission, Advance, ContestantReady, LobbyTimedOut,
           NegotiationTimedOut, NormalBallotSubmitted, VotingTimedOut, CloseVoting,
           NormalBallotsTallied, RunoffStarted, ResolveTie,
           RunoffNegotiationTimedOut, RunoffBallotSubmitted, RunoffTallied,
           EliminationRevealTimedOut, FinalPleaTimedOut, FinalPleaSubmitted,
           StartJuryVoting, JuryBallotSubmitted, JuryTallied
  <2> QED
    BY <2>1, <2>2, <2>3, <2>4, <2>5 DEF TerminalPhases
<1> QED
  BY <1>1, <1>2, AlwaysIInv, PTL DEF Spec

(* What each phase needs to be advanced once its deadline has passed: the  *)
(* guards of the actions, and somebody for each of their choices.          *)
CanAdvance ==
    \/ phase \in {"lobby", "voting", "runoff_negotiation", "final_plea"}
    \/ phase = "negotiation" /\ Len(completedRounds) < MaxRounds
    \/ /\ phase = "tally" /\ normalTally = NoTally
       /\ ValidTallyState
       /\ Most(NormalVotes, Active) # {}
    \/ /\ phase = "tally" /\ normalTally # NoTally
       /\ normalTally.eliminated = NoPlayer
       /\ IsTie(normalTally.leaders)
       /\ normalTally.leaders \subseteq Active
       /\ normalTally.leaders = Active =>
             TieCandidates(AddVotes(cumulative, NoVotes), Active) # {}
    \/ /\ phase = "runoff_voting"
       /\ ValidRunoffBallots
       /\ TieCandidates(AddVotes(cumulative, RunoffVotes),
                        Most(RunoffVotes, runoffPlayerIds)) # {}
    \/ phase = "elimination" /\ CanArchive /\ Cardinality(Active) >= 2
    \/ /\ phase = "jury_voting" /\ Cardinality(Active) = 2
       /\ LET byVotes      == Most(JuryVotes, Active)
              byCumulative == IF IsTie(byVotes) THEN Fewest(cumulative, byVotes)
                                                ELSE byVotes
          IN  /\ byCumulative # {}
              /\ IsTie(byCumulative) => Fewest(MissedRounds, byCumulative) # {}

(* A match that has not ended can be advanced once no deadline holds it,   *)
(* and only the tally has none to wait for.                                *)
NeverStuck ==
    phase \notin TerminalPhases =>
        /\ deadline # "running" => CanAdvance
        /\ deadline = "none" => phase = "tally"

(* A match that has not ended can always be driven on: either its deadline *)
(* is running and will pass, or the step past it is possible.  With        *)
(* MaxRounds two below the roster no bound stands in its way               *)
(* (deadline-handler.ts drives a match by nothing else).                   *)
THEOREM MatchIsNeverStuck ==
    ASSUME MaxRounds >= Cardinality(Players) - 2
    PROVE  Spec => []NeverStuck
<1>1. ASSUME IInv, DeadlineInv
      PROVE  NeverStuck
  <2> SUFFICES ASSUME phase \notin TerminalPhases PROVE CanAdvance
    BY <1>1 DEF NeverStuck, DeadlineInv
  <2>1. /\ Active \in SUBSET Players /\ runoffPlayerIds \in SUBSET Players
        /\ cumulative \in Votes /\ JuryVotes \in Votes /\ NormalVotes \in Votes
        /\ RunoffVotes \in Votes /\ MissedRounds \in Votes
        /\ AddVotes(cumulative, RunoffVotes) \in Votes
        /\ AddVotes(cumulative, NoVotes) \in Votes
    BY <1>1, ActiveOrJuror, CountsAreVotes, MissedRoundsAreVotes DEF IInv, TypeOK
  <2>2. Active # {}
    BY <1>1, FS_EmptySet DEF IInv, SizeInv
  <2>3. CASE phase = "negotiation"
    <3>1. Len(completedRounds) < MaxRounds
      BY <1>1, <2>3, ActiveCount, BoundAssumption DEF IInv, SizeInv, FinalePhases
    <3> QED
      BY <2>3, <3>1 DEF CanAdvance
  <2>4. CASE phase = "tally" /\ normalTally = NoTally
    BY <1>1, <2>1, <2>2, <2>4, ChoiceLeavesSomebody DEF IInv, RoundInv, CanAdvance
  <2>5. CASE phase = "tally" /\ normalTally # NoTally
    BY <1>1, <2>1, <2>2, <2>5, TieFallsToSomebody DEF IInv, RoundInv, CanAdvance
  <2>6. CASE phase = "runoff_voting"
    <3> DEFINE candidates == Most(RunoffVotes, runoffPlayerIds)
    <3>1. runoffPlayerIds # {} /\ ValidRunoffBallots
      BY <1>1, <2>6, FS_EmptySet DEF IInv, RoundInv, RunoffPhases, IsTie
    <3>2. candidates # {} /\ candidates \in SUBSET Players
      BY <2>1, <3>1, ChoiceLeavesSomebody, ChosenAmongCandidates
    <3> HIDE DEF candidates
    <3>3. TieCandidates(AddVotes(cumulative, RunoffVotes), candidates) # {}
      BY <2>1, <3>2, TieFallsToSomebody
    <3> QED
      BY <2>6, <3>1, <3>3 DEF CanAdvance, candidates
  <2>7. CASE phase = "elimination"
    BY <1>1, <2>7 DEF IInv, SizeInv, CanAdvance
  <2>8. CASE phase = "jury_voting"
    <3> DEFINE byVotes      == Most(JuryVotes, Active)
               byCumulative == IF IsTie(byVotes) THEN Fewest(cumulative, byVotes)
                                                 ELSE byVotes
    <3>1. byVotes # {} /\ byVotes \in SUBSET Players
      BY <2>1, <2>2, ChoiceLeavesSomebody, ChosenAmongCandidates
    <3>2. byCumulative # {} /\ byCumulative \in SUBSET Players
      <4> HIDE DEF byVotes
      <4> QED
        BY <2>1, <3>1, ChoiceLeavesSomebody, ChosenAmongCandidates
    <3>3. Fewest(MissedRounds, byCumulative) # {}
      <4> HIDE DEF byCumulative
      <4> QED
        BY <2>1, <3>2, ChoiceLeavesSomebody
    <3>4. Cardinality(Active) = 2
      BY <1>1, <2>8 DEF IInv, SizeInv, FinalePhases
    <3> QED
      BY <2>8, <3>2, <3>3, <3>4 DEF CanAdvance
  <2>9. phase \in Phases
    BY <1>1 DEF IInv, TypeOK
  <2> QED
    BY <2>3, <2>4, <2>5, <2>6, <2>7, <2>8, <2>9 DEF Phases, TerminalPhases, CanAdvance
<1> QED
  BY <1>1, AlwaysIInv, AlwaysDeadlineInv, PTL
=============================================================================
