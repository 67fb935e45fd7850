------------------------ MODULE MatchEngine_proofs ------------------------
(***************************************************************************)
(* Theorems about MatchEngine, for every roster and every bound.           *)
(***************************************************************************)
EXTENDS MatchEngine, FiniteSetTheorems, TLAPS

-----------------------------------------------------------------------------
(* Facts about the helpers *)

(* Every set of players is finite, so its size is a number. *)
LEMMA SizeOfPlayers ==
    \A S \in SUBSET Players : IsFiniteSet(S) /\ Cardinality(S) \in Nat
BY RosterAssumption, FS_Subset, FS_CardinalityType

(* The players counted are some of the candidates. *)
LEMMA ChosenAmongCandidates ==
    ASSUME NEW votes, NEW candidates
    PROVE  /\ Most(votes, candidates) \subseteq candidates
           /\ Fewest(votes, candidates) \subseteq candidates
           /\ TieCandidates(votes, candidates) \subseteq candidates
BY DEF Most, Fewest, TieCandidates

(* Counting ballots and adding totals gives totals. *)
LEMMA CountsAreVotes ==
    /\ NormalVotes \in Votes
    /\ RunoffVotes \in Votes
    /\ JuryVotes \in Votes
    /\ NoVotes \in Votes
    /\ \A a, b \in Votes : AddVotes(a, b) \in Votes
<1>1. \A ballots, p : CastFor(ballots, p) \in SUBSET Players
  BY DEF CastFor
<1>2. \A ballots, p : Cardinality(CastFor(ballots, p)) \in Nat
  BY <1>1, SizeOfPlayers
<1> QED
  BY <1>2 DEF NormalVotes, RunoffVotes, JuryVotes, NoVotes, AddVotes, Votes

(* A ballot that is written again is a ballot. *)
LEMMA RecastIsBallots ==
    ASSUME NEW ballots \in [Players -> Ballot], NEW v \in Players, NEW t \in Players,
           CanRecast(ballots, v, t)
    PROVE  Recast(ballots, v, t) \in [Players -> Ballot]
<1>1. ballots[v].revision + 1 \in 0..MaxRevision
  BY BoundAssumption DEF CanRecast, Ballot
<1> QED
  BY <1>1 DEF Recast, Ballot

(* The values that stand for null are of the types of what they replace. *)
LEMMA NullTypes ==
    /\ NoBallots \in [Players -> Ballot]
    /\ NoTally \in Tally
    /\ NoResolution \in Resolution
    /\ NoResult \in JuryResult
BY CountsAreVotes, BoundAssumption
   DEF NoBallots, NoBallot, Ballot, NoTally, Tally, NoResolution, Resolution,
       NoResult, JuryResult, Methods

-----------------------------------------------------------------------------
(* Type correctness *)

(* A created match is well-typed. *)
LEMMA InitTypeOK == Init => TypeOK
BY NullTypes, CountsAreVotes, BoundAssumption
   DEF Init, TypeOK, Phases, Votes, NoVotes

(* The lobby commands (lobby.ts) preserve the types. *)
LEMMA LobbyTypeOK ==
    ASSUME TypeOK,
           \/ Tick
           \/ \E p \in Players : ContestantReady(p)
           \/ LobbyTimedOut
    PROVE  TypeOK'
<1>1. CASE Tick
  BY <1>1 DEF TypeOK, Tick, voting, runoff, finale
<1>2. ASSUME NEW p \in Players, ContestantReady(p) PROVE TypeOK'
  BY <1>2 DEF TypeOK, ContestantReady, Enter, Stay, Phases, voting, runoff, finale
<1>3. CASE LobbyTimedOut
  BY <1>3 DEF TypeOK, LobbyTimedOut, Enter, Phases, voting, runoff, finale
<1> QED
  BY <1>1, <1>2, <1>3

(* Negotiation, ballots and their tally (voting.ts, tally.ts) preserve the types. *)
LEMMA VotingTypeOK ==
    ASSUME TypeOK,
           \/ NegotiationTimedOut
           \/ \E v, t \in Players : NormalBallotSubmitted(v, t)
           \/ VotingTimedOut
           \/ NormalBallotsTallied
    PROVE  TypeOK'
<1>1. CASE NegotiationTimedOut
  BY <1>1, NullTypes DEF TypeOK, NegotiationTimedOut, Enter, Phases, finale
<1>2. ASSUME NEW v \in Players, NEW t \in Players, NormalBallotSubmitted(v, t)
      PROVE  TypeOK'
  <2>1. normalBallots' \in [Players -> Ballot]
    BY <1>2, RecastIsBallots DEF NormalBallotSubmitted, TypeOK
  <2> QED
    BY <1>2, <2>1 DEF TypeOK, NormalBallotSubmitted, CloseVoting, Enter, Stay,
                      Phases, Active, WithStatus, runoff, finale
<1>3. CASE VotingTimedOut
  BY <1>3 DEF TypeOK, VotingTimedOut, CloseVoting, Enter, Phases, Active,
              WithStatus, runoff, finale
<1>4. CASE NormalBallotsTallied
  <2>1. Most(NormalVotes, Active) \in SUBSET Players
    BY ChosenAmongCandidates DEF Active, WithStatus
  <2>2. cumulative' \in Votes
    BY <1>4, CountsAreVotes DEF NormalBallotsTallied, TypeOK
  <2>3. \A e \in Players \cup {NoPlayer} :
           [selfVotes |-> missingNormalBallotPlayerIds, votes |-> NormalVotes,
            leaders |-> Most(NormalVotes, Active), eliminated |-> e] \in Tally
    BY <2>1, CountsAreVotes DEF Tally, TypeOK
  <2> DEFINE leaders == Most(NormalVotes, Active)
             TallyWith(e) == [selfVotes |-> missingNormalBallotPlayerIds,
                              votes |-> NormalVotes, leaders |-> leaders,
                              eliminated |-> e]
             Typed == /\ normalTally' \in Tally
                      /\ version' \in Nat
                      /\ phase' \in Phases
                      /\ deadline' \in {"none", "running", "expired"}
                      /\ roster' \in [Players -> {"active", "eliminated"}]
  <2>4. \/ normalTally' = TallyWith(NoPlayer) /\ Stay /\ UNCHANGED roster
        \/ \E p \in leaders : /\ normalTally' = TallyWith(p)
                             /\ Enter("elimination", "running")
                             /\ Eliminate(p)
    BY <1>4 DEF NormalBallotsTallied
  <2>5. CASE normalTally' = TallyWith(NoPlayer) /\ Stay /\ UNCHANGED roster
    <3>1. normalTally' \in Tally
      BY <2>3, <2>5
    <3> HIDE DEF TallyWith, leaders
    <3>2. Typed
      BY <2>5, <3>1 DEF TypeOK, Stay
    <3> QED
      BY <1>4, <2>2, <3>2 DEF TypeOK, NormalBallotsTallied, runoff, finale
  <2>6. ASSUME NEW p \in leaders, normalTally' = TallyWith(p),
               Enter("elimination", "running"), Eliminate(p)
        PROVE  TypeOK'
    <3>1. normalTally' \in Tally /\ p \in Players
      BY <2>1, <2>3, <2>6
    <3> HIDE DEF TallyWith, leaders
    <3>2. roster' \in [Players -> {"active", "eliminated"}]
      BY <2>6, <3>1 DEF TypeOK, Eliminate
    <3>3. Typed
      BY <2>6, <3>1, <3>2 DEF TypeOK, Enter, Phases
    <3> QED
      BY <1>4, <2>2, <3>3 DEF TypeOK, NormalBallotsTallied, runoff, finale
  <2> QED
    BY <2>4, <2>5, <2>6
<1> QED
  BY <1>1, <1>2, <1>3, <1>4

(* Resolving a tie among players eliminates one of them. *)
LEMMA ResolveTieTypeOK ==
    ASSUME TypeOK, NEW tied \in SUBSET Players, NEW votes \in Votes,
           NEW candidates \in SUBSET Players, ResolveTie(tied, votes, candidates)
    PROVE  /\ version' \in Nat
           /\ phase' = "elimination"
           /\ deadline' = "running"
           /\ cumulative' \in Votes
           /\ runoffPlayerIds' = tied
           /\ tieResolution' \in Resolution
           /\ tieResolution'.eliminated \in candidates
           /\ roster' = [roster EXCEPT ![tieResolution'.eliminated] = "eliminated"]
<1> DEFINE totals    == AddVotes(cumulative, votes)
           remaining == TieCandidates(totals, candidates)
<1>1. totals \in Votes
  BY CountsAreVotes DEF TypeOK
<1>2. remaining \in SUBSET candidates
  BY ChosenAmongCandidates
<1>3. PICK p \in remaining :
        /\ Eliminate(p)
        /\ tieResolution' =
              [votes |-> votes, candidates |-> remaining, eliminated |-> p,
               method |-> IF IsTie(remaining) THEN "random_draw"
                          ELSE IF IsTie(candidates) THEN "cumulative_votes"
                          ELSE "runoff_vote"]
  BY DEF ResolveTie
<1> HIDE DEF totals, remaining
<1>4. tieResolution' \in Resolution
  BY <1>2, <1>3 DEF Resolution, Methods
<1>5. cumulative' = totals
  BY DEF ResolveTie, totals
<1> QED
  BY <1>1, <1>2, <1>3, <1>4, <1>5 DEF ResolveTie, Enter, Eliminate, TypeOK

(* The runoff commands (runoff.ts) preserve the types. *)
LEMMA RunoffTypeOK ==
    ASSUME TypeOK,
           \/ RunoffStarted
           \/ RunoffNegotiationTimedOut
           \/ \E v, t \in Players : RunoffBallotSubmitted(v, t)
           \/ RunoffTallied
    PROVE  TypeOK'
<1>1. CASE RunoffStarted
  <2>1. CASE ResolveTie(Active, NoVotes, Active) /\ UNCHANGED runoffBallots
    <3>1. Active \in SUBSET Players /\ NoVotes \in Votes
      BY CountsAreVotes DEF Active, WithStatus
    <3> QED
      BY <1>1, <2>1, <3>1, ResolveTieTypeOK
         DEF RunoffStarted, TypeOK, Phases, voting, finale
  <2>2. CASE /\ Enter("runoff_negotiation", "running")
             /\ runoffPlayerIds' = normalTally.leaders
             /\ runoffBallots' = NoBallots
             /\ tieResolution' = NoResolution
             /\ UNCHANGED <<roster, cumulative>>
    <3>1. normalTally.leaders \in SUBSET Players
      BY DEF TypeOK, Tally
    <3> QED
      BY <1>1, <2>2, <3>1, NullTypes
         DEF RunoffStarted, TypeOK, Enter, Phases, voting, finale
  <2> QED
    BY <1>1, <2>1, <2>2 DEF RunoffStarted
<1>2. CASE RunoffNegotiationTimedOut
  BY <1>2 DEF TypeOK, RunoffNegotiationTimedOut, Enter, Phases, voting, runoff, finale
<1>3. ASSUME NEW v \in Players, NEW t \in Players, RunoffBallotSubmitted(v, t)
      PROVE  TypeOK'
  <2>1. runoffBallots' \in [Players -> Ballot]
    BY <1>3, RecastIsBallots DEF RunoffBallotSubmitted, TypeOK
  <2> QED
    BY <1>3, <2>1 DEF TypeOK, RunoffBallotSubmitted, Stay, voting, finale
<1>4. CASE RunoffTallied
  <2>1. /\ RunoffVotes \in Votes
        /\ runoffPlayerIds \in SUBSET Players
        /\ Most(RunoffVotes, runoffPlayerIds) \in SUBSET Players
    BY CountsAreVotes, ChosenAmongCandidates DEF TypeOK
  <2>2. ResolveTie(runoffPlayerIds, RunoffVotes, Most(RunoffVotes, runoffPlayerIds))
    BY <1>4 DEF RunoffTallied
  <2>3. /\ version' \in Nat
        /\ phase' = "elimination"
        /\ deadline' = "running"
        /\ cumulative' \in Votes
        /\ runoffPlayerIds' = runoffPlayerIds
        /\ tieResolution' \in Resolution
        /\ roster' = [roster EXCEPT ![tieResolution'.eliminated] = "eliminated"]
    BY <2>1, <2>2, ResolveTieTypeOK
  <2> QED
    BY <1>4, <2>3 DEF RunoffTallied, TypeOK, Phases, voting, finale
<1> QED
  BY <1>1, <1>2, <1>3, <1>4

(* Reveal, pleas and the jury (finale.ts) preserve the types. *)
LEMMA FinaleTypeOK ==
    ASSUME TypeOK,
           \/ EliminationRevealTimedOut
           \/ FinalPleaTimedOut
           \/ \E p \in Players : FinalPleaSubmitted(p)
           \/ \E j, f \in Players : JuryBallotSubmitted(j, f)
           \/ JuryTallied
    PROVE  TypeOK'
<1>1. CASE EliminationRevealTimedOut
  <2>1. RoundEliminated \in Players
    BY <1>1 DEF EliminationRevealTimedOut, CanArchive, Jurors, WithStatus
  <2>2. ArchivedRound \in Round
    BY <2>1 DEF ArchivedRound, Round, TypeOK, Tally, Resolution
  <2>3. completedRounds' \in Seq(Round)
    BY <1>1, <2>2 DEF EliminationRevealTimedOut, TypeOK
  <2>4. finalPleas' \in [Players -> 0..MaxRevision]
    BY <1>1, BoundAssumption DEF EliminationRevealTimedOut, NoVotes
  <2> QED
    BY <1>1, <2>3, <2>4, NullTypes
       DEF TypeOK, EliminationRevealTimedOut, Enter, Phases, voting, runoff
<1>2. CASE FinalPleaTimedOut
  BY <1>2, NullTypes
     DEF TypeOK, FinalPleaTimedOut, StartJuryVoting, Enter, Phases, voting, runoff
<1>3. ASSUME NEW p \in Players, FinalPleaSubmitted(p) PROVE TypeOK'
  <2>1. finalPleas' \in [Players -> 0..MaxRevision]
    BY <1>3, BoundAssumption DEF FinalPleaSubmitted, TypeOK
  <2> QED
    BY <1>3, <2>1, NullTypes
       DEF TypeOK, FinalPleaSubmitted, StartJuryVoting, Enter, Stay, Phases,
           voting, runoff
<1>4. ASSUME NEW j \in Players, NEW f \in Players, JuryBallotSubmitted(j, f)
      PROVE  TypeOK'
  <2>1. juryBallots' \in [Players -> Ballot]
    BY <1>4, RecastIsBallots DEF JuryBallotSubmitted, TypeOK
  <2> QED
    BY <1>4, <2>1 DEF TypeOK, JuryBallotSubmitted, Stay, voting, runoff
<1>5. CASE JuryTallied
  <2> DEFINE byVotes      == Most(JuryVotes, Active)
             byCumulative == IF IsTie(byVotes) THEN Fewest(cumulative, byVotes)
                                               ELSE byVotes
             byMissed     == IF IsTie(byCumulative)
                             THEN Fewest(MissedRounds, byCumulative)
                             ELSE byCumulative
  <2>1. byMissed \in SUBSET Players
    BY ChosenAmongCandidates DEF Active, WithStatus
  <2>2. winnerPlayerId' \in byMissed
    BY <1>5 DEF JuryTallied
  <2>3. juryResult' \in JuryResult
    <3>1. juryResult'.method \in Methods /\ juryResult' =
             [votes |-> JuryVotes, candidates |-> byMissed,
              method |-> juryResult'.method]
      BY <1>5 DEF JuryTallied, Methods
    <3> HIDE DEF byMissed
    <3> QED
      BY <2>1, <3>1, CountsAreVotes DEF JuryResult
  <2> HIDE DEF byMissed
  <2> QED
    BY <1>5, <2>1, <2>2, <2>3
       DEF TypeOK, JuryTallied, Enter, Phases, voting, runoff
<1> QED
  BY <1>1, <1>2, <1>3, <1>4, <1>5

(* Every value the match holds has its type, whatever the roster size and  *)
(* however often ballots change (match-state.ts:15-113).                   *)
THEOREM TypeCorrect == Spec => []TypeOK
<1>1. TypeOK /\ [Next]_vars => TypeOK'
  <2> SUFFICES ASSUME TypeOK, [Next]_vars PROVE TypeOK'
    OBVIOUS
  <2>1. CASE UNCHANGED vars
    BY <2>1 DEF TypeOK, vars, voting, runoff, finale
  <2>2. CASE Next
    BY <2>2, LobbyTypeOK, VotingTypeOK, RunoffTypeOK, FinaleTypeOK
       DEF Next, Submission, Advance
  <2> QED
    BY <2>1, <2>2
<1> QED
  BY InitTypeOK, <1>1, PTL DEF Spec

-----------------------------------------------------------------------------
(***************************************************************************)
(* The inductive invariant                                                 *)
(*                                                                         *)
(* NeverInvalid is not inductive: that a tally is valid rests on what      *)
(* ballots voting accepts, that a round can be archived on the tie the     *)
(* runoff began with, and the size of the final on the size before it.     *)
(***************************************************************************)

FinalePhases == {"final_plea", "jury_voting", "complete"}

RunoffPhases == {"runoff_negotiation", "runoff_voting"}

(* The ballots and results of the round under way. *)
RoundInv ==
    /\ phase = "voting" =>
          /\ normalTally = NoTally
          /\ \A v \in Voted(normalBallots) :
                v \in Active /\ normalBallots[v].target \in Active \ {v}
    /\ phase = "tally" /\ normalTally = NoTally => ValidTallyState
    /\ phase = "tally" /\ normalTally # NoTally =>
          /\ normalTally.eliminated = NoPlayer
          /\ IsTie(normalTally.leaders)
          /\ normalTally.leaders \subseteq Active
    /\ phase \in RunoffPhases =>
          /\ normalTally # NoTally
          /\ normalTally.eliminated = NoPlayer
          /\ IsTie(runoffPlayerIds)
          /\ runoffPlayerIds \subseteq Active
          /\ runoffPlayerIds # Active
          /\ ValidRunoffBallots
    /\ phase = "jury_voting" =>
          \A j \in Voted(juryBallots) :
              j \in Jurors /\ juryBallots[j].target \in Active

(* How many contestants are left in each phase. *)
SizeInv ==
    /\ phase \in FinalePhases => Cardinality(Active) = 2
    /\ phase = "elimination" => Cardinality(Active) >= 2 /\ CanArchive
    /\ phase \notin FinalePhases \cup {"elimination"} => Cardinality(Active) >= 3
    /\ phase \in TerminalPhases => deadline = "none"

Archived == {completedRounds[r].eliminated : r \in DOMAIN completedRounds}

Revealed == IF phase = "elimination" THEN {RoundEliminated} ELSE {}

(* Who is out, and that it was by a round of his own. *)
RosterInv ==
    /\ Jurors = Archived \cup Revealed
    /\ Cardinality(Archived) = Len(completedRounds)
    /\ Revealed \cap Archived = {}

IInv == TypeOK /\ RoundInv /\ SizeInv /\ RosterInv

(* Every player is either active or a juror. *)
LEMMA ActiveOrJuror ==
    ASSUME TypeOK
    PROVE  /\ Active \subseteq Players
           /\ Jurors = Players \ Active
           /\ Cardinality(Active) \in Nat
<1>1. Active \subseteq Players /\ Jurors = Players \ Active
  BY DEF TypeOK, Active, Jurors, WithStatus
<1> QED
  BY <1>1, SizeOfPlayers

(* Who is active and who is out depends on the roster alone. *)
LEMMA SameRoster ==
    ASSUME UNCHANGED roster
    PROVE  Active' = Active /\ Jurors' = Jurors
BY DEF Active, Jurors, WithStatus

(* An elimination moves one player from the active to the jurors. *)
LEMMA RosterAfterEliminate ==
    ASSUME TypeOK, NEW p \in Active, Eliminate(p)
    PROVE  /\ Active' = Active \ {p}
           /\ Jurors' = Jurors \cup {p}
           /\ Cardinality(Active') = Cardinality(Active) - 1
<1>1. Active' = Active \ {p} /\ Jurors' = Jurors \cup {p}
  BY DEF TypeOK, Eliminate, Active, Jurors, WithStatus
<1>2. IsFiniteSet(Active)
  BY ActiveOrJuror, SizeOfPlayers
<1> QED
  BY <1>1, <1>2, FS_RemoveElement

(* Outside the reveal, a step that removes and archives nobody keeps the   *)
(* accounts of who is out.                                                 *)
LEMMA QuietRoster ==
    ASSUME RosterInv, UNCHANGED <<roster, completedRounds>>,
           phase # "elimination", phase' # "elimination"
    PROVE  RosterInv'
BY SameRoster DEF RosterInv, Archived, Revealed

(* The step into a reveal: one active player falls, and is the round's.    *)
LEMMA EliminationStep ==
    ASSUME TypeOK, SizeInv, RosterInv, NEW p \in Active, Eliminate(p),
           phase \in {"tally", "runoff_voting"}, phase' = "elimination",
           deadline' = "running", UNCHANGED completedRounds,
           RoundEliminated' = p, (normalTally # NoTally)'
    PROVE  RoundInv' /\ SizeInv' /\ RosterInv'
<1>1. /\ Jurors' = Jurors \cup {p}
      /\ p \notin Jurors
      /\ Cardinality(Active)' = Cardinality(Active) - 1
      /\ Cardinality(Active) \in Nat
  BY RosterAfterEliminate, ActiveOrJuror
<1>2. RoundInv'
  BY DEF RoundInv, RunoffPhases
<1>3. SizeInv'
  BY <1>1 DEF SizeInv, FinalePhases, TerminalPhases, CanArchive
<1>4. RosterInv'
  <2>1. Archived' = Archived /\ Revealed' = {p} /\ Revealed = {}
    BY DEF Archived, Revealed
  <2> QED
    BY <1>1, <2>1 DEF RosterInv
<1> QED
  BY <1>2, <1>3, <1>4

(* A created match satisfies the inductive invariant. *)
LEMMA InitIInv == Init => IInv
<1> SUFFICES ASSUME Init PROVE RoundInv /\ SizeInv /\ RosterInv
  BY InitTypeOK DEF IInv
<1>1. Active = Players /\ Jurors = {}
  BY DEF Init, Active, Jurors, WithStatus
<1>2. RoundInv
  BY DEF Init, RoundInv, RunoffPhases
<1>3. SizeInv
  BY <1>1, SizeOfPlayers, RosterAssumption
     DEF Init, SizeInv, FinalePhases, TerminalPhases
<1>4. RosterInv
  <2>1. Archived = {} /\ Revealed = {} /\ Len(completedRounds) = 0
    BY DEF Init, Archived, Revealed
  <2> QED
    BY <1>1, <2>1, FS_EmptySet DEF RosterInv
<1> QED
  BY <1>2, <1>3, <1>4

(* The passing of a deadline preserves the invariant. *)
LEMMA TickKeeps ==
    ASSUME IInv, Tick
    PROVE  RoundInv' /\ SizeInv' /\ RosterInv'
<1>1. Active' = Active /\ Jurors' = Jurors
  BY SameRoster DEF Tick
<1>2. RoundInv'
  BY <1>1 DEF IInv, Tick, RoundInv, voting, runoff, finale, ValidTallyState,
              ValidRunoffBallots, RunoffVoters, Voted
<1>3. SizeInv' /\ RosterInv'
  BY <1>1 DEF IInv, Tick, SizeInv, RosterInv, Archived, Revealed, RoundEliminated,
              CanArchive, voting, runoff
<1> QED
  BY <1>2, <1>3

(* The lobby preserves the invariant. *)
LEMMA LobbyKeeps ==
    ASSUME IInv,
           (\E p \in Players : ContestantReady(p)) \/ LobbyTimedOut
    PROVE  RoundInv' /\ SizeInv' /\ RosterInv'
<1>1. /\ phase = "lobby"
      /\ phase' \in {"lobby", "negotiation", "cancelled"}
      /\ phase' = "cancelled" => deadline' = "none"
      /\ UNCHANGED <<roster, completedRounds>>
  BY DEF ContestantReady, LobbyTimedOut, Enter, Stay
<1>2. RoundInv'
  BY <1>1 DEF RoundInv, RunoffPhases
<1>3. SizeInv'
  BY <1>1, SameRoster DEF IInv, SizeInv, FinalePhases, TerminalPhases
<1> QED
  BY <1>1, <1>2, <1>3, QuietRoster DEF IInv

(* Opening a vote, a ballot and closing a vote preserve the invariant. *)
LEMMA VotingKeeps ==
    ASSUME IInv,
           \/ NegotiationTimedOut
           \/ \E v, t \in Players : NormalBallotSubmitted(v, t)
           \/ VotingTimedOut
    PROVE  RoundInv' /\ SizeInv' /\ RosterInv'
<1>1. /\ phase \in {"negotiation", "voting"}
      /\ phase' \in {"voting", "tally"}
      /\ UNCHANGED <<roster, completedRounds>>
  BY DEF NegotiationTimedOut, NormalBallotSubmitted, VotingTimedOut, CloseVoting,
         Enter, Stay
<1>2. SizeInv' /\ RosterInv'
  BY <1>1, SameRoster, QuietRoster DEF IInv, SizeInv, FinalePhases, TerminalPhases
<1>3. CASE NegotiationTimedOut
  <2>1. Voted(normalBallots)' = {}
    BY <1>3 DEF NegotiationTimedOut, Voted, NoBallots, NoBallot
  <2> QED
    BY <1>2, <1>3, <2>1 DEF NegotiationTimedOut, Enter, RoundInv, RunoffPhases
<1>4. ASSUME NEW v \in Players, NEW t \in Players, NormalBallotSubmitted(v, t)
      PROVE  RoundInv'
  <2>1. \A w \in Voted(normalBallots)' :
           w \in Active /\ normalBallots'[w].target \in Active \ {w}
    BY <1>4 DEF NormalBallotSubmitted, Recast, Voted, IInv, RoundInv, TypeOK
  <2>2. phase' = "tally" =>
           missingNormalBallotPlayerIds' = Active \ Voted(normalBallots')
    BY <1>4 DEF NormalBallotSubmitted, CloseVoting, Stay
  <2>3. Active' = Active /\ UNCHANGED normalTally /\ phase = "voting"
    BY <1>4, SameRoster DEF NormalBallotSubmitted
  <2> QED
    BY <1>1, <2>1, <2>2, <2>3
       DEF IInv, RoundInv, RunoffPhases, ValidTallyState, Voted
<1>5. CASE VotingTimedOut
  <2>1. /\ phase = "voting"
        /\ phase' = "tally"
        /\ Active' = Active
        /\ UNCHANGED <<normalBallots, normalTally>>
        /\ missingNormalBallotPlayerIds' = Active \ Voted(normalBallots')
    BY <1>5, SameRoster DEF VotingTimedOut, CloseVoting, Enter
  <2>2. ValidTallyState' /\ normalTally' = NoTally
    BY <2>1 DEF IInv, RoundInv, ValidTallyState, Voted
  <2>3. RoundInv'
    BY <2>1, <2>2 DEF RoundInv, RunoffPhases
  <2> QED
    BY <1>2, <2>3
<1> QED
  BY <1>2, <1>3, <1>4, <1>5

(* The tally, clear or tied, preserves the invariant. *)
LEMMA TallyKeeps ==
    ASSUME IInv, NormalBallotsTallied
    PROVE  RoundInv' /\ SizeInv' /\ RosterInv'
<1> DEFINE leaders == Most(NormalVotes, Active)
<1>1. leaders \subseteq Active /\ UNCHANGED completedRounds /\ phase = "tally"
  BY ChosenAmongCandidates DEF NormalBallotsTallied
<1>2. CASE /\ IsTie(leaders)
           /\ normalTally'.leaders = leaders
           /\ normalTally'.eliminated = NoPlayer
           /\ Stay
           /\ UNCHANGED roster
  <2> HIDE DEF leaders
  <2>1. Active' = Active /\ phase' = "tally"
    BY <1>1, <1>2, SameRoster DEF Stay
  <2>2. (normalTally # NoTally)'
    BY <1>1, <1>2, FS_EmptySet DEF IsTie, NoTally
  <2>3. RoundInv'
    BY <1>1, <1>2, <2>1, <2>2 DEF RoundInv, RunoffPhases, IsTie
  <2> QED
    BY <1>1, <1>2, <2>1, <2>3, QuietRoster
       DEF IInv, SizeInv, FinalePhases, TerminalPhases
<1>3. ASSUME NEW p \in leaders, normalTally'.eliminated = p,
             Enter("elimination", "running"), Eliminate(p)
      PROVE  RoundInv' /\ SizeInv' /\ RosterInv'
  <2>1. p \in Active /\ p # NoPlayer
    BY <1>1, ActiveOrJuror, RosterAssumption DEF IInv
  <2>2. RoundEliminated' = p /\ (normalTally # NoTally)'
    BY <1>3, <2>1 DEF RoundEliminated, NoTally
  <2> QED
    BY <1>1, <1>3, <2>1, <2>2, EliminationStep DEF IInv, Enter
<1> QED
  BY <1>2, <1>3 DEF NormalBallotsTallied

(* The resolution of a tie preserves the invariant. *)
LEMMA ResolveTieKeeps ==
    ASSUME IInv, NEW tied \in SUBSET Players, NEW votes \in Votes,
           NEW candidates \in SUBSET Active, ResolveTie(tied, votes, candidates),
           phase \in {"tally", "runoff_voting"}, normalTally # NoTally,
           normalTally.eliminated = NoPlayer, UNCHANGED <<voting, completedRounds>>
    PROVE  RoundInv' /\ SizeInv' /\ RosterInv'
<1> DEFINE p == tieResolution'.eliminated
<1>1. candidates \in SUBSET Players
  BY ActiveOrJuror DEF IInv
<1>2. /\ p \in candidates
      /\ Eliminate(p)
      /\ phase' = "elimination"
      /\ deadline' = "running"
  BY <1>1, ResolveTieTypeOK DEF IInv, Eliminate
<1>3. p \in Active /\ RoundEliminated' = p /\ (normalTally # NoTally)'
  BY <1>2 DEF RoundEliminated, voting, NoTally
<1> HIDE DEF p
<1> QED
  BY <1>2, <1>3, EliminationStep DEF IInv

(* The runoff preserves the invariant. *)
LEMMA RunoffKeeps ==
    ASSUME IInv,
           \/ RunoffStarted
           \/ RunoffNegotiationTimedOut
           \/ \E v, t \in Players : RunoffBallotSubmitted(v, t)
           \/ RunoffTallied
    PROVE  RoundInv' /\ SizeInv' /\ RosterInv'
<1>1. CASE RunoffStarted /\ normalTally.leaders = Active
  <2>1. ResolveTie(Active, NoVotes, Active)
    BY <1>1 DEF RunoffStarted
  <2>2. /\ phase \in {"tally", "runoff_voting"}
        /\ normalTally # NoTally
        /\ normalTally.eliminated = NoPlayer
        /\ UNCHANGED <<voting, completedRounds>>
    BY <1>1 DEF RunoffStarted
  <2>3. Active \in SUBSET Players /\ NoVotes \in Votes
    BY ActiveOrJuror, CountsAreVotes DEF IInv
  <2> QED
    BY <2>1, <2>2, <2>3, ResolveTieKeeps
<1>2. CASE RunoffStarted /\ normalTally.leaders # Active
  <2>1. /\ phase = "tally"
        /\ phase' = "runoff_negotiation"
        /\ normalTally' # NoTally
        /\ normalTally'.eliminated = NoPlayer
        /\ runoffPlayerIds' = normalTally.leaders
        /\ Voted(runoffBallots)' = {}
        /\ UNCHANGED <<roster, completedRounds>>
    BY <1>2 DEF RunoffStarted, Enter, voting, Voted, NoBallots, NoBallot
  <2>2. RoundInv'
    BY <1>2, <2>1, SameRoster
       DEF RunoffStarted, RoundInv, RunoffPhases, ValidRunoffBallots, IsTie
  <2> QED
    BY <2>1, <2>2, SameRoster, QuietRoster
       DEF IInv, SizeInv, FinalePhases, TerminalPhases
<1>3. CASE RunoffNegotiationTimedOut
  <2>1. RoundInv'
    BY <1>3, SameRoster
       DEF RunoffNegotiationTimedOut, Enter, IInv, RoundInv, RunoffPhases, voting,
           runoff, ValidRunoffBallots, RunoffVoters, Voted, IsTie
  <2> QED
    BY <1>3, <2>1, SameRoster, QuietRoster
       DEF RunoffNegotiationTimedOut, Enter, IInv, SizeInv, FinalePhases,
           TerminalPhases
<1>4. ASSUME NEW v \in Players, NEW t \in Players, RunoffBallotSubmitted(v, t)
      PROVE  RoundInv' /\ SizeInv' /\ RosterInv'
  <2>1. Active' = Active
    BY <1>4, SameRoster DEF RunoffBallotSubmitted
  <2>2. ValidRunoffBallots'
    BY <1>4, <2>1 DEF RunoffBallotSubmitted, ValidRunoffBallots, RunoffVoters,
                      Voted, Recast, IInv, TypeOK
  <2>3. RoundInv'
    BY <1>4, <2>1, <2>2
       DEF RunoffBallotSubmitted, Stay, IInv, RoundInv, RunoffPhases, voting, IsTie
  <2> QED
    BY <1>4, <2>1, <2>3, QuietRoster
       DEF RunoffBallotSubmitted, Stay, IInv, SizeInv, FinalePhases, TerminalPhases
<1>5. CASE RunoffTallied
  <2>1. /\ normalTally # NoTally
        /\ normalTally.eliminated = NoPlayer
        /\ runoffPlayerIds \subseteq Active
        /\ phase = "runoff_voting"
    BY <1>5 DEF RunoffTallied, IInv, RoundInv, RunoffPhases
  <2>2. Most(RunoffVotes, runoffPlayerIds) \in SUBSET Active
    BY <2>1, ChosenAmongCandidates
  <2>3. runoffPlayerIds \in SUBSET Players /\ RunoffVotes \in Votes
    BY CountsAreVotes DEF IInv, TypeOK
  <2> QED
    BY <1>5, <2>1, <2>2, <2>3, ResolveTieKeeps DEF RunoffTallied
<1> QED
  BY <1>1, <1>2, <1>3, <1>4, <1>5

(* The reveal, which archives the round, preserves the invariant. *)
LEMMA RevealKeeps ==
    ASSUME IInv, EliminationRevealTimedOut
    PROVE  RoundInv' /\ SizeInv' /\ RosterInv'
<1>1. /\ phase = "elimination"
      /\ phase' = IF Cardinality(Active) = 2 THEN "final_plea" ELSE "negotiation"
      /\ deadline' = "running"
      /\ Active' = Active
      /\ Jurors' = Jurors
      /\ completedRounds' = Append(completedRounds, ArchivedRound)
  BY SameRoster DEF EliminationRevealTimedOut, Enter
<1>2. RoundInv'
  BY <1>1 DEF RoundInv, RunoffPhases
<1>3. SizeInv'
  BY <1>1, ActiveOrJuror DEF IInv, SizeInv, FinalePhases, TerminalPhases
<1>4. completedRounds \in Seq(Round)
  BY DEF IInv, TypeOK
<1>5. Archived' = Archived \cup {RoundEliminated}
  <2> DEFINE old == DOMAIN completedRounds
  <2>1. DOMAIN completedRounds' = old \cup {Len(completedRounds) + 1}
    BY <1>1, <1>4
  <2>2. \A r \in old : completedRounds'[r] = completedRounds[r]
    BY <1>1, <1>4
  <2>3. completedRounds'[Len(completedRounds) + 1].eliminated = RoundEliminated
    BY <1>1, <1>4 DEF ArchivedRound
  <2> QED
    BY <2>1, <2>2, <2>3 DEF Archived
<1>6. RosterInv'
  <2>1. Revealed = {RoundEliminated} /\ Revealed' = {}
    BY <1>1 DEF Revealed
  <2>2. IsFiniteSet(Archived)
    BY ActiveOrJuror, SizeOfPlayers DEF IInv, RosterInv
  <2>3. Cardinality(Archived') = Cardinality(Archived) + 1
    BY <1>5, <2>1, <2>2, FS_AddElement DEF IInv, RosterInv
  <2>4. Len(completedRounds') = Len(completedRounds) + 1
    BY <1>1, <1>4
  <2> QED
    BY <1>1, <1>5, <2>1, <2>3, <2>4 DEF IInv, RosterInv
<1> QED
  BY <1>2, <1>3, <1>6

(* Pleas and jury preserve the invariant. *)
LEMMA FinaleKeeps ==
    ASSUME IInv,
           \/ FinalPleaTimedOut
           \/ \E p \in Players : FinalPleaSubmitted(p)
           \/ \E j, f \in Players : JuryBallotSubmitted(j, f)
           \/ JuryTallied
    PROVE  RoundInv' /\ SizeInv' /\ RosterInv'
<1>1. /\ phase \in FinalePhases
      /\ phase' \in FinalePhases
      /\ phase' = "complete" => deadline' = "none"
      /\ UNCHANGED <<roster, completedRounds>>
  BY DEF FinalPleaTimedOut, FinalPleaSubmitted, StartJuryVoting,
         JuryBallotSubmitted, JuryTallied, Enter, Stay, FinalePhases
<1>2. Active' = Active /\ Jurors' = Jurors
  BY <1>1, SameRoster
<1>3. SizeInv' /\ RosterInv'
  BY <1>1, <1>2, QuietRoster DEF IInv, SizeInv, FinalePhases, TerminalPhases
<1>4. phase' = "jury_voting" =>
         \A j \in Voted(juryBallots)' :
             j \in Jurors /\ juryBallots'[j].target \in Active
  <2>1. CASE UNCHANGED juryBallots /\ phase = "jury_voting"
    BY <2>1 DEF IInv, RoundInv, Voted
  <2>2. CASE juryBallots' = NoBallots
    BY <2>2 DEF Voted, NoBallots, NoBallot
  <2>3. ASSUME NEW j \in Players, NEW f \in Players, JuryBallotSubmitted(j, f)
        PROVE  \A k \in Voted(juryBallots)' :
                   k \in Jurors /\ juryBallots'[k].target \in Active
    BY <2>3 DEF JuryBallotSubmitted, Recast, Voted, IInv, RoundInv, TypeOK
  <2> QED
    BY <2>1, <2>2, <2>3
       DEF FinalPleaTimedOut, FinalPleaSubmitted, StartJuryVoting, JuryTallied,
           Enter, Stay
<1>5. RoundInv'
  BY <1>1, <1>2, <1>4 DEF RoundInv, RunoffPhases, FinalePhases
<1> QED
  BY <1>3, <1>5

(* Every step of the engine preserves the invariant. *)
LEMMA StepKeepsIInv ==
    ASSUME IInv, [Next]_vars
    PROVE  IInv'
<1>1. TypeOK'
  BY LobbyTypeOK, VotingTypeOK, RunoffTypeOK, FinaleTypeOK
     DEF IInv, Next, Submission, Advance, TypeOK, vars, voting, runoff, finale
<1>2. CASE UNCHANGED vars
  BY <1>1, <1>2, SameRoster
     DEF IInv, RoundInv, SizeInv, RosterInv, Archived, Revealed, RoundEliminated,
         CanArchive, ValidTallyState, ValidRunoffBallots, RunoffVoters, Voted,
         vars, voting, runoff, finale
<1>3. CASE Next
  BY <1>1, <1>3, TickKeeps, LobbyKeeps, VotingKeeps, TallyKeeps, RunoffKeeps,
     RevealKeeps, FinaleKeeps
     DEF IInv, Next, Submission, Advance
<1> QED
  BY <1>2, <1>3

(* The inductive invariant holds of every reachable state. *)
LEMMA AlwaysIInv == Spec => []IInv
BY InitIInv, StepKeepsIInv, PTL DEF Spec

(* No reachable match is one the engine refuses to go on from: a tally is  *)
(* always valid, a runoff always has a tie and a voter outside it, a       *)
(* reveal can always be archived (tally.ts:64-93, runoff.ts:224-241,       *)
(* finale.ts:118-145).                                                     *)
THEOREM NeverInvalidAlways == Spec => []NeverInvalid
<1>1. IInv => NeverInvalid
  <2> SUFFICES ASSUME IInv PROVE NeverInvalid
    OBVIOUS
  <2>1. phase \in RunoffPhases => RunoffVoters # {}
    BY DEF IInv, RoundInv, RunoffVoters
  <2> QED
    BY <2>1 DEF IInv, RoundInv, SizeInv, NeverInvalid, RunoffPhases
<1> QED
  BY <1>1, AlwaysIInv, PTL

(* Each archived round removed one contestant of its own and nobody else   *)
(* is out, so that exactly two are left in every finale (tally.ts:189-195, *)
(* finale.ts:282-324).                                                     *)
THEOREM OneEliminationPerRoundAlways == Spec => []OneEliminationPerRound
<1>1. IInv => OneEliminationPerRound
  BY DEF IInv, SizeInv, RosterInv, OneEliminationPerRound, Archived, Revealed,
         FinalePhases
<1> QED
  BY <1>1, AlwaysIInv, PTL

(* Archived rounds are never rewritten, who is out stays out, and a match  *)
(* that ended never changes again (transition.ts:16-29).                   *)
THEOREM DecisionsStand == Spec => Irrevocable
<1>1. ASSUME IInv, [Next]_vars
      PROVE  [ /\ SubSeq(completedRounds', 1, Len(completedRounds)) = completedRounds
               /\ Jurors \subseteq Jurors'
               /\ phase \in TerminalPhases => UNCHANGED vars ]_vars
  <2> SUFFICES ASSUME Next
               PROVE  /\ SubSeq(completedRounds', 1, Len(completedRounds))
                            = completedRounds
                      /\ Jurors \subseteq Jurors'
                      /\ phase \notin TerminalPhases
    BY <1>1
  <2>1. completedRounds \in Seq(Round) /\ TypeOK
    BY <1>1 DEF IInv, TypeOK
  <2>2. \/ UNCHANGED completedRounds
        \/ completedRounds' = Append(completedRounds, ArchivedRound)
    BY DEF Next, Submission, Advance, Tick, ContestantReady, LobbyTimedOut,
           NegotiationTimedOut, NormalBallotSubmitted, VotingTimedOut,
           NormalBallotsTallied, RunoffStarted, RunoffNegotiationTimedOut,
           RunoffBallotSubmitted, RunoffTallied, EliminationRevealTimedOut,
           FinalPleaTimedOut, FinalPleaSubmitted, JuryBallotSubmitted, JuryTallied
  <2>3. SubSeq(completedRounds', 1, Len(completedRounds)) = completedRounds
    BY <2>1, <2>2
  <2>4. UNCHANGED roster \/ \E p : Eliminate(p)
    BY DEF Next, Submission, Advance, Tick, ContestantReady, LobbyTimedOut,
           NegotiationTimedOut, NormalBallotSubmitted, VotingTimedOut,
           NormalBallotsTallied, RunoffStarted, ResolveTie,
           RunoffNegotiationTimedOut, RunoffBallotSubmitted, RunoffTallied,
           EliminationRevealTimedOut, FinalPleaTimedOut, FinalPleaSubmitted,
           JuryBallotSubmitted, JuryTallied
  <2>5. Jurors \subseteq Jurors'
    BY <2>1, <2>4 DEF Eliminate, Jurors, WithStatus, TypeOK
  <2>6. phase \notin TerminalPhases
    BY <1>1 DEF IInv, SizeInv, TerminalPhases,
           Next, Submission, Advance, Tick, ContestantReady, LobbyTimedOut,
           NegotiationTimedOut, NormalBallotSubmitted, VotingTimedOut,
           NormalBallotsTallied, RunoffStarted, RunoffNegotiationTimedOut,
           RunoffBallotSubmitted, RunoffTallied, EliminationRevealTimedOut,
           FinalPleaTimedOut, FinalPleaSubmitted, JuryBallotSubmitted, JuryTallied
  <2> QED
    BY <2>3, <2>5, <2>6
<1> QED
  BY <1>1, AlwaysIInv, PTL DEF Spec, Irrevocable

-----------------------------------------------------------------------------
(* The engine implements the lifecycle *)

(* A created match is a new match of the abstract lifecycle. *)
LEMMA LifecycleInit == Init => Lifecycle!Init
<1>1. Init => Active = Players
  BY DEF Init, Active, WithStatus
<1> QED
  BY <1>1 DEF Init, Lifecycle!Init

(* A step that keeps the phase of an open vote is a submission, one that   *)
(* takes the phase along the diagram is a move.                            *)
LEMMA SubmitStep ==
    ASSUME UNCHANGED roster, Stay, phase \in Lifecycle!OpenPhases
    PROVE  Lifecycle!Submit
BY SameRoster DEF Stay, Lifecycle!Submit

(* A transition between two phases is a move of the lifecycle. *)
LEMMA MoveStep ==
    ASSUME UNCHANGED roster, NEW next, NEW until, Enter(next, until),
           <<phase, next>> \in Lifecycle!Moves
    PROVE  Lifecycle!Move
<1>1. PICK m \in Lifecycle!Moves : m = <<phase, next>>
  OBVIOUS
<1>2. m[1] = phase /\ m[2] = next
  BY <1>1
<1> QED
  BY <1>2, SameRoster DEF Enter, Lifecycle!Move

(* An elimination of the engine is one of the lifecycle. *)
LEMMA EliminateStep ==
    ASSUME TypeOK, NEW p \in Active, Eliminate(p), Enter("elimination", "running"),
           phase \in {"tally", "runoff_voting"}
    PROVE  Lifecycle!Eliminate
BY RosterAfterEliminate DEF Enter, Lifecycle!Eliminate

(* So is the one that resolves a tie. *)
LEMMA ResolveTieStep ==
    ASSUME TypeOK, NEW tied, NEW votes, NEW candidates \in SUBSET Active,
           ResolveTie(tied, votes, candidates), phase \in {"tally", "runoff_voting"}
    PROVE  Lifecycle!Eliminate
<1>1. PICK p \in TieCandidates(AddVotes(cumulative, votes), candidates) : Eliminate(p)
  BY DEF ResolveTie
<1>2. p \in Active
  BY ChosenAmongCandidates
<1> QED
  BY <1>1, <1>2, EliminateStep DEF ResolveTie

(* Every step of the engine is a step of the lifecycle, or none. *)
LEMMA LifecycleStep ==
    ASSUME IInv, [Next]_vars
    PROVE  [Lifecycle!Next]_(Lifecycle!vars)
<1> DEFINE Step == Lifecycle!Next \/ UNCHANGED Lifecycle!vars
<1> SUFFICES Step
  OBVIOUS
<1> USE DEF Lifecycle!OpenPhases, Lifecycle!Moves
<1>1. CASE UNCHANGED vars \/ Tick
  BY <1>1, SameRoster DEF vars, Tick, Lifecycle!vars
<1>2. ASSUME NEW p \in Players, ContestantReady(p) PROVE Step
  BY <1>2, SubmitStep, MoveStep DEF ContestantReady, Lifecycle!Next, Lifecycle!Progress
<1>3. CASE LobbyTimedOut
  BY <1>3, MoveStep DEF LobbyTimedOut, Lifecycle!Next, Lifecycle!Progress
<1>4. CASE NegotiationTimedOut
  BY <1>4, MoveStep DEF NegotiationTimedOut, Lifecycle!Next, Lifecycle!Progress
<1>5. ASSUME NEW v \in Players, NEW t \in Players, NormalBallotSubmitted(v, t)
      PROVE  Step
  BY <1>5, SubmitStep, MoveStep
     DEF NormalBallotSubmitted, CloseVoting, Lifecycle!Next, Lifecycle!Progress
<1>6. CASE VotingTimedOut
  BY <1>6, MoveStep DEF VotingTimedOut, CloseVoting, Lifecycle!Next, Lifecycle!Progress
<1>7. CASE NormalBallotsTallied
  <2>1. CASE Stay /\ UNCHANGED roster
    BY <1>7, <2>1, SameRoster
       DEF NormalBallotsTallied, Stay, Lifecycle!Next, Lifecycle!RecordTie
  <2>2. ASSUME NEW p \in Most(NormalVotes, Active), Eliminate(p),
               Enter("elimination", "running")
        PROVE  Step
    BY <1>7, <2>2, ChosenAmongCandidates, EliminateStep
       DEF NormalBallotsTallied, IInv, Lifecycle!Next, Lifecycle!Progress
  <2> QED
    BY <1>7, <2>1, <2>2 DEF NormalBallotsTallied
<1>8. CASE RunoffStarted
  <2>1. CASE ResolveTie(Active, NoVotes, Active)
    BY <1>8, <2>1, ResolveTieStep
       DEF RunoffStarted, IInv, Lifecycle!Next, Lifecycle!Progress
  <2>2. CASE Enter("runoff_negotiation", "running") /\ UNCHANGED roster
    BY <1>8, <2>2, MoveStep DEF RunoffStarted, Lifecycle!Next, Lifecycle!Progress
  <2> QED
    BY <1>8, <2>1, <2>2 DEF RunoffStarted
<1>9. CASE RunoffNegotiationTimedOut
  BY <1>9, MoveStep
     DEF RunoffNegotiationTimedOut, Lifecycle!Next, Lifecycle!Progress
<1>10. ASSUME NEW v \in Players, NEW t \in Players, RunoffBallotSubmitted(v, t)
       PROVE  Step
  BY <1>10, SubmitStep DEF RunoffBallotSubmitted, Lifecycle!Next
<1>11. CASE RunoffTallied
  <2>1. Most(RunoffVotes, runoffPlayerIds) \in SUBSET Active
    BY <1>11, ChosenAmongCandidates DEF RunoffTallied, IInv, RoundInv, RunoffPhases
  <2> QED
    BY <1>11, <2>1, ResolveTieStep
       DEF RunoffTallied, IInv, Lifecycle!Next, Lifecycle!Progress
<1>12. CASE EliminationRevealTimedOut
  BY <1>12, SameRoster
     DEF EliminationRevealTimedOut, Enter, Lifecycle!Next, Lifecycle!Progress,
         Lifecycle!Reveal
<1>13. CASE FinalPleaTimedOut
  BY <1>13, MoveStep
     DEF FinalPleaTimedOut, StartJuryVoting, Lifecycle!Next, Lifecycle!Progress
<1>14. ASSUME NEW p \in Players, FinalPleaSubmitted(p) PROVE Step
  BY <1>14, SubmitStep, MoveStep
     DEF FinalPleaSubmitted, StartJuryVoting, Lifecycle!Next, Lifecycle!Progress
<1>15. ASSUME NEW j \in Players, NEW f \in Players, JuryBallotSubmitted(j, f)
       PROVE  Step
  BY <1>15, SubmitStep DEF JuryBallotSubmitted, Lifecycle!Next
<1>16. CASE JuryTallied
  BY <1>16, MoveStep DEF JuryTallied, Lifecycle!Next, Lifecycle!Progress
<1> HIDE DEF Step
<1> QED
  BY <1>1, <1>2, <1>3, <1>4, <1>5, <1>6, <1>7, <1>8, <1>9, <1>10, <1>11, <1>12,
     <1>13, <1>14, <1>15, <1>16 DEF Next, Submission, Advance

(* Whatever is voted, the engine moves a match as MatchLifecycle says: one *)
(* version per change, phases along the diagram, one contestant fewer per  *)
(* round.                                                                  *)
THEOREM EngineImplementsLifecycle == Spec => ImplementsLifecycle
BY LifecycleInit, LifecycleStep, AlwaysIInv, PTL
   DEF Spec, ImplementsLifecycle, Lifecycle!Spec

-----------------------------------------------------------------------------
(***************************************************************************)
(* What the backend sees of a match                                        *)
(***************************************************************************)

(* A submission that leaves the phase leaves the row but for its version. *)
LEMMA StayRow ==
    ASSUME Stay, UNCHANGED roster, phase # "tally"
    PROVE  StoredRow' = Stored!Stay(StoredRow)
BY SameRoster DEF Stay, StoredRow, Stored!Stay

(* A transition enters its phase with the deadline of that phase. *)
LEMMA EnterRow ==
    ASSUME NEW next, NEW until, Enter(next, until), UNCHANGED roster,
           until = Stored!DeadlineOf(next), next = "tally" => normalTally' = NoTally
    PROVE  StoredRow' = Stored!Enter(StoredRow, next)
BY SameRoster DEF Enter, StoredRow, Stored!Enter, Stored!Entered

(* A tie that is recorded leaves the rest of the row as it was. *)
LEMMA RecordTieRow ==
    ASSUME Stay, UNCHANGED roster, phase = "tally", normalTally = NoTally,
           normalTally' # NoTally
    PROVE  StoredRow' = Stored!RecordTie(StoredRow)
<1> DEFINE tied == phase = "tally" /\ normalTally # NoTally
           Row(v, b) == [version |-> v, phase |-> phase, active |-> Cardinality(Active),
                         tallied |-> b, deadline |-> deadline]
<1>1. StoredRow = Row(version, tied) /\ StoredRow' = Row(version + 1, tied')
  BY SameRoster DEF StoredRow, Stay
<1>2. \A b, v : [Row(v, b) EXCEPT !.version = @ + 1] = Row(v + 1, b)
  OBVIOUS
<1>3. Stored!Stay(StoredRow) = Row(version + 1, tied)
  <2> HIDE DEF Row
  <2> QED
    BY <1>1, <1>2 DEF Stored!Stay
<1>4. PICK yes : yes = TRUE
  OBVIOUS
<1>5. tied' = yes
  BY <1>4 DEF Stay
<1>6. [Row(version + 1, tied) EXCEPT !.tallied = yes] = Row(version + 1, yes)
  OBVIOUS
<1> HIDE DEF Row, tied
<1>7. Stored!RecordTie(StoredRow) = [Row(version + 1, tied) EXCEPT !.tallied = yes]
  BY <1>3, <1>4, Zenon DEF Stored!RecordTie
<1> QED
  BY <1>1, <1>5, <1>6, <1>7

(* An elimination leaves one contestant fewer. *)
LEMMA EliminateRow ==
    ASSUME TypeOK, NEW p \in Active, Eliminate(p), Enter("elimination", "running")
    PROVE  StoredRow' = Stored!Eliminate(StoredRow)
<1>1. Cardinality(Active') = Cardinality(Active) - 1
  BY RosterAfterEliminate
<1>2. Stored!DeadlineOf("elimination") = "running"
  BY DEF Stored!DeadlineOf, Stored!TerminalPhases
<1> QED
  BY <1>1, <1>2 DEF Enter, StoredRow, Stored!Eliminate, Stored!Entered

(* A resolved tie is written as the elimination it ends in. *)
LEMMA ResolveTieRow ==
    ASSUME TypeOK, NEW tied, NEW votes, NEW candidates \in SUBSET Active,
           ResolveTie(tied, votes, candidates)
    PROVE  StoredRow' = Stored!Eliminate(StoredRow)
<1>1. PICK p \in TieCandidates(AddVotes(cumulative, votes), candidates) : Eliminate(p)
  BY DEF ResolveTie
<1>2. p \in Active
  BY ChosenAmongCandidates
<1> QED
  BY <1>1, <1>2, EliminateRow DEF ResolveTie

(* Every step that writes a version is one StoredMatch has for the phase. *)
LEMMA StepIsStored ==
    ASSUME IInv, Next, version' # version
    PROVE  StoredRow' \in IF phase # "tally"
                          THEN Stored!Commanded(StoredRow) \cup Stored!TimedOut(StoredRow)
                          ELSE IF normalTally = NoTally
                               THEN Stored!Tallied(StoredRow)
                               ELSE Stored!RunoffStarted(StoredRow)
<1> DEFINE Seen == StoredRow' \in IF phase # "tally"
                          THEN Stored!Commanded(StoredRow) \cup Stored!TimedOut(StoredRow)
                          ELSE IF normalTally = NoTally
                               THEN Stored!Tallied(StoredRow)
                               ELSE Stored!RunoffStarted(StoredRow)
<1> SUFFICES Seen
  OBVIOUS
<1>0. /\ StoredRow.phase = phase /\ StoredRow.active = Cardinality(Active)
      /\ Stored!DeadlineOf("tally") = "none" /\ Stored!DeadlineOf("complete") = "none"
      /\ Stored!DeadlineOf("cancelled") = "none"
      /\ \A p \in {"negotiation", "voting", "runoff_negotiation", "runoff_voting",
                   "elimination", "final_plea", "jury_voting"} :
            Stored!DeadlineOf(p) = "running"
  BY DEF StoredRow, Stored!DeadlineOf, Stored!TerminalPhases
<1>1. ASSUME phase # "tally", phase \in Stored!OpenPhases,
             \/ StoredRow' = Stored!Stay(StoredRow)
             \/ \E p \in Stored!ClosesTo(phase) : StoredRow' = Stored!Enter(StoredRow, p)
      PROVE  Seen
  BY <1>0, <1>1 DEF Stored!Commanded
<1>2. ASSUME NEW p, p \in Stored!TimesOutTo(StoredRow),
             phase \notin {"tally", "runoff_voting"},
             StoredRow' = Stored!Enter(StoredRow, p)
      PROVE  Seen
  BY <1>0, <1>2 DEF Stored!TimedOut
<1> HIDE DEF Seen
<1>3. ASSUME NEW p \in Players, ContestantReady(p) PROVE Seen
  <2>1. CASE Stay
    BY <1>1, <1>3, <2>1, StayRow DEF ContestantReady, Stored!OpenPhases
  <2>2. CASE Enter("negotiation", "running")
    BY <1>0, <1>1, <1>3, <2>2, EnterRow
       DEF ContestantReady, Stored!OpenPhases, Stored!ClosesTo
  <2> QED
    BY <1>3, <2>1, <2>2 DEF ContestantReady
<1>4. CASE LobbyTimedOut
  <2>1. PICK p \in {"cancelled", "negotiation"} : Enter(p, Stored!DeadlineOf(p))
    BY <1>0, <1>4 DEF LobbyTimedOut
  <2> QED
    BY <1>0, <1>2, <1>4, <2>1, EnterRow DEF LobbyTimedOut, Stored!TimesOutTo
<1>5. CASE NegotiationTimedOut
  BY <1>0, <1>2, <1>5, EnterRow DEF NegotiationTimedOut, Stored!TimesOutTo
<1>6. ASSUME NEW v \in Players, NEW t \in Players, NormalBallotSubmitted(v, t)
      PROVE  Seen
  <2>1. CASE Stay
    BY <1>1, <1>6, <2>1, StayRow DEF NormalBallotSubmitted, Stored!OpenPhases
  <2>2. CASE Enter("tally", "none")
    <3>1. normalTally' = NoTally
      BY <1>6 DEF NormalBallotSubmitted, IInv, RoundInv
    <3> QED
      BY <1>0, <1>1, <1>6, <2>2, <3>1, EnterRow
         DEF NormalBallotSubmitted, Stored!OpenPhases, Stored!ClosesTo
  <2> QED
    BY <1>6, <2>1, <2>2 DEF NormalBallotSubmitted, CloseVoting
<1>7. CASE VotingTimedOut
  <2>1. normalTally' = NoTally
    BY <1>7 DEF VotingTimedOut, IInv, RoundInv
  <2> QED
    BY <1>0, <1>2, <1>7, <2>1, EnterRow
       DEF VotingTimedOut, CloseVoting, Stored!TimesOutTo
<1>8. CASE NormalBallotsTallied
  <2>1. CASE Stay /\ UNCHANGED roster /\ normalTally' # NoTally
    <3>1. StoredRow' = Stored!RecordTie(StoredRow)
      BY <1>8, <2>1, RecordTieRow DEF NormalBallotsTallied
    <3> QED
      BY <1>8, <3>1 DEF NormalBallotsTallied, Seen, Stored!Tallied
  <2>2. ASSUME NEW p \in Most(NormalVotes, Active), Eliminate(p),
               Enter("elimination", "running")
        PROVE  Seen
    <3>1. StoredRow' = Stored!Eliminate(StoredRow)
      BY <2>2, ChosenAmongCandidates, EliminateRow DEF IInv
    <3> QED
      BY <1>8, <3>1 DEF NormalBallotsTallied, Seen, Stored!Tallied
  <2>3. IsTie(Most(NormalVotes, Active)) => Most(NormalVotes, Active) # {}
    BY FS_EmptySet DEF IsTie
  <2>4. \/ Stay /\ UNCHANGED roster /\ normalTally' # NoTally
        \/ \E p \in Most(NormalVotes, Active) : Eliminate(p) /\ Enter("elimination", "running")
    BY <1>8, <2>3 DEF NormalBallotsTallied, NoTally
  <2> QED
    BY <2>1, <2>2, <2>4
<1>9. CASE RunoffStarted
  <2>1. CASE ResolveTie(Active, NoVotes, Active)
    <3>1. StoredRow' = Stored!Eliminate(StoredRow)
      BY <2>1, ResolveTieRow DEF IInv
    <3> QED
      BY <1>9, <3>1 DEF RunoffStarted, Seen, Stored!RunoffStarted
  <2>2. CASE Enter("runoff_negotiation", "running") /\ UNCHANGED roster
    <3>1. StoredRow' = Stored!Enter(StoredRow, "runoff_negotiation")
      BY <1>0, <2>2, EnterRow
    <3> QED
      BY <1>9, <3>1 DEF RunoffStarted, Seen, Stored!RunoffStarted
  <2> QED
    BY <1>9, <2>1, <2>2 DEF RunoffStarted
<1>10. CASE RunoffNegotiationTimedOut
  BY <1>0, <1>2, <1>10, EnterRow DEF RunoffNegotiationTimedOut, Stored!TimesOutTo
<1>11. ASSUME NEW v \in Players, NEW t \in Players, RunoffBallotSubmitted(v, t)
       PROVE  Seen
  BY <1>1, <1>11, StayRow DEF RunoffBallotSubmitted, Stored!OpenPhases
<1>12. CASE RunoffTallied
  <2>1. Most(RunoffVotes, runoffPlayerIds) \in SUBSET Active
    BY <1>12, ChosenAmongCandidates DEF RunoffTallied, IInv, RoundInv, RunoffPhases
  <2>2. StoredRow' = Stored!Eliminate(StoredRow)
    BY <1>12, <2>1, ResolveTieRow DEF RunoffTallied, IInv
  <2> QED
    BY <1>0, <1>12, <2>2 DEF RunoffTallied, Seen, Stored!TimedOut
<1>13. CASE EliminationRevealTimedOut
  <2> DEFINE next == IF Cardinality(Active) = 2 THEN "final_plea" ELSE "negotiation"
  <2>1. StoredRow' = Stored!Enter(StoredRow, next)
    BY <1>0, <1>13, EnterRow DEF EliminationRevealTimedOut
  <2>2. next \in Stored!TimesOutTo(StoredRow)
    BY <1>0, <1>13 DEF EliminationRevealTimedOut, Stored!TimesOutTo
  <2> HIDE DEF next
  <2> QED
    BY <1>2, <1>13, <2>1, <2>2 DEF EliminationRevealTimedOut
<1>14. CASE FinalPleaTimedOut
  BY <1>0, <1>2, <1>14, EnterRow
     DEF FinalPleaTimedOut, StartJuryVoting, Stored!TimesOutTo
<1>15. ASSUME NEW p \in Players, FinalPleaSubmitted(p) PROVE Seen
  <2>1. CASE Stay
    BY <1>1, <1>15, <2>1, StayRow DEF FinalPleaSubmitted, Stored!OpenPhases
  <2>2. CASE Enter("jury_voting", "running")
    BY <1>0, <1>1, <1>15, <2>2, EnterRow
       DEF FinalPleaSubmitted, Stored!OpenPhases, Stored!ClosesTo
  <2> QED
    BY <1>15, <2>1, <2>2 DEF FinalPleaSubmitted, StartJuryVoting
<1>16. ASSUME NEW j \in Players, NEW f \in Players, JuryBallotSubmitted(j, f)
       PROVE  Seen
  BY <1>1, <1>16, StayRow DEF JuryBallotSubmitted, Stored!OpenPhases
<1>17. CASE JuryTallied
  BY <1>0, <1>2, <1>17, EnterRow DEF JuryTallied, Stored!TimesOutTo
<1>18. CASE Tick
  BY <1>18 DEF Tick
<1> QED
  BY <1>3, <1>4, <1>5, <1>6, <1>7, <1>8, <1>9, <1>10, <1>11, <1>12, <1>13, <1>14,
     <1>15, <1>16, <1>17, <1>18 DEF Next, Submission, Advance

(* Every change of a match is one that the deadline handler and the command *)
(* executor are modelled with: the phase it leads to, the contestants left, *)
(* whether a tie awaits its runoff, and the deadline (deadline-handler.ts   *)
(* and match-command-executor.ts call the engine with nothing in between).  *)
THEOREM StoredMatchIsAlwaysFaithful == Spec => StoredMatchIsFaithful
<1>1. IInv /\ [Next]_vars =>
         [version' # version =>
             StoredRow' \in IF phase # "tally"
                            THEN Stored!Commanded(StoredRow) \cup Stored!TimedOut(StoredRow)
                            ELSE IF normalTally = NoTally
                                 THEN Stored!Tallied(StoredRow)
                                 ELSE Stored!RunoffStarted(StoredRow)]_vars
  BY StepIsStored
<1> QED
  BY <1>1, AlwaysIInv, PTL DEF Spec, StoredMatchIsFaithful

-----------------------------------------------------------------------------
(***************************************************************************)
(* Who is eliminated and who wins                                          *)
(***************************************************************************)

(* A set of players that is no tie has one member at most. *)
LEMMA OneIsNoTie ==
    ASSUME NEW S \in SUBSET Players, ~IsTie(S), NEW p \in S, NEW q \in S
    PROVE  p = q
<1>1. IsFiniteSet(S) /\ Cardinality(S) \in Nat
  BY SizeOfPlayers
<1>2. Cardinality(S) = 1
  BY <1>1, FS_EmptySet DEF IsTie
<1> QED
  BY <1>1, <1>2, FS_Singleton

LEMMA MostIsMost ==
    ASSUME NEW votes \in Votes, NEW S \in SUBSET Players,
           NEW p \in Most(votes, S), NEW q \in S
    PROVE  /\ votes[p] \in Nat /\ votes[q] \in Nat /\ votes[q] <= votes[p]
           /\ votes[q] = votes[p] => q \in Most(votes, S)
BY DEF Most, Votes

(* Whoever a tie falls to has the highest total of the candidates. *)
LEMMA TieFallsToTheHighest ==
    ASSUME NEW totals \in Votes, NEW C \in SUBSET Players,
           NEW p \in TieCandidates(totals, C), NEW q \in C
    PROVE  totals[q] <= totals[p]
<1>1. CASE IsTie(C)
  BY <1>1, MostIsMost DEF TieCandidates
<1>2. CASE ~IsTie(C)
  <2>1. p = q /\ totals[p] \in Nat
    BY <1>2, OneIsNoTie DEF TieCandidates, Votes
  <2> QED
    BY <2>1
<1> QED
  BY <1>1, <1>2

LEMMA MissedRoundsAreVotes == TypeOK => MissedRounds \in Votes
<1> SUFFICES ASSUME TypeOK, NEW p \in Players
             PROVE  Cardinality({r \in DOMAIN completedRounds :
                                    p \in completedRounds[r].selfVotes}) \in Nat
  BY DEF MissedRounds, Votes
<1>1. IsFiniteSet(DOMAIN completedRounds)
  <2>1. DOMAIN completedRounds = 1..Len(completedRounds) /\ Len(completedRounds) \in Nat
    BY DEF TypeOK
  <2> QED
    BY <2>1, FS_Interval
<1> QED
  BY <1>1, FS_Subset, FS_CardinalityType

(* The order of the jury rules, for whoever they leave. *)
LEMMA JuryOrder ==
    ASSUME NEW votes \in Votes, NEW totals \in Votes, NEW missed \in Votes,
           NEW S \in SUBSET Players, NEW byVotes, NEW byTotals, NEW last,
           byVotes = Most(votes, S),
           byTotals = IF IsTie(byVotes) THEN Fewest(totals, byVotes) ELSE byVotes,
           last = IF IsTie(byTotals) THEN Fewest(missed, byTotals) ELSE byTotals,
           NEW w \in last, NEW q \in S, q # w
    PROVE  /\ w \in S
           /\ \/ votes[q] < votes[w]
              \/ /\ votes[q] = votes[w]
                 /\ \/ totals[w] < totals[q]
                    \/ totals[w] = totals[q] /\ missed[w] <= missed[q]
<1>1. /\ last \subseteq byTotals /\ byTotals \subseteq byVotes /\ byVotes \subseteq S
      /\ byVotes \in SUBSET Players /\ byTotals \in SUBSET Players
  BY ChosenAmongCandidates
<1>2. w \in byTotals /\ w \in byVotes /\ w \in S
  BY <1>1
<1>3. /\ votes[q] \in Nat /\ votes[w] \in Nat /\ votes[q] <= votes[w]
      /\ votes[q] = votes[w] => q \in byVotes
  BY <1>2, MostIsMost
<1>4. ASSUME q \in byVotes
      PROVE  /\ totals[w] \in Nat /\ totals[q] \in Nat /\ totals[w] <= totals[q]
             /\ totals[w] = totals[q] => q \in byTotals
  <2>1. IsTie(byVotes)
    BY <1>1, <1>2, <1>4, OneIsNoTie
  <2> QED
    BY <1>2, <1>4, <2>1 DEF Fewest, Votes
<1>5. ASSUME q \in byTotals
      PROVE  missed[w] <= missed[q]
  <2>1. IsTie(byTotals)
    BY <1>1, <1>2, <1>5, OneIsNoTie
  <2> QED
    BY <1>5, <2>1 DEF Fewest
<1> QED
  BY <1>2, <1>3, <1>4, <1>5

(* The jury's tally picks the winner its rules pick. *)
LEMMA JuryTallyDeserves ==
    ASSUME IInv, JuryTallied
    PROVE  WinnerIsDeserved'
<1> DEFINE byVotes  == Most(JuryVotes, Active)
           byTotals == IF IsTie(byVotes) THEN Fewest(cumulative, byVotes) ELSE byVotes
           last     == IF IsTie(byTotals) THEN Fewest(MissedRounds, byTotals) ELSE byTotals
<1>1. PICK w \in last : winnerPlayerId' = w
  BY DEF JuryTallied
<1>2. UNCHANGED <<roster, cumulative, completedRounds, juryBallots>>
  BY DEF JuryTallied
<1>3. Active' = Active /\ JuryVotes' = JuryVotes /\ MissedRounds' = MissedRounds
  BY <1>2, SameRoster DEF JuryVotes, CastFor, MissedRounds
<1>4. /\ JuryVotes \in Votes /\ cumulative \in Votes /\ MissedRounds \in Votes
      /\ Active \in SUBSET Players
  BY CountsAreVotes, MissedRoundsAreVotes, ActiveOrJuror DEF IInv, TypeOK
<1>5. w \in Active
  BY ChosenAmongCandidates
<1>6. ASSUME NEW q \in Active, q # w
      PROVE  \/ JuryVotes[q] < JuryVotes[w]
             \/ /\ JuryVotes[q] = JuryVotes[w]
                /\ \/ cumulative[w] < cumulative[q]
                   \/ cumulative[w] = cumulative[q] /\ MissedRounds[w] <= MissedRounds[q]
  <2>1. /\ byTotals = IF IsTie(byVotes) THEN Fewest(cumulative, byVotes) ELSE byVotes
        /\ last = IF IsTie(byTotals) THEN Fewest(MissedRounds, byTotals) ELSE byTotals
        /\ byVotes = Most(JuryVotes, Active)
    OBVIOUS
  <2> HIDE DEF byVotes, byTotals, last
  <2> QED
    BY <1>4, <1>6, <2>1, JuryOrder
<1> HIDE DEF byVotes, byTotals, last
<1> QED
  BY <1>1, <1>2, <1>3, <1>5, <1>6 DEF WinnerIsDeserved

(* For every roster: the winner has more jury votes than the other          *)
(* finalist, or as many and fewer elimination votes, or as many of both and *)
(* no more missed ballots (finale.ts:197-228).                              *)
THEOREM WinnersDeserve == Spec => []WinnerIsDeserved
<1>1. Init => WinnerIsDeserved
  BY DEF Init, WinnerIsDeserved
<1>2. ASSUME IInv, WinnerIsDeserved, [Next]_vars
      PROVE  WinnerIsDeserved'
  <2>1. CASE UNCHANGED vars
    <3>1. Active' = Active /\ JuryVotes' = JuryVotes /\ MissedRounds' = MissedRounds
      BY <2>1, SameRoster DEF vars, finale, JuryVotes, CastFor, MissedRounds
    <3> QED
      BY <1>2, <2>1, <3>1 DEF vars, finale, WinnerIsDeserved
  <2>2. CASE JuryTallied
    BY <1>2, <2>2, JuryTallyDeserves
  <2>3. CASE Next /\ ~JuryTallied
    <3>1. phase # "complete"
      BY <1>2, <2>3 DEF IInv, SizeInv, TerminalPhases,
           Next, Submission, Advance, Tick, ContestantReady, LobbyTimedOut,
           NegotiationTimedOut, NormalBallotSubmitted, VotingTimedOut,
           NormalBallotsTallied, RunoffStarted, RunoffNegotiationTimedOut,
           RunoffBallotSubmitted, RunoffTallied, EliminationRevealTimedOut,
           FinalPleaTimedOut, FinalPleaSubmitted, JuryBallotSubmitted
    <3>2. phase' # "complete"
      BY <2>3, <3>1 DEF Enter, Stay, CloseVoting, ResolveTie, StartJuryVoting,
           Next, Submission, Advance, Tick, ContestantReady, LobbyTimedOut,
           NegotiationTimedOut, NormalBallotSubmitted, VotingTimedOut,
           NormalBallotsTallied, RunoffStarted, RunoffNegotiationTimedOut,
           RunoffBallotSubmitted, RunoffTallied, EliminationRevealTimedOut,
           FinalPleaTimedOut, FinalPleaSubmitted, JuryBallotSubmitted
    <3> QED
      BY <3>2 DEF WinnerIsDeserved
  <2> QED
    BY <1>2, <2>1, <2>2, <2>3
<1> QED
  BY <1>1, <1>2, AlwaysIInv, PTL DEF Spec

(* Ballots decide the round they were cast in: an open vote closes early    *)
(* only when all have voted, and what the round is resolved from stays      *)
(* until it is archived (voting.ts:196-214, runoff.ts:185-206).             *)
THEOREM ClosedVotesAlwaysStand == Spec => ClosedVotesStand
<1>1. ASSUME IInv, Next
      PROVE  /\ phase = "voting" /\ phase' = "tally" /\ deadline = "running" =>
                   missingNormalBallotPlayerIds' = {} /\ Voted(normalBallots') = Active
             /\ OpenRound =>
                   UNCHANGED <<normalBallots, missingNormalBallotPlayerIds>>
             /\ OpenRound /\ normalTally # NoTally => UNCHANGED normalTally
             /\ phase = "elimination" => UNCHANGED <<runoffBallots, tieResolution>>
  <2>1. CASE /\ phase = "voting" /\ phase' = "tally" /\ deadline = "running"
    <3>1. PICK v \in Players, t \in Players : NormalBallotSubmitted(v, t)
      BY <1>1, <2>1 DEF Enter, Stay, StartJuryVoting,
           Next, Submission, Advance, Tick, ContestantReady, LobbyTimedOut,
           NegotiationTimedOut, VotingTimedOut,
           NormalBallotsTallied, RunoffStarted, RunoffNegotiationTimedOut,
           RunoffBallotSubmitted, RunoffTallied, EliminationRevealTimedOut,
           FinalPleaTimedOut, FinalPleaSubmitted, JuryBallotSubmitted, JuryTallied
    <3>2. EverybodyVoted(normalBallots') /\ CloseVoting
      BY <2>1, <3>1 DEF NormalBallotSubmitted, Stay
    <3> QED
      BY <2>1, <3>2 DEF EverybodyVoted, CloseVoting, OpenRound
  <2>2. CASE OpenRound
    BY <1>1, <2>2 DEF OpenRound, voting, runoff, ResolveTie,
         Next, Submission, Advance, Tick, ContestantReady, LobbyTimedOut,
         NegotiationTimedOut, NormalBallotSubmitted, VotingTimedOut,
         NormalBallotsTallied, RunoffStarted, RunoffNegotiationTimedOut,
         RunoffBallotSubmitted, RunoffTallied, EliminationRevealTimedOut,
         FinalPleaTimedOut, FinalPleaSubmitted, JuryBallotSubmitted, JuryTallied
  <2> QED
    BY <2>1, <2>2 DEF OpenRound
<1> QED
  BY <1>1, AlwaysIInv, PTL DEF Spec, ClosedVotesStand

(***************************************************************************)
(* That an elimination is deserved rests on what the round was tied by:    *)
(* the runoff is among those with the most votes, no ballot of an earlier  *)
(* runoff is left, and whoever cast no ballot is missing.                  *)
(***************************************************************************)

(* A vote by ballot or the automatic one. *)
Given(p) == Cardinality(CastFor(normalBallots, p))
            + IF p \in Voted(normalBallots) THEN 0 ELSE 1

FairRound ==
    /\ phase \in {"voting", "tally"} => runoffBallots = NoBallots
    /\ phase = "tally" /\ normalTally # NoTally =>
          normalTally.leaders = Most(NormalVotes, Active)
    /\ phase \in RunoffPhases => runoffPlayerIds = Most(NormalVotes, Active)
    /\ phase \in {"tally"} \cup RunoffPhases =>
          missingNormalBallotPlayerIds = Active \ Voted(normalBallots)

LEMMA VotesAreGiven ==
    ASSUME missingNormalBallotPlayerIds = Active \ Voted(normalBallots),
           NEW p \in Active
    PROVE  p \in Players /\ NormalVotes[p] = Given(p)
BY DEF NormalVotes, Given, Active, WithStatus

(* The last player with the most votes is not among the others. *)
LEMMA ClearTallyDeserves ==
    ASSUME IInv, FairRound, NormalBallotsTallied,
           NEW e \in Most(NormalVotes, Active), ~IsTie(Most(NormalVotes, Active)),
           normalTally'.eliminated = e, Eliminate(e)
    PROVE  EliminationIsDeserved'
<1>1. /\ phase = "tally" /\ UNCHANGED normalBallots
      /\ e \in Active /\ e # NoPlayer
      /\ Active \in SUBSET Players
      /\ missingNormalBallotPlayerIds = Active \ Voted(normalBallots)
  BY ActiveOrJuror, ChosenAmongCandidates, RosterAssumption
     DEF IInv, FairRound, NormalBallotsTallied
<1>2. Active' = Active \ {e} /\ RoundEliminated' = e
  BY <1>1, RosterAfterEliminate DEF IInv, RoundEliminated
<1>3. ASSUME NEW q \in Active, q # e
      PROVE  Given(q) < Given(e)
  <2>1. /\ NormalVotes[e] \in Nat /\ NormalVotes[q] \in Nat
        /\ NormalVotes[q] <= NormalVotes[e]
        /\ NormalVotes[q] = NormalVotes[e] => q \in Most(NormalVotes, Active)
    BY <1>1, <1>3, CountsAreVotes, MostIsMost
  <2>2. Most(NormalVotes, Active) \in SUBSET Players
    BY <1>1, ChosenAmongCandidates
  <2>3. q \notin Most(NormalVotes, Active)
    BY <1>3, <2>2, OneIsNoTie
  <2> QED
    BY <1>1, <1>3, <2>1, <2>3, VotesAreGiven
<1> QED
  BY <1>1, <1>2, <1>3 DEF EliminationIsDeserved, Given, Voted, CastFor

(* So is a tie that the runoff, the totals or a draw resolves: nobody has   *)
(* more votes than the tied, and among them nobody more runoff votes than   *)
(* the candidates.                                                          *)
LEMMA ResolvedTieDeserves ==
    ASSUME IInv, FairRound, phase \in {"tally", "runoff_voting"},
           normalTally.eliminated = NoPlayer,
           NEW tied, tied = Most(NormalVotes, Active),
           NEW votes \in Votes, NEW candidates, candidates = Most(votes, tied),
           \A p \in tied : votes[p] = Cardinality(CastFor(runoffBallots, p)),
           ResolveTie(tied, votes, candidates),
           UNCHANGED <<voting, runoffBallots>>
    PROVE  EliminationIsDeserved'
<1>1. /\ Active \in SUBSET Players /\ tied \in SUBSET Active /\ tied \in SUBSET Players
      /\ candidates \in SUBSET tied /\ candidates \in SUBSET Players
      /\ missingNormalBallotPlayerIds = Active \ Voted(normalBallots)
  BY ActiveOrJuror, ChosenAmongCandidates DEF IInv, FairRound, RunoffPhases
<1>2. AddVotes(cumulative, votes) \in Votes
  BY CountsAreVotes DEF IInv, TypeOK
<1>3. PICK e \in TieCandidates(AddVotes(cumulative, votes), candidates) :
         Eliminate(e) /\ tieResolution'.eliminated = e
  BY DEF ResolveTie
<1>4. e \in candidates /\ e \in tied /\ e \in Active
  BY <1>1, ChosenAmongCandidates
<1>5. /\ Active' = Active \ {e} /\ RoundEliminated' = e
      /\ cumulative' = AddVotes(cumulative, votes)
  BY <1>3, <1>4, RosterAfterEliminate DEF IInv, RoundEliminated, voting, ResolveTie
<1>6. ASSUME NEW q \in Active
      PROVE  \/ Given(q) < Given(e)
             \/ /\ Given(q) = Given(e)
                /\ \/ Cardinality(CastFor(runoffBallots, q))
                         < Cardinality(CastFor(runoffBallots, e))
                   \/ /\ Cardinality(CastFor(runoffBallots, q))
                            = Cardinality(CastFor(runoffBallots, e))
                      /\ cumulative'[q] <= cumulative'[e]
  <2>1. /\ NormalVotes[e] \in Nat /\ NormalVotes[q] \in Nat
        /\ NormalVotes[q] <= NormalVotes[e]
        /\ NormalVotes[q] = NormalVotes[e] => q \in tied
    BY <1>1, <1>4, <1>6, CountsAreVotes, MostIsMost
  <2>2. NormalVotes[q] = Given(q) /\ NormalVotes[e] = Given(e)
    BY <1>1, <1>4, <1>6, VotesAreGiven
  <2>3. ASSUME q \in tied
        PROVE  /\ votes[e] \in Nat /\ votes[q] \in Nat /\ votes[q] <= votes[e]
               /\ votes[q] = votes[e] => q \in candidates
    BY <1>1, <1>4, <2>3, MostIsMost
  <2>4. ASSUME q \in candidates
        PROVE  cumulative'[q] <= cumulative'[e]
    BY <1>1, <1>2, <1>3, <1>5, <2>4, TieFallsToTheHighest
  <2> QED
    BY <1>4, <2>1, <2>2, <2>3, <2>4
<1>7. \A p : /\ CastFor(normalBallots, p)' = CastFor(normalBallots, p)
             /\ CastFor(runoffBallots, p)' = CastFor(runoffBallots, p)
  BY DEF voting, CastFor
<1>8. Voted(normalBallots)' = Voted(normalBallots)
  BY DEF voting, Voted
<1> QED
  BY <1>5, <1>6, <1>7, <1>8 DEF EliminationIsDeserved, Given

(* What a round is decided from does not change with the phase alone. *)
LEMMA SameVotes ==
    ASSUME UNCHANGED <<roster, normalBallots, missingNormalBallotPlayerIds>>
    PROVE  /\ Active' = Active /\ NormalVotes' = NormalVotes
           /\ Most(NormalVotes, Active)' = Most(NormalVotes, Active)
           /\ Voted(normalBallots)' = Voted(normalBallots)
<1>1. Active' = Active
  BY SameRoster
<1>2. NormalVotes' = NormalVotes
  BY DEF NormalVotes, CastFor
<1> QED
  BY <1>1, <1>2 DEF Most, Voted

LEMMA TallyIsFair ==
    ASSUME IInv, FairRound, NormalBallotsTallied
    PROVE  FairRound' /\ EliminationIsDeserved'
<1> DEFINE leaders == Most(NormalVotes, Active)
<1>1. /\ phase = "tally"
      /\ UNCHANGED <<normalBallots, missingNormalBallotPlayerIds, runoffBallots>>
  BY DEF NormalBallotsTallied, runoff
<1>2. CASE normalTally'.leaders = leaders /\ Stay /\ UNCHANGED roster
  BY <1>1, <1>2, SameVotes DEF Stay, FairRound, RunoffPhases, EliminationIsDeserved
<1>3. ASSUME NEW p \in leaders, ~IsTie(leaders), normalTally'.eliminated = p,
             Enter("elimination", "running"), Eliminate(p)
      PROVE  FairRound' /\ EliminationIsDeserved'
  <2>1. EliminationIsDeserved'
    BY <1>3, ClearTallyDeserves
  <2> QED
    BY <1>3, <2>1 DEF Enter, FairRound, RunoffPhases
<1> QED
  BY <1>2, <1>3 DEF NormalBallotsTallied

LEMMA RunoffIsFair ==
    ASSUME IInv, FairRound, RunoffStarted \/ RunoffTallied
    PROVE  FairRound' /\ EliminationIsDeserved'
<1>1. CASE RunoffStarted /\ normalTally.leaders = Active
  <2>1. /\ phase = "tally" /\ normalTally.eliminated = NoPlayer
        /\ ResolveTie(Active, NoVotes, Active)
        /\ UNCHANGED <<voting, runoffBallots>>
    BY <1>1 DEF RunoffStarted
  <2>2. Active = Most(NormalVotes, Active) /\ runoffBallots = NoBallots
    BY <1>1, <2>1 DEF FairRound, RunoffStarted
  <2>3. NoVotes \in Votes /\ Active \in SUBSET Players
    BY CountsAreVotes, ActiveOrJuror DEF IInv
  <2>4. \A p \in Active : NoVotes[p] = 0
    BY <2>3 DEF NoVotes
  <2>5. Active = Most(NoVotes, Active)
    BY <2>4 DEF Most
  <2>6. \A p \in Active : Cardinality(CastFor(runoffBallots, p)) = 0
    <3>1. \A p \in Active : CastFor(runoffBallots, p) = {}
      BY <2>2, <2>3, RosterAssumption DEF CastFor, NoBallots, NoBallot
    <3> QED
      BY <3>1, FS_EmptySet
  <2>7. EliminationIsDeserved'
    BY <2>1, <2>2, <2>3, <2>4, <2>5, <2>6, ResolvedTieDeserves
  <2> QED
    BY <2>1, <2>7 DEF ResolveTie, Enter, FairRound, RunoffPhases
<1>2. CASE RunoffStarted /\ normalTally.leaders # Active
  <2>1. /\ phase = "tally" /\ phase' = "runoff_negotiation"
        /\ runoffPlayerIds' = Most(NormalVotes, Active)
        /\ UNCHANGED <<roster, normalBallots, missingNormalBallotPlayerIds>>
    BY <1>2 DEF RunoffStarted, Enter, voting, FairRound
  <2> QED
    BY <2>1, SameVotes DEF FairRound, RunoffPhases, EliminationIsDeserved
<1>3. CASE RunoffTallied
  <2> DEFINE tied == runoffPlayerIds
             candidates == Most(RunoffVotes, tied)
  <2>1. /\ phase = "runoff_voting" /\ normalTally.eliminated = NoPlayer
        /\ tied = Most(NormalVotes, Active) /\ tied \in SUBSET Players
        /\ ResolveTie(tied, RunoffVotes, candidates)
        /\ UNCHANGED <<voting, runoffBallots>>
    BY <1>3 DEF RunoffTallied, IInv, TypeOK, RoundInv, FairRound, RunoffPhases
  <2>2. \A p \in tied : RunoffVotes[p] = Cardinality(CastFor(runoffBallots, p))
    BY <2>1 DEF RunoffVotes
  <2>3. RunoffVotes \in Votes
    BY CountsAreVotes
  <2>4. EliminationIsDeserved'
    BY <2>1, <2>2, <2>3, ResolvedTieDeserves
  <2> QED
    BY <2>1, <2>4 DEF ResolveTie, Enter, FairRound, RunoffPhases
<1> QED
  BY <1>1, <1>2, <1>3

LEMMA StepIsFair ==
    ASSUME IInv, FairRound, EliminationIsDeserved, [Next]_vars
    PROVE  FairRound' /\ EliminationIsDeserved'
<1>1. CASE UNCHANGED vars \/ Tick
  <2>1. UNCHANGED <<phase, roster, voting, cumulative, runoff>>
    BY <1>1 DEF vars, Tick
  <2>2. Active' = Active
    BY <2>1, SameRoster
  <2> QED
    BY <2>1, <2>2, SameVotes
       DEF FairRound, RunoffPhases, EliminationIsDeserved, voting, runoff,
           RoundEliminated, CastFor, Voted
<1>2. CASE \/ \E p \in Players : ContestantReady(p) \/ FinalPleaSubmitted(p)
           \/ \E j, f \in Players : JuryBallotSubmitted(j, f)
           \/ LobbyTimedOut \/ EliminationRevealTimedOut
           \/ FinalPleaTimedOut \/ JuryTallied
  <2>1. phase' \notin {"voting", "tally", "elimination"} \cup RunoffPhases
    BY <1>2 DEF ContestantReady, FinalPleaSubmitted, JuryBallotSubmitted,
         LobbyTimedOut, EliminationRevealTimedOut, FinalPleaTimedOut, JuryTallied,
         StartJuryVoting, Enter, Stay, RunoffPhases
  <2> QED
    BY <2>1 DEF FairRound, RunoffPhases, EliminationIsDeserved
<1>3. CASE NegotiationTimedOut
  BY <1>3 DEF NegotiationTimedOut, Enter, FairRound, RunoffPhases,
              EliminationIsDeserved
<1>4. CASE VotingTimedOut \/ \E v, t \in Players : NormalBallotSubmitted(v, t)
  <2>1. /\ phase = "voting" /\ phase' \in {"voting", "tally"}
        /\ phase' = "tally" => missingNormalBallotPlayerIds'
                                  = Active \ Voted(normalBallots')
        /\ UNCHANGED <<roster, normalTally, runoffBallots>>
    BY <1>4 DEF VotingTimedOut, NormalBallotSubmitted, CloseVoting, Enter, Stay,
                runoff
  <2>2. Active' = Active /\ normalTally = NoTally
    BY <2>1, SameRoster DEF IInv, RoundInv
  <2> QED
    BY <2>1, <2>2 DEF FairRound, RunoffPhases, EliminationIsDeserved, Voted
<1>5. CASE NormalBallotsTallied
  BY <1>5, TallyIsFair
<1>6. CASE RunoffStarted \/ RunoffTallied
  BY <1>6, RunoffIsFair
<1>7. CASE \/ RunoffNegotiationTimedOut
           \/ \E v, t \in Players : RunoffBallotSubmitted(v, t)
  <2>1. /\ phase \in RunoffPhases /\ phase' = "runoff_voting"
        /\ UNCHANGED <<roster, voting, runoffPlayerIds>>
    BY <1>7 DEF RunoffNegotiationTimedOut, RunoffBallotSubmitted, Enter, Stay,
                RunoffPhases, runoff
  <2> QED
    BY <2>1, SameVotes DEF FairRound, RunoffPhases, EliminationIsDeserved, voting
<1> QED
  BY <1>1, <1>2, <1>3, <1>4, <1>5, <1>6, <1>7 DEF Next, Submission, Advance

(* For every roster: nobody who stays had more votes than the one who goes, *)
(* nor as many and more runoff votes, nor as many of both and a higher      *)
(* total over the match (tally.ts:139-150, runoff.ts:143-172).              *)
THEOREM EliminationsAreDeserved == Spec => []EliminationIsDeserved
<1>1. Init => FairRound /\ EliminationIsDeserved
  BY DEF Init, FairRound, RunoffPhases, EliminationIsDeserved
<1>2. IInv /\ FairRound /\ EliminationIsDeserved /\ [Next]_vars
         => FairRound' /\ EliminationIsDeserved'
  BY StepIsFair
<1> QED
  BY <1>1, <1>2, AlwaysIInv, PTL DEF Spec
=============================================================================
