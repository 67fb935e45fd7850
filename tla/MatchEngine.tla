---------------------------- MODULE MatchEngine ----------------------------
(***************************************************************************)
(* The game engine of one match: packages/game-engine/src.  A match is a   *)
(* value that commands map to the next value; here each command is one     *)
(* action.  A command the engine rejects changes nothing, and one it       *)
(* answers with the unchanged state (a repeated ready, ballot or tally)    *)
(* changes nothing either: both are stuttering steps.                      *)
(*                                                                         *)
(* A phase deadline is compared with the time of a command only, so it is  *)
(* kept as what that comparison tells: "none" (null), "running" (every     *)
(* command arrives before it) or "expired".  Ballots and totals are        *)
(* functions over the whole roster: a player without a ballot has NoBallot *)
(* and a player who is not counted has 0.                                  *)
(*                                                                         *)
(* A definition whose name ends in _Mutant is the next definition with a   *)
(* plausible mistake in it.  No action uses it: put in the place of the    *)
(* original it must break a property.                                      *)
(***************************************************************************)
EXTENDS Naturals, FiniteSets, Sequences, FiniteSetsExt

CONSTANTS
    Players,       \* the contestants the roster is created with
    NoPlayer,      \* null where the code holds a player id or null
    MinimumReady,  \* rulesetSnapshot.roster.minimumReadyCount
    MaxRevision,   \* bound: how often one ballot or plea is written
    MaxRounds      \* bound: rounds whose voting may open

ASSUME RosterAssumption ==
    /\ IsFiniteSet(Players)
    /\ Cardinality(Players) >= 4
    /\ NoPlayer \notin Players

ASSUME ReadyAssumption == MinimumReady \in 4..Cardinality(Players)

ASSUME BoundAssumption == MaxRevision \in Nat \ {0} /\ MaxRounds \in Nat

VARIABLES
    version,
    phase,
    deadline,         \* phaseDeadline, as "none", "running" or "expired"
    roster,           \* the status of every player
    readyPlayerIds,
    normalBallots,
    missingNormalBallotPlayerIds,
    normalTally,
    cumulative,       \* cumulativeEliminationVoteTotals
    runoffPlayerIds,
    runoffBallots,
    tieResolution,
    completedRounds,
    finalPleas,       \* the revision of each finalist's plea, 0 for none
    juryBallots,
    juryResult,
    winnerPlayerId

voting == <<normalBallots, missingNormalBallotPlayerIds, normalTally>>
runoff == <<runoffPlayerIds, runoffBallots, tieResolution>>
finale == <<finalPleas, juryBallots, juryResult, winnerPlayerId>>

vars == <<version, phase, deadline, roster, readyPlayerIds, voting, cumulative,
          runoff, completedRounds, finale>>

Phases == {"lobby", "negotiation", "voting", "tally", "runoff_negotiation",
           "runoff_voting", "elimination", "final_plea", "jury_voting",
           "complete", "cancelled"}

TerminalPhases == {"complete", "cancelled"}

Ballot == [target : Players \cup {NoPlayer}, revision : 0..MaxRevision]

NoBallot == [target |-> NoPlayer, revision |-> 0]

NoBallots == [p \in Players |-> NoBallot]

NoVotes == [p \in Players |-> 0]

Votes == [Players -> Nat]

Methods == {"none", "runoff_vote", "cumulative_votes", "missed_ballots",
            "jury_vote", "random_draw"}

Tally == [selfVotes : SUBSET Players, votes : Votes,
          leaders : SUBSET Players, eliminated : Players \cup {NoPlayer}]

Resolution == [votes : Votes, candidates : SUBSET Players,
               eliminated : Players \cup {NoPlayer}, method : Methods]

JuryResult == [votes : Votes, candidates : SUBSET Players, method : Methods]

(* The archived ballots, which nothing reads again, are left out; so is the *)
(* winner of a jury's result, as it is winnerPlayerId.                     *)
Round == [selfVotes : SUBSET Players, votes : Votes, tied : SUBSET Players,
          runoffVotes : Votes, eliminated : Players, method : Methods]

(* The null of each result: every result that exists has candidates. *)
NoTally == [selfVotes |-> {}, votes |-> NoVotes, leaders |-> {},
            eliminated |-> NoPlayer]

NoResolution == [votes |-> NoVotes, candidates |-> {}, eliminated |-> NoPlayer,
                 method |-> "none"]

NoResult == [votes |-> NoVotes, candidates |-> {}, method |-> "none"]

(***************************************************************************)
(* Helpers                                                                 *)
(***************************************************************************)

WithStatus(status) == {p \in Players : roster[p] = status}

Active == WithStatus("active")

Jurors == WithStatus("eliminated")

Voted(ballots) == {p \in Players : ballots[p].target # NoPlayer}

CastFor(ballots, t) == {v \in Players : ballots[v].target = t}

(* A ballot for t replaces the voter's earlier one under the next revision; *)
(* the same target again is not a change.                                   *)
Recast(ballots, v, t) ==
    [ballots EXCEPT ![v] = [target |-> t, revision |-> ballots[v].revision + 1]]

CanRecast(ballots, v, t) ==
    /\ ballots[v].target # t
    /\ ballots[v].revision < MaxRevision

Most(votes, candidates) ==
    {p \in candidates : \A q \in candidates : votes[q] <= votes[p]}

Fewest_Mutant(votes, candidates) == Most(votes, candidates)

Fewest(votes, candidates) ==
    {p \in candidates : \A q \in candidates : votes[p] <= votes[q]}

AddVotes_Mutant(a, b) == b  \* the round replaces the totals

AddVotes(a, b) == [p \in Players |-> a[p] + b[p]]

IsTie(candidates) == Cardinality(candidates) > 1

(* A tie falls to the candidates ahead in the totals of the whole match.    *)
TieCandidates_Mutant(totals, candidates) ==  \* breaks the tie the jury's way
    IF IsTie(candidates) THEN Fewest(totals, candidates) ELSE candidates

TieCandidates(totals, candidates) ==
    IF IsTie(candidates) THEN Most(totals, candidates) ELSE candidates

(* Every transition: the updates it names, and the next version.            *)
Enter_Mutant(nextPhase, nextDeadline) ==  \* updates that keep the version
    /\ phase' = nextPhase
    /\ deadline' = nextDeadline
    /\ UNCHANGED version

Enter(nextPhase, nextDeadline) ==
    /\ phase' = nextPhase
    /\ deadline' = nextDeadline
    /\ version' = version + 1

Stay_Mutant ==  \* an update restarts the deadline of the phase
    /\ UNCHANGED phase
    /\ deadline' = "running"
    /\ version' = version + 1

Stay ==
    /\ UNCHANGED <<phase, deadline>>
    /\ version' = version + 1

Eliminate_Mutant(p) ==  \* rebuilds the roster and forgets who was out
    roster' = [q \in Players |-> IF q = p THEN "eliminated" ELSE "active"]

Eliminate(p) == roster' = [roster EXCEPT ![p] = "eliminated"]

Init ==
    /\ version = 1
    /\ phase = "lobby"
    /\ deadline = "running"
    /\ roster = [p \in Players |-> "active"]
    /\ readyPlayerIds = {}
    /\ normalBallots = NoBallots
    /\ missingNormalBallotPlayerIds = {}
    /\ normalTally = NoTally
    /\ cumulative = NoVotes
    /\ runoffPlayerIds = {}
    /\ runoffBallots = NoBallots
    /\ tieResolution = NoResolution
    /\ completedRounds = <<>>
    /\ finalPleas = NoVotes
    /\ juryBallots = NoBallots
    /\ juryResult = NoResult
    /\ winnerPlayerId = NoPlayer

(* Time reaches the deadline of the phase. *)
Tick ==
    /\ deadline = "running"
    /\ deadline' = "expired"
    /\ UNCHANGED <<version, phase, roster, readyPlayerIds, voting, cumulative,
                   runoff, completedRounds, finale>>

(***************************************************************************)
(* Lobby                                                                   *)
(***************************************************************************)

ContestantReady(p) ==
    /\ phase = "lobby"
    /\ deadline = "running"
    /\ p \notin readyPlayerIds
    /\ readyPlayerIds' = readyPlayerIds \cup {p}
    /\ IF readyPlayerIds' = Players THEN Enter("negotiation", "running") ELSE Stay
    /\ UNCHANGED <<roster, voting, cumulative, runoff, completedRounds, finale>>

LobbyTimedOut ==
    /\ phase = "lobby"
    /\ deadline = "expired"
    /\ IF Cardinality(readyPlayerIds) < MinimumReady
       THEN Enter("cancelled", "none")
       ELSE Enter("negotiation", "running")
    /\ UNCHANGED <<roster, readyPlayerIds, voting, cumulative, runoff,
                   completedRounds, finale>>

(***************************************************************************)
(* Negotiation, voting and tally                                           *)
(***************************************************************************)

NegotiationTimedOut ==
    /\ phase = "negotiation"
    /\ deadline = "expired"
    /\ Len(completedRounds) < MaxRounds
    /\ Enter("voting", "running")
    /\ normalBallots' = NoBallots
    /\ missingNormalBallotPlayerIds' = {}
    /\ normalTally' = NoTally
    /\ runoffPlayerIds' = {}
    /\ runoffBallots' = NoBallots
    /\ tieResolution' = NoResolution
    /\ UNCHANGED <<roster, readyPlayerIds, cumulative, completedRounds, finale>>

CloseVoting_Mutant ==  \* missing ballots taken from before the last one
    /\ Enter("tally", "none")
    /\ missingNormalBallotPlayerIds' = Active \ Voted(normalBallots)

CloseVoting ==
    /\ Enter("tally", "none")
    /\ missingNormalBallotPlayerIds' = Active \ Voted(normalBallots')

EverybodyVoted_Mutant(ballots) ==  \* off by one
    Cardinality(Voted(ballots)) >= Cardinality(Active) - 1

EverybodyVoted(ballots) == Voted(ballots) = Active

NormalBallotSubmitted(v, t) ==
    /\ phase = "voting"
    /\ deadline = "running"
    /\ v \in Active
    /\ t \in Active
    /\ v # t
    /\ CanRecast(normalBallots, v, t)
    /\ normalBallots' = Recast(normalBallots, v, t)
    /\ IF EverybodyVoted(normalBallots')
       THEN CloseVoting
       ELSE Stay /\ UNCHANGED missingNormalBallotPlayerIds
    /\ UNCHANGED <<roster, readyPlayerIds, normalTally, cumulative, runoff,
                   completedRounds, finale>>

VotingTimedOut ==
    /\ phase = "voting"
    /\ deadline = "expired"
    /\ UNCHANGED normalBallots
    /\ CloseVoting
    /\ UNCHANGED <<roster, readyPlayerIds, normalTally, cumulative, runoff,
                   completedRounds, finale>>

(* validTallyState: each active player has voted for another active player *)
(* or is missing, never both, and nobody else has.                         *)
ValidTallyState ==
    /\ \A v \in Voted(normalBallots) :
           v \in Active /\ normalBallots[v].target \in Active \ {v}
    /\ missingNormalBallotPlayerIds = Active \ Voted(normalBallots)

(* Each ballot counts for its target, each missing one for its owner. *)
NormalVotes_Mutant ==  \* a missing ballot is an abstention
    [p \in Players |-> Cardinality(CastFor(normalBallots, p))]

NormalVotes ==
    [p \in Players |-> Cardinality(CastFor(normalBallots, p))
                       + IF p \in missingNormalBallotPlayerIds THEN 1 ELSE 0]

NormalBallotsTallied ==
    LET leaders == Most(NormalVotes, Active)
    IN  /\ phase = "tally"
        /\ normalTally = NoTally
        /\ ValidTallyState
        /\ cumulative' = AddVotes(cumulative, NormalVotes)
        /\ \/ /\ IsTie(leaders)
              /\ normalTally' = [selfVotes |-> missingNormalBallotPlayerIds,
                                 votes |-> NormalVotes, leaders |-> leaders,
                                 eliminated |-> NoPlayer]
              /\ Stay
              /\ UNCHANGED roster
           \/ \E p \in leaders :
                 /\ ~IsTie(leaders)
                 /\ normalTally' = [selfVotes |-> missingNormalBallotPlayerIds,
                                    votes |-> NormalVotes, leaders |-> leaders,
                                    eliminated |-> p]
                 /\ Enter("elimination", "running")
                 /\ Eliminate(p)
        /\ UNCHANGED <<readyPlayerIds, normalBallots, missingNormalBallotPlayerIds,
                       runoff, completedRounds, finale>>

(***************************************************************************)
(* Runoff                                                                  *)
(***************************************************************************)

(* The runoff votes join the cumulative totals first; the candidates with  *)
(* the highest totals remain, and a draw decides between those.            *)
ResolveTie(tied, votes, candidates) ==
    LET totals    == AddVotes(cumulative, votes)
        remaining == TieCandidates(totals, candidates)
    IN  /\ cumulative' = totals
        /\ runoffPlayerIds' = tied
        /\ Enter("elimination", "running")
        /\ \E p \in remaining :
              /\ Eliminate(p)
              /\ tieResolution' =
                    [votes |-> votes, candidates |-> remaining, eliminated |-> p,
                     method |-> IF IsTie(remaining) THEN "random_draw"
                                ELSE IF IsTie(candidates) THEN "cumulative_votes"
                                ELSE "runoff_vote"]

RunoffStarted ==
    /\ phase = "tally"
    /\ normalTally # NoTally
    /\ normalTally.eliminated = NoPlayer
    /\ IsTie(normalTally.leaders)
    /\ normalTally.leaders \subseteq Active
    /\ \/ /\ normalTally.leaders = Active
          /\ ResolveTie(Active, NoVotes, Active)
          /\ UNCHANGED runoffBallots
       \/ /\ normalTally.leaders # Active
          /\ Enter("runoff_negotiation", "running")
          /\ runoffPlayerIds' = normalTally.leaders
          /\ runoffBallots' = NoBallots
          /\ tieResolution' = NoResolution
          /\ UNCHANGED <<roster, cumulative>>
    /\ UNCHANGED <<readyPlayerIds, voting, completedRounds, finale>>

RunoffNegotiationTimedOut ==
    /\ phase = "runoff_negotiation"
    /\ deadline = "expired"
    /\ Enter("runoff_voting", "running")
    /\ UNCHANGED <<roster, readyPlayerIds, voting, cumulative, runoff,
                   completedRounds, finale>>

RunoffVoters == Active \ runoffPlayerIds

ValidRunoffBallots ==
    \A v \in Voted(runoffBallots) :
        v \in RunoffVoters /\ runoffBallots[v].target \in runoffPlayerIds

RunoffBallotSubmitted(v, t) ==
    /\ phase = "runoff_voting"
    /\ ValidRunoffBallots
    /\ deadline = "running"
    /\ v \in RunoffVoters
    /\ t \in runoffPlayerIds
    /\ CanRecast(runoffBallots, v, t)
    /\ runoffBallots' = Recast(runoffBallots, v, t)
    /\ Stay
    /\ UNCHANGED <<roster, readyPlayerIds, voting, cumulative, runoffPlayerIds,
                   tieResolution, completedRounds, finale>>

RunoffVotes_Mutant ==  \* counts the wrong ballots
    [p \in Players |-> IF p \in runoffPlayerIds
                       THEN Cardinality(CastFor(normalBallots, p)) ELSE 0]

RunoffVotes ==
    [p \in Players |-> IF p \in runoffPlayerIds
                       THEN Cardinality(CastFor(runoffBallots, p)) ELSE 0]

RunoffTallied ==
    /\ phase = "runoff_voting"
    /\ ValidRunoffBallots
    /\ deadline = "expired" \/ Voted(runoffBallots) = RunoffVoters
    /\ ResolveTie(runoffPlayerIds, RunoffVotes, Most(RunoffVotes, runoffPlayerIds))
    /\ UNCHANGED <<readyPlayerIds, voting, runoffBallots, completedRounds, finale>>

(***************************************************************************)
(* Elimination reveal and finale                                           *)
(***************************************************************************)

RoundEliminated_Mutant == tieResolution.eliminated  \* forgets a clear tally

(* The player the round removed: archiveRound prefers the clear result of  *)
(* the tally to the resolution of a tie.                                   *)
RoundEliminated ==
    IF normalTally.eliminated # NoPlayer THEN normalTally.eliminated
                                         ELSE tieResolution.eliminated

CanArchive ==
    /\ normalTally # NoTally
    /\ RoundEliminated \in Jurors

ArchivedRound_Mutant ==  \* takes the player from the tie's resolution always
    [selfVotes |-> normalTally.selfVotes,
     votes |-> normalTally.votes,
     tied |-> runoffPlayerIds,
     runoffVotes |-> tieResolution.votes,
     eliminated |-> tieResolution.eliminated,
     method |-> tieResolution.method]

ArchivedRound ==
    [selfVotes |-> normalTally.selfVotes,
     votes |-> normalTally.votes,
     tied |-> runoffPlayerIds,
     runoffVotes |-> tieResolution.votes,
     eliminated |-> RoundEliminated,
     method |-> tieResolution.method]

EliminationRevealTimedOut ==
    /\ phase = "elimination"
    /\ deadline = "expired"
    /\ CanArchive
    /\ Cardinality(Active) >= 2
    /\ IF Cardinality(Active) = 2 THEN Enter("final_plea", "running")
                                  ELSE Enter("negotiation", "running")
    /\ completedRounds' = Append(completedRounds, ArchivedRound)
    /\ finalPleas' = NoVotes
    /\ juryBallots' = NoBallots
    /\ juryResult' = NoResult
    /\ winnerPlayerId' = NoPlayer
    /\ UNCHANGED <<roster, readyPlayerIds, voting, cumulative, runoff>>

StartJuryVoting ==
    /\ Enter("jury_voting", "running")
    /\ juryBallots' = NoBallots
    /\ juryResult' = NoResult
    /\ winnerPlayerId' = NoPlayer

FinalPleaTimedOut ==
    /\ phase = "final_plea"
    /\ deadline = "expired"
    /\ StartJuryVoting
    /\ UNCHANGED <<roster, readyPlayerIds, voting, cumulative, runoff,
                   completedRounds, finalPleas>>

(* A plea of another text replaces the finalist's plea; the last of the    *)
(* finalists' pleas opens the jury's vote.                                 *)
FinalPleaSubmitted(p) ==
    /\ phase = "final_plea"
    /\ deadline = "running"
    /\ p \in Active
    /\ finalPleas[p] < MaxRevision
    /\ finalPleas' = [finalPleas EXCEPT ![p] = @ + 1]
    /\ IF \A q \in Active : finalPleas'[q] > 0
       THEN StartJuryVoting
       ELSE Stay /\ UNCHANGED <<juryBallots, juryResult, winnerPlayerId>>
    /\ UNCHANGED <<roster, readyPlayerIds, voting, cumulative, runoff,
                   completedRounds>>

JuryBallotSubmitted(j, f) ==
    /\ phase = "jury_voting"
    /\ Cardinality(Active) = 2
    /\ deadline = "running"
    /\ j \in Jurors
    /\ f \in Active
    /\ CanRecast(juryBallots, j, f)
    /\ juryBallots' = Recast(juryBallots, j, f)
    /\ Stay
    /\ UNCHANGED <<roster, readyPlayerIds, voting, cumulative, runoff,
                   completedRounds, finalPleas, juryResult, winnerPlayerId>>

JuryVotes ==
    [p \in Players |-> IF p \in Active
                       THEN Cardinality(CastFor(juryBallots, p)) ELSE 0]

(* The rounds in which a player was given an automatic self vote. *)
MissedRounds ==
    [p \in Players |->
        Cardinality({r \in DOMAIN completedRounds :
                        p \in completedRounds[r].selfVotes})]

JuryTallied ==
    LET byVotes      == Most(JuryVotes, Active)
        byCumulative == IF IsTie(byVotes) THEN Fewest(cumulative, byVotes)
                                          ELSE byVotes
        byMissed     == IF IsTie(byCumulative) THEN Fewest(MissedRounds, byCumulative)
                                               ELSE byCumulative
    IN  /\ phase = "jury_voting"
        /\ Cardinality(Active) = 2
        /\ deadline = "expired" \/ Voted(juryBallots) = Jurors
        /\ Enter("complete", "none")
        /\ \E p \in byMissed : winnerPlayerId' = p
        /\ juryResult' =
              [votes |-> JuryVotes, candidates |-> byMissed,
               method |-> IF IsTie(byMissed) THEN "random_draw"
                          ELSE IF IsTie(byCumulative) THEN "missed_ballots"
                          ELSE IF IsTie(byVotes) THEN "cumulative_votes"
                          ELSE "jury_vote"]
        /\ UNCHANGED <<roster, readyPlayerIds, voting, cumulative, runoff,
                       completedRounds, finalPleas, juryBallots>>

Submission ==
    \/ \E p \in Players : ContestantReady(p) \/ FinalPleaSubmitted(p)
    \/ \E v, t \in Players :
          \/ NormalBallotSubmitted(v, t)
          \/ RunoffBallotSubmitted(v, t)
          \/ JuryBallotSubmitted(v, t)

Advance ==
    \/ LobbyTimedOut
    \/ NegotiationTimedOut
    \/ VotingTimedOut
    \/ NormalBallotsTallied
    \/ RunoffStarted
    \/ RunoffNegotiationTimedOut
    \/ RunoffTallied
    \/ EliminationRevealTimedOut
    \/ FinalPleaTimedOut
    \/ JuryTallied

Next == Tick \/ Submission \/ Advance

Spec == Init /\ [][Next]_vars

(* Deadlines pass, and what drives a match past each of them comes.        *)
Fairness == WF_vars(Tick) /\ WF_vars(Advance)

FairSpec == Spec /\ Fairness

-----------------------------------------------------------------------------
(***************************************************************************)
(* Properties                                                              *)
(***************************************************************************)

TypeOK ==
    /\ version \in Nat
    /\ phase \in Phases
    /\ deadline \in {"none", "running", "expired"}
    /\ roster \in [Players -> {"active", "eliminated"}]
    /\ readyPlayerIds \in SUBSET Players
    /\ normalBallots \in [Players -> Ballot]
    /\ missingNormalBallotPlayerIds \in SUBSET Players
    /\ normalTally \in Tally
    /\ cumulative \in Votes
    /\ runoffPlayerIds \in SUBSET Players
    /\ runoffBallots \in [Players -> Ballot]
    /\ tieResolution \in Resolution
    /\ completedRounds \in Seq(Round)
    /\ finalPleas \in [Players -> 0..MaxRevision]
    /\ juryBallots \in [Players -> Ballot]
    /\ juryResult \in JuryResult
    /\ winnerPlayerId \in Players \cup {NoPlayer}

(* The phases in which the round's tally may be there and is not archived. *)
OpenRound == phase \in {"tally", "runoff_negotiation", "runoff_voting", "elimination"}

TotalOf(votes) == MapThenSumSet(LAMBDA x : votes[x], DOMAIN votes)

(* The totals that break ties hold every elimination vote of the match     *)
(* once: those of the archived rounds and those of the round being         *)
(* resolved, normal and runoff votes both, however often a tally is asked  *)
(* for (tally.ts:130-138, runoff.ts:116-127).                              *)
CumulativeIsEveryVote ==
    \A p \in Players :
        cumulative[p] =
            TotalOf([r \in DOMAIN completedRounds |->
                        completedRounds[r].votes[p] + completedRounds[r].runoffVotes[p]])
            + IF OpenRound THEN normalTally.votes[p] + tieResolution.votes[p] ELSE 0

(* No round loses or invents a vote: a round tallies exactly one vote for  *)
(* each contestant it began with, cast or automatic, and a runoff at most  *)
(* one for each contestant outside the tie (tally.ts:112-128).             *)
OneVoteEach ==
    /\ \A r \in DOMAIN completedRounds :
          LET round == completedRounds[r]
              began == Cardinality(Players) - (r - 1)
          IN  /\ TotalOf(round.votes) = began
              /\ TotalOf(round.runoffVotes) <= began - Cardinality(round.tied)
    /\ OpenRound /\ normalTally # NoTally =>
          TotalOf(normalTally.votes) = Cardinality(Players) - Len(completedRounds)

(* By the ballots the player a reveal shows had the most votes: nobody      *)
(* still active had more normal votes (a missing ballot is one for its      *)
(* owner), among those with as many nobody more runoff votes, and among     *)
(* those nobody a higher total over the match (runoff.ts:143-172).          *)
EliminationIsDeserved ==
    phase = "elimination" =>
        \A q \in Active :
            LET e    == RoundEliminated
                n(p) == Cardinality(CastFor(normalBallots, p))
                        + IF p \in Voted(normalBallots) THEN 0 ELSE 1
                o(p) == Cardinality(CastFor(runoffBallots, p))
            IN  \/ n(q) < n(e)
                \/ /\ n(q) = n(e)
                   /\ \/ o(q) < o(e)
                      \/ o(q) = o(e) /\ cumulative[q] <= cumulative[e]

(* The winner beats the other finalist in the order of the jury rules:     *)
(* more jury votes, then fewer elimination votes over the match, then      *)
(* fewer missed ballots (finale.ts:197-228).                               *)
WinnerIsDeserved ==
    phase = "complete" =>
        LET w == winnerPlayerId
        IN  /\ w \in Active
            /\ \A q \in Active \ {w} :
                  \/ JuryVotes[q] < JuryVotes[w]
                  \/ /\ JuryVotes[q] = JuryVotes[w]
                     /\ \/ cumulative[w] < cumulative[q]
                        \/ /\ cumulative[w] = cumulative[q]
                           /\ MissedRounds[w] <= MissedRounds[q]

(* Every completed round removed one contestant of its own, nobody else is *)
(* out, and a match that reached its finale has exactly two left.          *)
OneEliminationPerRound ==
    LET archived == {completedRounds[r].eliminated : r \in DOMAIN completedRounds}
        revealed == IF phase = "elimination" THEN {RoundEliminated} ELSE {}
    IN  /\ Jurors = archived \cup revealed
        /\ Cardinality(archived) = Len(completedRounds)
        /\ revealed \cap archived = {}
        /\ phase \in {"final_plea", "jury_voting", "complete"} =>
              Cardinality(Active) = 2

(* The states the engine refuses to go on from (invalid_tally_state,       *)
(* invalid_runoff_state, invalid_finale_state) are never reached, and a    *)
(* runoff always has someone who may vote in it.                           *)
NeverInvalid ==
    /\ phase = "tally" /\ normalTally = NoTally => ValidTallyState
    /\ phase = "tally" /\ normalTally # NoTally =>
          /\ normalTally.eliminated = NoPlayer
          /\ IsTie(normalTally.leaders)
          /\ normalTally.leaders \subseteq Active
    /\ phase \in {"runoff_negotiation", "runoff_voting"} =>
          ValidRunoffBallots /\ RunoffVoters # {} /\ IsTie(runoffPlayerIds)
    /\ phase = "elimination" => CanArchive /\ Cardinality(Active) >= 2
    /\ phase = "jury_voting" =>
          \A j \in Voted(juryBallots) :
              j \in Jurors /\ juryBallots[j].target \in Active

(* What was decided stays: archived rounds are never rewritten, and who is *)
(* out stays out.                                                          *)
Irrevocable ==
    [][ /\ SubSeq(completedRounds', 1, Len(completedRounds)) = completedRounds
        /\ Jurors \subseteq Jurors'
        /\ phase \in TerminalPhases => UNCHANGED vars ]_vars

(* While a vote is open before its deadline it closes only when nobody is  *)
(* left to vote, and what a round is resolved from is fixed by then: the   *)
(* ballots and the missing ones do not change between the close of voting  *)
(* and the archive.                                                        *)
ClosedVotesStand ==
    [][ /\ phase = "voting" /\ phase' = "tally" /\ deadline = "running" =>
              missingNormalBallotPlayerIds' = {} /\ Voted(normalBallots') = Active
        /\ OpenRound =>
              UNCHANGED <<normalBallots, missingNormalBallotPlayerIds>>
        /\ OpenRound /\ normalTally # NoTally => UNCHANGED normalTally
        /\ phase = "elimination" => UNCHANGED <<runoffBallots, tieResolution>> ]_vars

Lifecycle ==
    INSTANCE MatchLifecycle WITH Contestants <- Cardinality(Players),
                                 active <- Cardinality(Active)

(* The engine keeps the promises of MatchLifecycle. *)
ImplementsLifecycle == Lifecycle!Spec

Stored == INSTANCE StoredMatch WITH Contestants <- Cardinality(Players)

(* What the match's row and snapshot show the backend of it. *)
StoredRow == [version |-> version, phase |-> phase, active |-> Cardinality(Active),
              tallied |-> phase = "tally" /\ normalTally # NoTally,
              deadline |-> deadline]

(* StoredMatch leaves out the ballots but no outcome: every step the engine *)
(* takes is among those the deadline handler and the command executor are   *)
(* modelled with, the deadline of the new phase included.                   *)
StoredMatchIsFaithful ==
    [][version' # version =>
          StoredRow' \in IF phase # "tally"
                         THEN Stored!Commanded(StoredRow) \cup Stored!TimedOut(StoredRow)
                         ELSE IF normalTally = NoTally
                              THEN Stored!Tallied(StoredRow)
                              ELSE Stored!RunoffStarted(StoredRow)]_vars

(* docs/MVP_PRODUCT_SPEC.md:111 says that a submitted ballot may be changed *)
(* until the voting deadline: voting would close at the deadline only.      *)
BallotMayChangeUntilDeadline ==
    [][phase = "voting" /\ phase' = "tally" => deadline = "expired"]_vars

(* A match whose deadlines are driven ends, cancelled or with a winner.    *)
MatchEnds == <>(phase \in TerminalPhases)
=============================================================================
