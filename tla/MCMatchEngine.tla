--------------------------- MODULE MCMatchEngine ---------------------------
(* Instances of MatchEngine for TLC.  Nothing in the engine depends on the *)
(* order of the roster, so the players are interchangeable.                *)
EXTENDS MatchEngine, TLC

CONSTANT Callers  \* the players who vote and plead at all in CallersSpec

Symmetric == Permutations(Players)

(* Everybody may ready up, but only Callers send ballots and pleas: a      *)
(* smaller instance, for liveness, which symmetry would make unsound.      *)
CallersNext ==
    \/ Tick
    \/ Advance
    \/ \E p \in Players : ContestantReady(p)
    \/ \E p \in Callers : FinalPleaSubmitted(p)
    \/ \E v \in Callers, t \in Players :
          \/ NormalBallotSubmitted(v, t)
          \/ RunoffBallotSubmitted(v, t)
          \/ JuryBallotSubmitted(v, t)

CallersSpec == Init /\ [][CallersNext]_vars /\ Fairness
=============================================================================
