--------------------------- MODULE MatchLifecycle ---------------------------
(***************************************************************************)
(* What a match promises to those who store it, schedule its deadlines and *)
(* follow it, whatever the ballots say: every change is a new version, the *)
(* phases follow the diagram of docs/TECHNICAL_ARCHITECTURE.md as far as   *)
(* the engine implements it, each round removes one contestant, and two    *)
(* finalists are left to the jury.                                         *)
(***************************************************************************)
EXTENDS Naturals

CONSTANT Contestants  \* rulesetSnapshot.roster.contestantCount

VARIABLES version, phase, active

vars == <<version, phase, active>>

(* The phases in which a player's command may change the match. *)
OpenPhases == {"lobby", "voting", "runoff_voting", "final_plea", "jury_voting"}

(* The moves that leave the number of active contestants alone. *)
Moves ==
    {<<"lobby", "negotiation">>, <<"lobby", "cancelled">>,
     <<"negotiation", "voting">>, <<"voting", "tally">>,
     <<"tally", "runoff_negotiation">>,
     <<"runoff_negotiation", "runoff_voting">>,
     <<"final_plea", "jury_voting">>, <<"jury_voting", "complete">>}

Init ==
    /\ version = 1
    /\ phase = "lobby"
    /\ active = Contestants

Submit ==
    /\ phase \in OpenPhases
    /\ version' = version + 1
    /\ UNCHANGED <<phase, active>>

RecordTie ==
    /\ phase = "tally"
    /\ version' = version + 1
    /\ UNCHANGED <<phase, active>>

Move ==
    /\ \E m \in Moves : phase = m[1] /\ phase' = m[2]
    /\ version' = version + 1
    /\ UNCHANGED active

Eliminate ==
    /\ phase \in {"tally", "runoff_voting"}
    /\ phase' = "elimination"
    /\ active' = active - 1
    /\ version' = version + 1

Reveal ==
    /\ phase = "elimination"
    /\ phase' = IF active = 2 THEN "final_plea" ELSE "negotiation"
    /\ version' = version + 1
    /\ UNCHANGED active

Progress == Move \/ Eliminate \/ Reveal

Next == Submit \/ RecordTie \/ Progress

Spec == Init /\ [][Next]_vars
=============================================================================
