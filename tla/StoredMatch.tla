---------------------------- MODULE StoredMatch ----------------------------
(***************************************************************************)
(* A match as its row and snapshot hold it, and what the two services that *)
(* load, change and save it make of it in one transaction: a player's      *)
(* command (match-command-executor.ts) and a deadline (deadline-handler.ts).*)
(* Ballots are left to MatchEngine: an operator here returns the set of the *)
(* matches they may lead to.                                               *)
(***************************************************************************)
EXTENDS Naturals

CONSTANT Contestants  \* rulesetSnapshot.roster.contestantCount

ASSUME ContestantsAssumption == Contestants \in Nat /\ Contestants >= 4

Phases == {"lobby", "negotiation", "voting", "tally", "runoff_negotiation",
           "runoff_voting", "elimination", "final_plea", "jury_voting",
           "complete", "cancelled"}

TerminalPhases == {"complete", "cancelled"}

(* tallied: phase "tally" with a normalTally, which is then a tie.         *)
(* deadline: phaseDeadline, "none" (null), "running" or "expired".         *)
Match == [version : Nat \ {0}, phase : Phases, active : 2..Contestants, tallied : BOOLEAN,
          deadline : {"none", "running", "expired"}]

NewMatch == [version |-> 1, phase |-> "lobby", active |-> Contestants,
             tallied |-> FALSE, deadline |-> "running"]

DeadlineOf(p) == IF p \in TerminalPhases \cup {"tally"} THEN "none" ELSE "running"

(* createMatchTransition, into phase p or within the phase. *)
Entered(m, p, active) ==
    [version |-> m.version + 1, phase |-> p, active |-> active,
     tallied |-> FALSE, deadline |-> DeadlineOf(p)]

Enter(m, p) == Entered(m, p, m.active)

Stay(m) == [m EXCEPT !.version = @ + 1]

RecordTie(m) == [Stay(m) EXCEPT !.tallied = TRUE]

Eliminate(m) == Entered(m, "elimination", m.active - 1)

(***************************************************************************)
(* Commands of players                                                     *)
(***************************************************************************)

OpenPhases == {"lobby", "voting", "runoff_voting", "final_plea", "jury_voting"}

(* The last contestant to ready, vote or plead moves the match on; the     *)
(* last ballot of a runoff or of the jury does not.                        *)
ClosesTo(p) == CASE p = "lobby"      -> {"negotiation"}
                 [] p = "voting"     -> {"tally"}
                 [] p = "final_plea" -> {"jury_voting"}
                 [] OTHER            -> {}

Commanded(m) ==
    IF m.phase \in OpenPhases
    THEN {Stay(m)} \cup {Enter(m, p) : p \in ClosesTo(m.phase)}
    ELSE {}

(***************************************************************************)
(* Deadlines                                                               *)
(***************************************************************************)

TimesOutTo_Mutant(m) ==  \* off by one: the finale waits for one more round
    CASE m.phase = "lobby"              -> {"negotiation", "cancelled"}
      [] m.phase = "negotiation"        -> {"voting"}
      [] m.phase = "voting"             -> {"tally"}
      [] m.phase = "runoff_negotiation" -> {"runoff_voting"}
      [] m.phase = "elimination"        -> {IF m.active < 2 THEN "final_plea"
                                                            ELSE "negotiation"}
      [] m.phase = "final_plea"         -> {"jury_voting"}
      [] m.phase = "jury_voting"        -> {"complete"}
      [] OTHER                          -> {}

TimesOutTo(m) ==
    CASE m.phase = "lobby"              -> {"negotiation", "cancelled"}
      [] m.phase = "negotiation"        -> {"voting"}
      [] m.phase = "voting"             -> {"tally"}
      [] m.phase = "runoff_negotiation" -> {"runoff_voting"}
      [] m.phase = "elimination"        -> {IF m.active = 2 THEN "final_plea"
                                                            ELSE "negotiation"}
      [] m.phase = "final_plea"         -> {"jury_voting"}
      [] m.phase = "jury_voting"        -> {"complete"}
      [] OTHER                          -> {}

TimedOut(m) ==
    CASE m.phase = "tally"         -> {m}
      [] m.phase = "runoff_voting" -> {Eliminate(m)}
      [] OTHER                     -> {Enter(m, p) : p \in TimesOutTo(m)}

(* A tally eliminates its leader or records a tie; a tie goes to a runoff, *)
(* or is resolved at once when everybody is tied.                          *)
Tallied(m) == {Eliminate(m), RecordTie(m)}

RunoffStarted(m) == {Enter(m, "runoff_negotiation"), Eliminate(m)}

(* advanceDeadline: the step the phase calls for and, from a tally, the    *)
(* steps after it, as one change of the stored match.                      *)
AdvanceDeadline_Mutant(m) == TimedOut(m)  \* leaves the tally to a later job

AdvanceDeadline(m) ==
    LET untallied(x) == x.phase = "tally" /\ ~x.tallied
        tied(x)      == x.phase = "tally" /\ x.tallied
        tally  == UNION {IF untallied(x) THEN Tallied(x) ELSE {x} : x \in TimedOut(m)}
        runoff == UNION {IF tied(x) THEN RunoffStarted(x) ELSE {x} : x \in tally}
    IN  IF m.phase \in TerminalPhases THEN {} ELSE runoff
=============================================================================
