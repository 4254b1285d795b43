------------------------------ MODULE LiarLine ------------------------------
(***************************************************************************)
(* The game the server offers its players: rounds with a liar and          *)
(* guessers, one vote each, points when everybody has voted, a round       *)
(* called off when a player leaves.  Every step is atomic and there are no *)
(* packets, threads or handlers; module SerialServer shows that the code   *)
(* implements it when packets are handled one at a time.                   *)
(***************************************************************************)
EXTENDS Naturals, FiniteSets

CONSTANTS Ids, Nobody, MinPlayers, MaxPlayers

VARIABLES seated,     (* the players                                        *)
          running,    (* is a round running                                 *)
          liar,       (* its liar, or Nobody                                *)
          guessers,   (* who was dealt the word                             *)
          ballot,     (* who has voted for whom                             *)
          points      (* what everybody has won                             *)

vars == <<seated, running, liar, guessers, ballot, points>>

NoBallot == [p \in Ids |-> Nobody]

NoRound == /\ running' = FALSE
           /\ liar' = Nobody
           /\ guessers' = {}
           /\ ballot' = NoBallot

Init ==
  /\ seated = {}
  /\ running = FALSE
  /\ liar = Nobody
  /\ guessers = {}
  /\ ballot = NoBallot
  /\ points = [p \in Ids |-> 0]

(* Players come at any time.  Who comes during a round votes in it and has *)
(* no part in its points.                                                  *)
Join(p) ==
  /\ p \notin seated
  /\ seated' = seated \cup {p}
  /\ UNCHANGED <<running, liar, guessers, ballot, points>>

(* Who leaves loses its points and ends the round for everybody.           *)
Leave(p) ==
  /\ p \in seated
  /\ seated' = seated \ {p}
  /\ points' = [points EXCEPT ![p] = 0]
  /\ NoRound

Start ==
  /\ ~running
  /\ Cardinality(seated) \in MinPlayers..MaxPlayers
  /\ running' = TRUE
  /\ liar' \in seated
  /\ guessers' = seated \ {liar'}
  /\ UNCHANGED <<seated, ballot, points>>

Vote(p, t) ==
  /\ running
  /\ {p, t} \subseteq seated
  /\ ballot[p] = Nobody
  /\ ballot' = [ballot EXCEPT ![p] = t]
  /\ UNCHANGED <<seated, running, liar, guessers, points>>

----------------------------------------------------------------------------
(* More than half of the players voted for p.                              *)
VotersFor(p) == {v \in seated : ballot[v] = p}
VotedOut(p)  == 2 * Cardinality(VotersFor(p)) > Cardinality(seated)

Winnings ==
  [p \in Ids |->
     IF VotedOut(liar)
     THEN IF p \in guessers /\ ballot[p] = liar THEN 1 ELSE 0
     ELSE IF p = liar /\ (\E q \in seated : VotedOut(q)) THEN 2 ELSE 0]

Resolve ==
  /\ running
  /\ \A p \in seated : ballot[p] # Nobody
  /\ points' = [p \in Ids |-> points[p] + Winnings[p]]
  /\ NoRound
  /\ UNCHANGED seated

----------------------------------------------------------------------------
Next ==
  \/ \E p \in Ids : Join(p) \/ Leave(p) \/ \E t \in Ids : Vote(p, t)
  \/ Start
  \/ Resolve

(* A round that can start starts, one that everybody voted in is resolved. *)
Fairness == WF_vars(Start) /\ WF_vars(Resolve)

Spec == Init /\ [][Next]_vars /\ Fairness
=============================================================================
