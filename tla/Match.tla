------------------------------- MODULE Match -------------------------------
(***************************************************************************)
(* What the two players are promised: a match is played in rounds, a round *)
(* is won by one tank and gives that tank one point, the first tank with   *)
(* PointsToWin points gets its win screen, and every match starts from     *)
(* 0 : 0.  Nothing here knows of a processor, of registers or of clocks:   *)
(* GameControl is shown to implement this specification.                   *)
(***************************************************************************)
EXTENDS Naturals

CONSTANT
    PointsToWin     \* points that end a match

VARIABLES
    phase,          \* what the screen shows
    points          \* points of each tank in the current match

vars == <<phase, points>>

Tanks == {1, 2}

\* The phase in which the round just won by tank n is being settled, and the
\* win screen of tank n.
Won(n)    == IF n = 1 THEN "tank1win" ELSE "tank2win"
Screen(n) == IF n = 1 THEN "t1w" ELSE "t2w"

NoPoints == [n \in Tanks |-> 0]

Init ==
    /\ phase = "title_state"
    /\ points = NoPoints
-----------------------------------------------------------------------------
\* A player asks for a match.
Start ==
    /\ phase = "title_state"
    /\ phase' = "start_game"
    /\ UNCHANGED points

\* The first round begins, at 0 : 0 whatever the last match left.
FirstRound ==
    /\ phase = "start_game"
    /\ phase' = "in_game"
    /\ points' = NoPoints

\* Tank n wins the round, and the point with it.
WinRound(n) ==
    /\ phase = "in_game"
    /\ phase' = Won(n)
    /\ points' = [points EXCEPT ![n] = @ + 1]

\* The match goes on only while the tank that scored is short of the limit.
NextRound(n) ==
    /\ phase = Won(n)
    /\ points[n] < PointsToWin
    /\ phase' = "in_game"
    /\ UNCHANGED points

\* The win screen appears only at the limit.
WinMatch(n) ==
    /\ phase = Won(n)
    /\ points[n] = PointsToWin
    /\ phase' = Screen(n)
    /\ UNCHANGED points

Leave(n) ==
    /\ phase = Screen(n)
    /\ phase' = "title_state"
    /\ UNCHANGED points

\* The reset button brings the title screen back from anywhere.
PowerOn ==
    /\ phase' = "title_state"
    /\ points' = NoPoints

Next ==
    \/ Start
    \/ FirstRound
    \/ \E n \in Tanks : WinRound(n) \/ NextRound(n) \/ WinMatch(n) \/ Leave(n)
    \/ PowerOn

Spec == Init /\ [][Next]_vars
=============================================================================
