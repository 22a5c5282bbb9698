------------------------------- MODULE Arena -------------------------------
(***************************************************************************)
(* What the game relies on between two video frames: in which frames a     *)
(* tank may be hit.  GameControl takes its frames from here; Duel, with    *)
(* its tanks, bullets and walls, is shown to implement this specification. *)
(***************************************************************************)
EXTENDS Naturals

CONSTANT
    HitFrames       \* frames before the first hit of a round

VARIABLES
    hits,           \* tanks n whose tank<n>shot is high
    age             \* frames since tanks and bullets were last put back

vars == <<hits, age>>

Tanks == {1, 2}
Older == IF age < HitFrames THEN age + 1 ELSE HitFrames

Init == hits = {} /\ age = 0

\* Tanks and bullets are put back: a frame with game_end > 0, or Reset.
Clear == hits' = {} /\ age' = 0

\* They move, and any tank may end up under a bullet, or still be there.
Play ==
    /\ age' = Older
    /\ hits' \in IF age' = HitFrames THEN SUBSET Tanks ELSE {{}}

Next == Clear \/ Play
Spec == Init /\ [][Next]_vars
=============================================================================
