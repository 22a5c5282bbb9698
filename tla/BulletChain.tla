---------------------------- MODULE BulletChain ----------------------------
(***************************************************************************)
(* The bullets of one tank: N copies of bullet.sv, chained by their create *)
(* inputs in vga_text_avl_interface.sv (bullets 1, 2, 3 of tank 2, bullets *)
(* 7, 8, 9 of tank 1).  The first bullet is created by the tank's          *)
(* ShootBullet, bullet k by ShootBullet while bullet k-1 is active and     *)
(* older than Gap frames.  Everything is clocked by the frame (vs), so one *)
(* Frame updates all bullets and the tank from their old values.           *)
(*                                                                         *)
(* The game around it is reduced to what game_end tells the bullets:       *)
(*   "play"    in_game                        game_end = 0                 *)
(*   "settle"  start_game, tank1win, tank2win game_end > 0                 *)
(*   "idle"    title and win screens          game_end = 0                 *)
(* Positions are left out; a hit is a choice of the environment.           *)
(***************************************************************************)
EXTENDS Naturals

CONSTANTS
    N,              \* bullets of a tank (3)
    Life,           \* frames a bullet flies (1000)
    Gap,            \* frames between two bullets (35)
    WireSpan,       \* values of the 10-bit wire bulletTimer<k> (1024)
    PowerUp         \* values a creation_flag may have at power-up

ASSUME ChainAssumption == /\ N \in Nat \ {0}
                          /\ Life \in Nat
                          /\ Gap \in Nat
                          /\ WireSpan \in Nat
                          /\ Life < WireSpan
                          /\ PowerUp \subseteq BOOLEAN

VARIABLES
    phase,
    shoot,          \* ShootBulletP of the tank
    active,         \* is_bullet_active of each bullet
    timer,          \* timer of each bullet
    flag,           \* creation_flag of each bullet
    \* history
    stale,          \* the bullets were cleared after the last live frame
    keyed           \* the shoot key was down since they were last cleared

bullets == <<active, timer, flag>>
hist == <<stale, keyed>>
vars == <<phase, shoot, bullets, hist>>

Chain == 1..N
Phases == {"play", "settle", "idle"}

TypeOK ==
    /\ phase \in Phases
    /\ shoot \in BOOLEAN
    /\ active \in [Chain -> BOOLEAN]
    /\ timer \in [Chain -> 0..Life]
    /\ flag \in [Chain -> BOOLEAN]
    /\ stale \in BOOLEAN
    /\ keyed \in BOOLEAN

\* No reset reaches creation_flag.
Init ==
    /\ phase = "idle"
    /\ shoot = FALSE
    /\ active = [k \in Chain |-> FALSE]
    /\ timer = [k \in Chain |-> 0]
    /\ flag \in [Chain -> PowerUp]
    /\ stale = TRUE
    /\ keyed = FALSE
-----------------------------------------------------------------------------
\* MUTANT: one frame less between two bullets.
create_OneEarly(k) ==
    /\ shoot
    /\ k > 1 => active[k - 1] /\ timer[k - 1] % WireSpan >= Gap

\* The create input of bullet k; the timer reaches it over a narrower wire.
create(k) ==
    /\ shoot
    /\ k > 1 => active[k - 1] /\ timer[k - 1] % WireSpan > Gap

\* MUTANT: the last frame of a bullet still counts.
LiveFrame_OneMore(key) ==
    /\ phase /= "settle"
    /\ shoot' = key
    /\ flag' = [k \in Chain |-> create(k)]
    /\ active' = [k \in Chain |-> IF active[k] THEN timer[k] <= Life ELSE flag[k]]
    /\ timer' = [k \in Chain |->
                    IF ~active[k] THEN timer[k]
                    ELSE IF timer[k] <= Life THEN timer[k] + 1 ELSE 0]
    /\ stale' = FALSE
    /\ keyed' = (keyed \/ key)
    /\ UNCHANGED phase

\* MUTANT: the timer starts over and the bullet flies on.
LiveFrame_Forever(key) ==
    /\ phase /= "settle"
    /\ shoot' = key
    /\ flag' = [k \in Chain |-> create(k)]
    /\ active' = [k \in Chain |-> active[k] \/ flag[k]]
    /\ timer' = [k \in Chain |->
                    IF ~active[k] THEN timer[k]
                    ELSE IF timer[k] < Life THEN timer[k] + 1 ELSE 0]
    /\ stale' = FALSE
    /\ keyed' = (keyed \/ key)
    /\ UNCHANGED phase

\* A frame with game_end = 0.  creation_flag follows create one frame late; an
\* idle bullet is fired by its flag, a flying one ages and goes out at Life.
\* The tank latches whether its shoot key is the one it obeys.
LiveFrame(key) ==
    /\ phase /= "settle"
    /\ shoot' = key
    /\ flag' = [k \in Chain |-> create(k)]
    /\ active' = [k \in Chain |-> IF active[k] THEN timer[k] < Life ELSE flag[k]]
    /\ timer' = [k \in Chain |->
                    IF ~active[k] THEN timer[k]
                    ELSE IF timer[k] < Life THEN timer[k] + 1 ELSE 0]
    /\ stale' = FALSE
    /\ keyed' = (keyed \/ key)
    /\ UNCHANGED phase

\* MUTANT: the tank's trigger is not reset.
Clear_Trigger ==
    /\ active' = [k \in Chain |-> FALSE]
    /\ timer' = [k \in Chain |-> 0]
    /\ stale' = TRUE
    /\ keyed' = FALSE
    /\ UNCHANGED <<shoot, flag>>

\* What Reset and a frame with game_end > 0 do to the tank and its bullets;
\* creation_flag is not among it.
Clear ==
    /\ shoot' = FALSE
    /\ active' = [k \in Chain |-> FALSE]
    /\ timer' = [k \in Chain |-> 0]
    /\ stale' = TRUE
    /\ keyed' = FALSE
    /\ UNCHANGED flag

ClearFrame ==
    /\ phase = "settle"
    /\ Clear
    /\ UNCHANGED phase

\* A tank was hit, or a match was asked for.
Settle ==
    /\ phase \in {"play", "idle"}
    /\ phase' = "settle"
    /\ UNCHANGED <<shoot, bullets, hist>>

\* A round begins, after a frame that cleared the playfield: genMaze took at
\* least one (GameControl).
Begin ==
    /\ phase = "settle"
    /\ stale
    /\ phase' = "play"
    /\ UNCHANGED <<shoot, bullets, hist>>

\* A win screen, which may come before any frame.
ShowScreen ==
    /\ phase = "settle"
    /\ phase' = "idle"
    /\ UNCHANGED <<shoot, bullets, hist>>

Reset ==
    /\ phase' = "idle"
    /\ Clear

Frame == ClearFrame \/ \E key \in BOOLEAN : LiveFrame(key)

Next == Frame \/ Settle \/ Begin \/ ShowScreen \/ Reset

\* The display never stops drawing frames.
Fairness == WF_vars(Frame)

Spec == Init /\ [][Next]_vars
FairSpec == Spec /\ Fairness
-----------------------------------------------------------------------------
(* Properties.                                                             *)

Fired(k) == ~active[k] /\ active'[k]

\* A creation_flag is the echo of a create that was true one frame ago: its
\* predecessor is active and more than Gap + 1 frames old, or went out in that
\* very frame.  Only flags older than the last clearing escape this
\* (bullet.sv:69-76, vga_text_avl_interface.sv:174, 202).
FlagJustified ==
    \A k \in Chain : flag[k] /\ ~stale /\ k > 1 =>
        IF active[k - 1] THEN timer[k - 1] > Gap + 1 ELSE timer[k - 1] = 0

\* Rate of fire: of two neighbours in the air the later one was fired at least
\* Gap + 3 frames after its predecessor.  Equal ages remain possible: flags
\* left from the last round fire together, and so do a bullet and its
\* successor when the shoot key goes down in the frame the first one goes out.
Spacing ==
    \A k \in Chain : k > 1 /\ active[k - 1] /\ active[k]
                           /\ timer[k - 1] > timer[k] =>
        timer[k - 1] >= timer[k] + Gap + 3

\* A round begins with an empty playfield (bullet.sv:54-64).
CleanStart == phase = "play" /\ stale => \A k \in Chain : ~active[k]

\* Flags left from the last round fire in the first frame of a round or never:
\* from the second frame on, a bullet is fired only if the shoot key has been
\* down since the playfield was cleared (bullet.sv:68-79, tank1.sv:62).
NoLateGhost == [][\A k \in Chain : Fired(k) /\ ~stale => keyed]_vars

\* Every bullet goes out, whatever the players do (bullet.sv:143-157).
BulletGoesOut == \A k \in Chain : active[k] ~> ~active[k]

\* The comment "bullet2 from tank 2 active only after bullet1 is active".
ActiveOnlyAfterPredecessor ==
    [][\A k \in Chain : phase = "play" /\ k > 1 /\ Fired(k)
            => active[k - 1]]_vars
=============================================================================
