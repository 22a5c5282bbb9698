-------------------------------- MODULE Duel --------------------------------
(***************************************************************************)
(* The playfield: both tanks and the six bullets, three of each tank,      *)
(* chained by their create inputs, and the two collision detectors, all in *)
(* step with the video frame (vga_text_avl_interface.sv).                  *)
(***************************************************************************)
EXTENDS Ballistics

CONSTANTS
    Spawns,             \* where each tank starts (<<320, 960>>, <<4800, 3520>>)
    Gap,                \* frames between two bullets of a tank (35)
    HitFrames,          \* nobody is hit up to this frame of a round
    Inputs,             \* what keys the tanks may obey together
    PowerUp,            \* what the creation_flags of a tank may be at power-up
    MaxAge,             \* bound: frames of a round
    MaxSpent            \* bound: changes of the keys in a round

VARIABLES
    held,       \* the key each tank obeys
    tanks,      \* as in Motion, for each tank
    triggers,   \* ShootBulletP of each tank
    flags,      \* creation_flag of each of its bullets
    bullets,
    age,        \* frames since tanks and bullets were put back
    \* history
    spent,
    keyed       \* the tank has had its shoot key since then

duelVars == <<open, held, tanks, triggers, flags, bullets, age, spent, keyed>>

Players == {1, 2}
Shots == 1..3

\* The two tanks start in different cells; 6 frames are less than a bullet
\* needs to a wall and back, or to another cell.  A timer fits the wire that
\* hands it to the next bullet.
ASSUME DuelAssumption ==
    /\ Spawns \in [Players -> SpawnPlaces] /\ Spawns[1] /= Spawns[2]
    /\ HitFrames \in 0..6
    /\ Gap \in Nat /\ Life < Wide
    /\ Inputs \subseteq [Players -> Keys]
    /\ PowerUp \subseteq [Shots -> BOOLEAN]
    /\ MaxAge \in Nat /\ MaxSpent \in Nat
-----------------------------------------------------------------------------
PutBack == [p \in Players |-> Spawned(Spawns[p])]
NoBullets == [p \in Players |-> [k \in Shots |-> Idle]]
Nobody == [p \in Players |-> FALSE]

DuelInit ==
    /\ open \in Mazes
    /\ held \in Inputs
    /\ tanks = PutBack /\ triggers = Nobody /\ bullets = NoBullets
    /\ flags \in [Players -> PowerUp]       \* no reset reaches them
    /\ age = 0 /\ spent = 0 /\ keyed = Nobody

\* MUTANT: the first bullet need not be in the air.
create_Unchained(p, k) == triggers[p]

\* The create input of bullet k: the next one waits for the one before it.
create(p, k) ==
    /\ triggers[p]
    /\ k > 1 => bullets[p][k - 1].active /\ bullets[p][k - 1].timer % Wide > Gap

\* A frame with game_end = 0, in which the tanks obey the keys h.
Play(h) ==
    /\ age < MaxAge /\ age' = age + 1
    /\ h = held \/ spent < MaxSpent
    /\ held' = h
    /\ spent' = IF h = held THEN spent ELSE spent + 1
    /\ tanks' = [p \in Players |-> Driven(tanks[p], h[p])]
    /\ triggers' = [p \in Players |-> h[p] = "shoot"]
    /\ flags' = [p \in Players |-> [k \in Shots |-> create(p, k)]]
    /\ bullets' = [p \in Players |-> [k \in Shots |->
                      IF bullets[p][k].active THEN Flown(bullets[p][k])
                      ELSE IF flags[p][k] THEN Born(bullets[p][k], tanks[p])
                      ELSE bullets[p][k]]]
    /\ keyed' = [p \in Players |-> keyed[p] \/ h[p] = "shoot"]
    /\ UNCHANGED open

\* MUTANT: the bullets fly on into the next round.
PutAllBack_FliesOn ==
    /\ open' \in Mazes
    /\ tanks' = PutBack /\ triggers' = Nobody
    /\ age' = 0 /\ spent' = 0 /\ keyed' = Nobody
    /\ UNCHANGED <<held, flags, bullets>>

\* A frame with game_end > 0, or Reset.
PutAllBack ==
    /\ open' \in Mazes
    /\ tanks' = PutBack /\ triggers' = Nobody /\ bullets' = NoBullets
    /\ age' = 0 /\ spent' = 0 /\ keyed' = Nobody
    /\ UNCHANGED <<held, flags>>

DuelNext == PutAllBack \/ \E h \in Inputs : Play(h)
DuelSpec == DuelInit /\ [][DuelNext]_duelVars

\* tank1shot and tank2shot: each tank under any of the six bullets.
Shot(t) == \E p \in Players, k \in Shots : Hit(bullets[p][k], t)
shot == {n \in Players : Shot(tanks[n])}
-----------------------------------------------------------------------------
(* Properties.                                                             *)

DuelTypeOK ==
    /\ open \in Mazes /\ held \in Inputs
    /\ tanks \in [Players -> TankStates] /\ triggers \in [Players -> BOOLEAN]
    /\ flags \in [Players -> [Shots -> BOOLEAN]]
    /\ bullets \in [Players -> [Shots -> BulletStates]]
    /\ age \in 0..MaxAge /\ spent \in 0..MaxSpent
    /\ keyed \in [Players -> BOOLEAN]

\* Each of the three bullets of a tank is born outside of it, the later ones by
\* their places in the chain and by flags of the round before too
\* (bullet.sv:69-108, vga_text_avl_interface.sv:137-320).
MuzzlesClear ==
    \A p \in Players, k \in Shots :
        bullets[p][k].active /\ bullets[p][k].timer = 0 => ~Hit(bullets[p][k], tanks[p])

\* The playfield is the arena of the game: in the first frames of a round no
\* tank is shot, by any bullet of either tank, not even by flags left over from
\* the round before that fire at once (bullet.sv:54-152, TBCollision.sv:12-34,
\* vga_text_avl_interface.sv:137-334).
Ring == INSTANCE Arena WITH HitFrames <- HitFrames + 1, hits <- shot,
            age <- IF age > HitFrames THEN HitFrames + 1 ELSE age
ImplementsArena == Ring!Spec

\* The three bullets of a tank are the chain of BulletChain, whose rules on
\* spacing and leftover flags hold here too; the game around it, which may put
\* everything back at any time, is the one with Reset
\* (vga_text_avl_interface.sv:137-320).
Lit(p) == [k \in Shots |-> bullets[p][k].active]
Timers(p) == [k \in Shots |-> bullets[p][k].timer]
Chain1 == INSTANCE BulletChain WITH
    N <- 3, WireSpan <- Wide, PowerUp <- BOOLEAN, phase <- "idle", stale <- age = 0,
    shoot <- triggers[1], flag <- flags[1], active <- Lit(1), timer <- Timers(1), keyed <- keyed[1]
Chain2 == INSTANCE BulletChain WITH
    N <- 3, WireSpan <- Wide, PowerUp <- BOOLEAN, phase <- "idle", stale <- age = 0,
    shoot <- triggers[2], flag <- flags[2], active <- Lit(2), timer <- Timers(2), keyed <- keyed[2]
ImplementsChain == Chain1!Spec /\ Chain2!Spec
=============================================================================
