------------------------------- MODULE Motion -------------------------------
(***************************************************************************)
(* A tank and its first bullet among the walls: everything steps once per  *)
(* frame, from the old values (tank1.sv, bullet.sv, collisionWall.sv).     *)
(***************************************************************************)
EXTENDS Ballistics

CONSTANTS
    Spawn,              \* where the tank starts (<<320, 960>> or <<4800, 3520>>)
    MaxFrames,          \* bound: frames of a round
    MaxChanges          \* bound: changes of the keys in a round

VARIABLES
    key,        \* the key the tank obeys
    tank,       \* Tank_X_Pos, Tank_Y_Pos, their motions, Angle_new
    shoot,      \* ShootBulletP
    flag,       \* creation_flag
    bullet,     \* is_bullet_active, timer, position and motion
    \* history
    frames, changes,
    rolling,    \* the last step of the tank was on the picture and met no wall
    calm        \* the same of the bullet

vars == <<open, key, tank, shoot, flag, bullet, frames, changes, rolling, calm>>

ASSUME MotionAssumption ==
    Spawn \in SpawnPlaces /\ MaxFrames \in Nat /\ MaxChanges \in Nat
-----------------------------------------------------------------------------
Pixel(o) == <<o.y \div 4, o.x \div 4>>
\* Whether the flags can see an object there: its box is not empty.
OnPicture(o, s) == o.x >= s /\ o.y >= s /\ Pixel(o) \in Screen!Pixels
Free(o) == Pixel(o) \in Screen!Pixels /\ ~Screen!Wall(Pixel(o))
\* The cell of a pixel; everything above the maze is one.
Cell(o) == IF o.y \div 4 < Screen!Top THEN <<0, -1>>
           ELSE <<(o.x \div 4) \div Screen!Pitch, (o.y \div 4 - Screen!Top) \div Screen!Pitch>>

Ends(q) == {<<q[1], q[2]>>, IF q[3] = "E" THEN <<q[1] + 1, q[2]>> ELSE <<q[1], q[2] + 1>>}
Joined(c, d) == c = d \/ \E q \in open : Ends(q) = {c, d}
\* One step leads from c to d: by a passage, or around a corner by two.
Reaches(c, d) ==
    c = d \/ \E e \in (0..mazeWidth - 1) \X (0..mazeHeight - 1) : Joined(c, e) /\ Joined(e, d)

NewRound ==
    /\ open' \in Mazes
    /\ tank' = Spawned(Spawn) /\ shoot' = FALSE /\ bullet' = Idle
    /\ frames' = 0 /\ changes' = 0 /\ rolling' = FALSE /\ calm' = FALSE

Init ==
    /\ open \in Mazes
    /\ key \in Keys
    /\ tank = Spawned(Spawn) /\ shoot = FALSE /\ bullet = Idle
    /\ flag \in BOOLEAN             \* no reset reaches it
    /\ frames = 0 /\ changes = 0 /\ rolling = FALSE /\ calm = FALSE

\* A frame of the game, with game_end = 0.  The tank obeys k, the first of its
\* keys in the order up, down, right, left, shoot that any slot holds.
Frame(k) ==
    /\ frames < MaxFrames /\ frames' = frames + 1
    /\ k = key \/ changes < MaxChanges
    /\ key' = k
    /\ changes' = IF k = key THEN changes ELSE changes + 1
    /\ tank' = Driven(tank, k)
    /\ shoot' = (k = "shoot")
    /\ flag' = shoot
    /\ bullet' = IF bullet.active THEN Flown(bullet)
                 ELSE IF flag THEN Born(bullet, tank) ELSE bullet
    /\ rolling' = (OnPicture(TankAt(tank), tankS) /\ ~AtWall(tank))
    /\ calm' = (bullet.active /\ OnPicture(bullet, bulletS) /\ BulletFlag(bullet) = "none")
    /\ UNCHANGED open

\* Frames with game_end > 0, or Reset: back to the start, while the maze is
\* drawn anew.
Clear == NewRound /\ UNCHANGED <<key, flag>>

Next == Clear \/ \E k \in Keys : Frame(k)
Spec == Init /\ [][Next]_vars
-----------------------------------------------------------------------------
(* Properties.                                                             *)

TypeOK ==
    /\ open \in Mazes /\ key \in Keys
    /\ tank \in TankStates /\ shoot \in BOOLEAN /\ flag \in BOOLEAN
    /\ bullet \in BulletStates
    /\ frames \in 0..MaxFrames /\ changes \in 0..MaxChanges 
    /\ rolling \in BOOLEAN /\ calm \in BOOLEAN

\* A bullet on the picture that no flag turns is in a cell, not in a wall, and
\* its step leads to no other cell but by a passage: no step is longer than a
\* wall is wide, and none begins beyond the reach of the flags (bullet.sv:109-152,
\* collisionWall.sv:151-245).
NoSilentCrossing ==
    [][bullet.active /\ bullet'.active /\ OnPicture(bullet, bulletS) /\ BulletFlag(bullet) = "none" =>
        /\ Free(bullet)
        /\ Free(bullet') => Reaches(Cell(bullet), Cell(bullet'))]_vars

\* The wall at p goes on along the row; or along the column, and there nothing
\* branches off.
RowGoesOn(p) == Screen!Wall(<<p[1], p[2] - 1>>) /\ Screen!Wall(<<p[1], p[2] + 1>>)
ColumnGoesOn(p) == /\ Screen!Wall(<<p[1] - 1, p[2]>>) /\ Screen!Wall(<<p[1] + 1, p[2]>>)
                   /\ ~Screen!Wall(<<p[1], p[2] - 1>>) /\ ~Screen!Wall(<<p[1], p[2] + 1>>)
Straight(S) == (\A p \in S : RowGoesOn(p)) \/ (\A p \in S : ColumnGoesOn(p))
AtStraightWall ==
    /\ BulletFlag(bullet) = WallFlag(bullet, bulletS, [x |-> bullet.mx, y |-> bullet.my])
    /\ Touched(bullet, bulletS) /= {} /\ Straight(Touched(bullet, bulletS))

\* A bullet that flies into the straight part of a wall turns on the right axis
\* and is off that wall with the same step, although the direction decoder
\* lacks a begin and its inputs come crossed (collisionWall.sv:119-145, 181-245,
\* vga_text_avl_interface.sv:160-163).  In corners, and where another wall
\* branches off a column, it may turn on the wrong axis.
StraightBounce ==
    [][bullet.active /\ bullet'.active /\ calm /\ AtStraightWall
        => Touched(bullet', bulletS) \cap Touched(bullet, bulletS) = {}]_vars

\* The borders that a border rule takes an object for.
Borders(o, s) ==
    {f \in {"bottom", "top", "left", "right"} :
        \/ f = "bottom" /\ (o.y + s) % Wide >= BottomAt
        \/ f = "top" /\ o.y - s \in 0..4
        \/ f = "left" /\ o.x - s \in 0..4
        \/ f = "right" /\ (o.x + s) % Wide >= RightAt}

\* What the tank touches now it did not touch one step before.
RunsInto == rolling /\ AtWall(tank)

\* A tank that runs into a wall or a border and is driven on, forwards or
\* backwards, is off everything it has run into with one step back.  ~m + ~m
\* has to lead further back than m led in: if it did not, the tank would be
\* in touch still and the step double with each frame (tank1.sv:65-105).  Two
\* cases are left.  The step back may end at another wall or border; the next
\* step then begins in touch.  And a component of -1, which the angles 11, 23
\* and 34 have backwards and 22 has forwards, gives a step back of 0.
StepsBack ==
    [][RunsInto /\ frames' > frames /\ key' \in {"up", "down"} /\ -1 \notin {tank.mx, tank.my} =>
        /\ Touched(TankAt(tank'), tankS) \cap Touched(TankAt(tank), tankS) = {}
        /\ Borders(TankAt(tank'), tankS) \cap Borders(TankAt(tank), tankS) = {}]_vars
=============================================================================
