----------------------------- MODULE Ballistics -----------------------------
(***************************************************************************)
(* What one video frame does to one tank and to one bullet (tank1.sv,      *)
(* tank2.sv, bullet.sv) and where they bounce (the second half of          *)
(* collisionWall.sv), with the widths and signs of the hardware.  Motion   *)
(* puts one tank and one bullet together, Duel all of them.                *)
(* WallScan shows that the wall pixel a step works with is the last one of *)
(* the picture under the object where it is now, MazeScreen that its       *)
(* direction is read right; so both are taken from the maze here.  The     *)
(* scores above the maze, which are drawn like walls, are left out.        *)
(***************************************************************************)
EXTENDS Integers, Sequences

CONSTANTS
    mazeWidth, mazeHeight, pathWidth, WordBits,     \* of MazeScreen
    Mazes,              \* the passages of each maze to consider
    BottomAt, RightAt,  \* where the border rules begin (475, 633)
    Life                \* frames a bullet flies (1000)

VARIABLE open           \* the passages of this round's maze

Screen == INSTANCE MazeScreen WITH beam <- <<0, 0>>, glyph <- 0, garbage <- 0

\* The picture fits in the 10 bits of a coordinate, and the border rules begin
\* right before its lower and right edge.
ASSUME FieldAssumption ==
    /\ mazeWidth \in 1..12 /\ mazeHeight \in 1..11 /\ pathWidth = 19
    /\ WordBits \in Nat \ {0, 1} /\ Screen!Cols % WordBits = 0
    /\ Mazes \subseteq SUBSET Screen!Passages
    /\ BottomAt = 4 * Screen!Rows - 5 /\ RightAt = 4 * Screen!Cols - 7
    /\ Life \in Nat

\* A tank starts at a place s, in 1/8 pixels: in the middle of a cell of 80
\* pixels.
SpawnPlaces == {s \in (0..640 * mazeWidth) \X (640..640 * (mazeHeight + 1)) :
                    s[1] % 640 = 320 /\ s[2] % 640 = 320}

\* Coordinates have 10 bits on the screen; those of a tank have 3 more, for
\* eighths of a pixel.
Wide == 1024
Fine == 8192

Keys == {"up", "down", "right", "left", "shoot", "none"}
tankS == 10
bulletS == 1
AnglesSin == <<0, 2, 4, 7, 8, 10, 12, 13, 14, 15, 16, 16, 16, 16, 15, 14, 13, 11,
               9, 8, 5, 3, 1, 1, 3, 5, 8, 9, 11, 13, 14, 15, 16, 16, 16, 16, 15,
               14, 13, 12, 10, 8, 7, 4, 2>>
AnglesCos == <<16, 16, 15, 15, 14, 12, 11, 9, 7, 5, 3, 1, 2, 4, 6, 8, 10, 12, 13,
               14, 15, 16, 16, 16, 16, 15, 14, 13, 12, 10, 8, 6, 4, 2, 1, 3, 5, 7,
               9, 11, 12, 14, 15, 15, 16>>

\* Signed value of the low bits of n: span is 2^width.
Signed(n, span) == ((n + span \div 2) % span) - span \div 2

\* The tables hold magnitudes; angleMux gives them the sign of the quadrant.
newCos(a) == IF a \in 12..33 THEN 0 - AnglesCos[a + 1] ELSE AnglesCos[a + 1]
newSin(a) == IF a \in 23..44 THEN 0 - AnglesSin[a + 1] ELSE AnglesSin[a + 1]
-----------------------------------------------------------------------------
(* collisionWall: which of its four flags is up.                           *)

\* The pixels of the bitmap under an object, a box that is empty when a
\* difference falls below zero; and the wall among them that is drawn last.
Under(o, s) ==
    IF o.x < s \/ o.y < s THEN {}
    ELSE (((o.y - s) \div 4)..((o.y + s) \div 4)) \X (((o.x - s) \div 4)..((o.x + s) \div 4))
Touched(o, s) == {p \in Under(o, s) \cap Screen!Pixels : Screen!Wall(p)}

Contact(o, s) ==
    CHOOSE p \in Touched(o, s) : \A q \in Touched(o, s) :
        q[1] < p[1] \/ (q[1] = p[1] /\ q[2] <= p[2])

\* As far as the else without begin leaves them, UpRight and DownRight are
\* never up, DownLeft always is.
UpLeft(m) == m.x < 0 /\ m.y < 0

\* MUTANT: along the column means along the row.
WallFlag_Swapped(o, s, m) ==
    LET p == Contact(o, s)
        alongRow == Screen!Wall(<<p[1], p[2] - 1>>) \/ Screen!Wall(<<p[1], p[2] + 1>>)
    IN  IF Touched(o, s) = {} THEN "none" ELSE IF alongRow THEN "left" ELSE "top"

\* A wall along the row, or through a corner, is above or below; its
\* neighbours reach collisionWall by inputs of other names.
WallFlag(o, s, m) ==
    LET p == Contact(o, s)
        alongRow == Screen!Wall(<<p[1], p[2] - 1>>) \/ Screen!Wall(<<p[1], p[2] + 1>>)
    IN  IF Touched(o, s) = {} THEN "none"
        ELSE IF alongRow THEN IF UpLeft(m) THEN "top" ELSE "bottom"
        ELSE "left"

\* The borders come first.  Sums are taken in 10 bits, differences, which
\* are compared with a wider constant, in 32: below zero is not near zero.
Flag(o, s, m) ==
    IF (o.y + s) % Wide >= BottomAt THEN "bottom"
    ELSE IF o.y - s \in 0..4 THEN "top"
    ELSE IF o.x - s \in 0..4 THEN "left"
    ELSE IF (o.x + s) % Wide >= RightAt THEN "right"
    ELSE WallFlag(o, s, m)
-----------------------------------------------------------------------------
(* The tank.                                                               *)

\* What the rest of the hardware sees of the tank: whole pixels.
TankAt(t) == [x |-> t.x \div 8, y |-> t.y \div 8]
AtWall(t) == Flag(TankAt(t), tankS, [x |-> Signed(t.mx, Wide), y |-> Signed(t.my, Wide)]) /= "none"

Spawned(s) == [x |-> s[1], y |-> s[2], mx |-> 0, my |-> 0, angle |-> 0]

\* MUTANT: ~m alone.
Back_Once(m) == Signed(-1 * m - 1, Fine)

\* ~m + ~m: back by twice the motion, and a bit.
Back(m) == Signed(-2 * m - 2, Fine)

Motion(t, k) ==
    LET cos == newCos(t.angle)
        sin == newSin(t.angle)
    IN  IF k \notin {"up", "down"} THEN <<0, 0>>
        ELSE IF AtWall(t) THEN <<Back(t.mx), Back(t.my)>>
        ELSE IF k = "up" THEN <<cos, 0 - sin>> ELSE <<0 - cos, sin>>

\* MUTANT: the angle wraps a step late.
Turned_Late(t, k) ==
    LET a == t.angle + (IF k = "right" THEN 1 ELSE IF k = "left" THEN -1 ELSE 0)
    IN  IF AtWall(t) THEN t.angle ELSE IF a > 45 THEN 0 ELSE IF a < 0 THEN 44 ELSE a

Turned(t, k) ==
    LET a == t.angle + (IF k = "right" THEN 1 ELSE IF k = "left" THEN -1 ELSE 0)
    IN  IF AtWall(t) THEN t.angle ELSE IF a > 44 THEN 0 ELSE IF a < 0 THEN 44 ELSE a

Driven(t, k) ==
    LET m == Motion(t, k)
    IN  [x |-> (t.x + m[1]) % Fine, y |-> (t.y + m[2]) % Fine,
         mx |-> m[1], my |-> m[2], angle |-> Turned(t, k)]
-----------------------------------------------------------------------------
(* The bullet.                                                             *)

Idle == [active |-> FALSE, timer |-> 0, x |-> 0, y |-> 0, mx |-> 0, my |-> 0]

\* MUTANT: born three steps from the centre of the tank.
Born_Near(b, t) ==
    LET mx == newCos(t.angle) \div 4
        my == 0 - (newSin(t.angle) \div 4)
    IN  [active |-> TRUE, timer |-> b.timer, mx |-> mx, my |-> my,
         x |-> (TankAt(t).x + 3 * mx) % Wide, y |-> (TankAt(t).y + 3 * my) % Wide]

\* MUTANT: twice as fast.
Born_Fast(b, t) ==
    LET mx == newCos(t.angle) \div 2
        my == 0 - (newSin(t.angle) \div 2)
    IN  [active |-> TRUE, timer |-> b.timer, mx |-> mx, my |-> my,
         x |-> (TankAt(t).x + 5 * mx) % Wide, y |-> (TankAt(t).y + 5 * my) % Wide]

\* A quarter of sine and cosine, rounded down, is the step of the bullet; it
\* starts five steps from the centre of the tank.
Born(b, t) ==
    LET mx == newCos(t.angle) \div 4
        my == 0 - (newSin(t.angle) \div 4)
    IN  [active |-> TRUE, timer |-> b.timer, mx |-> mx, my |-> my,
         x |-> (TankAt(t).x + 5 * mx) % Wide, y |-> (TankAt(t).y + 5 * my) % Wide]

BulletFlag(b) == Flag(b, bulletS, [x |-> b.mx, y |-> b.my])

\* A bounce turns the motion and the step uses it at once.
Flown(b) ==
    LET f  == BulletFlag(b)
        mx == IF f \in {"left", "right"} THEN 0 - b.mx ELSE b.mx
        my == IF f \in {"bottom", "top"} THEN 0 - b.my ELSE b.my
    IN  [active |-> b.timer < Life, timer |-> IF b.timer < Life THEN b.timer + 1 ELSE 0,
         x |-> (b.x + mx) % Wide, y |-> (b.y + my) % Wide, mx |-> mx, my |-> my]

\* TBCollision, for one bullet and one tank.
Hit(b, t) ==
    LET p == TankAt(t)
    IN  /\ b.active
        /\ b.x <= (p.x + tankS) % Wide /\ b.x >= (p.x - tankS) % Wide
        /\ b.y <= (p.y + tankS) % Wide /\ b.y >= (p.y - tankS) % Wide
-----------------------------------------------------------------------------
(* Values of the registers.                                                *)

Speeds == -(Fine \div 2)..Fine \div 2 - 1
TankStates == [x : 0..Fine - 1, y : 0..Fine - 1, mx : Speeds, my : Speeds, angle : 0..44]
BulletStates == [active : BOOLEAN, timer : 0..Life, x : 0..Wide - 1, y : 0..Wide - 1,
                 mx : -4..4, my : -4..4]
=============================================================================
