---------------------------- MODULE MotionProofs ----------------------------
(***************************************************************************)
(* Proofs about tanks, bullets and walls, for every maze that fits on the  *)
(* picture, every corner a tank may start in, and rounds of any length.    *)
(* Bounds that are numbers are stated as inequalities: a prover takes an   *)
(* interval between two numerals member by member.                         *)
(***************************************************************************)
EXTENDS Motion, Duel, Contacts, TLAPS
-----------------------------------------------------------------------------
(* Numbers.                                                                *)

\* The widths of the coordinates.
LEMMA Widths ==
    /\ Fine \in Int /\ Fine <= 8192 /\ Fine >= 8192
    /\ Wide \in Int /\ Wide <= 1024 /\ Wide >= 1024
    /\ Fine \div 2 \in Int /\ Fine \div 2 <= 4096 /\ Fine \div 2 >= 4096
BY DEF Fine, Wide

\* The sizes of the picture.
LEMMA Sizes ==
    /\ mazeWidth \in Int /\ 1 <= mazeWidth /\ mazeWidth <= 12
    /\ mazeHeight \in Int /\ 1 <= mazeHeight /\ mazeHeight <= 11
    /\ pathWidth = 19 /\ Screen!Pitch = 20 /\ Screen!Top = 20
    /\ Screen!Rows = 20 + 20 * mazeHeight /\ Screen!Cols = 20 * mazeWidth
    /\ BottomAt = 80 * mazeHeight + 75 /\ RightAt = 80 * mazeWidth - 7
    /\ Life \in Nat /\ MaxFrames \in Nat /\ MaxChanges \in Nat
    /\ MaxAge \in Nat /\ MaxSpent \in Nat
<1>1. pathWidth = 19 /\ Screen!Pitch = 20 /\ Screen!Top = 20
  BY FieldAssumption DEF Screen!Pitch, Screen!Top
<1>2. mazeWidth \in Int /\ 1 <= mazeWidth /\ mazeWidth <= 12
  BY FieldAssumption
<1>3. mazeHeight \in Int /\ 1 <= mazeHeight /\ mazeHeight <= 11
  BY FieldAssumption
<1>4. Screen!Rows = 20 + 20 * mazeHeight /\ Screen!Cols = 20 * mazeWidth
  BY <1>1, <1>2, <1>3 DEF Screen!Rows, Screen!Cols
<1>5. BottomAt = 80 * mazeHeight + 75 /\ RightAt = 80 * mazeWidth - 7
  BY <1>2, <1>3, <1>4, FieldAssumption
<1>6. /\ Life \in Nat /\ MaxFrames \in Nat /\ MaxChanges \in Nat
      /\ MaxAge \in Nat /\ MaxSpent \in Nat
  BY FieldAssumption, MotionAssumption, DuelAssumption
<1> QED
  BY <1>1, <1>2, <1>3, <1>4, <1>5, <1>6

\* What the fields of a tank can be.
LEMMA TankFields ==
    ASSUME NEW t \in TankStates
    PROVE  /\ t.x \in Int /\ 0 <= t.x /\ t.x <= 8191
           /\ t.y \in Int /\ 0 <= t.y /\ t.y <= 8191
           /\ t.mx \in Int /\ -4096 <= t.mx /\ t.mx <= 4095
           /\ t.my \in Int /\ -4096 <= t.my /\ t.my <= 4095
           /\ t.angle \in 0..44
BY Widths DEF TankStates, Speeds

\* What the fields of a bullet can be.
LEMMA BulletFields ==
    ASSUME NEW b \in BulletStates
    PROVE  /\ b.x \in Int /\ 0 <= b.x /\ b.x <= 1023
           /\ b.y \in Int /\ 0 <= b.y /\ b.y <= 1023
           /\ b.mx \in Int /\ -4 <= b.mx /\ b.mx <= 4
           /\ b.my \in Int /\ -4 <= b.my /\ b.my <= 4
           /\ b.active \in BOOLEAN
           /\ b.timer \in Int /\ 0 <= b.timer /\ b.timer <= Life
BY Widths, FieldAssumption DEF BulletStates

\* The tables of sine and cosine.  At each angle one of them is large enough
\* to carry a new bullet out of the tank.
LEMMA Tables ==
    ASSUME NEW a \in 0..44
    PROVE  /\ newCos(a) \in Int /\ -16 <= newCos(a) /\ newCos(a) <= 16
           /\ newSin(a) \in Int /\ -16 <= newSin(a) /\ newSin(a) <= 16
           /\ newCos(a) <= -12 \/ newCos(a) >= 12 \/ newSin(a) <= -12 \/ newSin(a) >= 12
BY Z3 DEF newCos, newSin, AnglesCos, AnglesSin

\* The step back from a wall, and that it is exact while it is small.
LEMMA Backwards ==
    ASSUME NEW m \in Int
    PROVE  /\ Back(m) \in Int /\ -4096 <= Back(m) /\ Back(m) <= 4095
           /\ -16 <= m /\ m <= 16 => Back(m) = -2 * m - 2
<1>1. Back(m) = ((-2 * m - 2 + 4096) % 8192) - 4096
  BY DEF Back, Signed, Fine
<1> QED
  BY <1>1

\* A tank stands, drives along its direction, or steps back from a wall; the
\* motion fits in 13 bits in any case.
LEMMA MotionCases ==
    ASSUME NEW t \in TankStates, NEW k
    PROVE  /\ Motion(t, k)[1] \in Int /\ -4096 <= Motion(t, k)[1] /\ Motion(t, k)[1] <= 4095
           /\ Motion(t, k)[2] \in Int /\ -4096 <= Motion(t, k)[2] /\ Motion(t, k)[2] <= 4095
           /\ \/ Motion(t, k) = <<0, 0>>
              \/ /\ k \in {"up", "down"} /\ ~AtWall(t)
                 /\ \/ Motion(t, k) = <<newCos(t.angle), 0 - newSin(t.angle)>>
                    \/ Motion(t, k) = <<0 - newCos(t.angle), newSin(t.angle)>>
              \/ /\ k \in {"up", "down"} /\ AtWall(t)
                 /\ Motion(t, k) = <<Back(t.mx), Back(t.my)>>
<1>1. /\ newCos(t.angle) \in Int /\ -16 <= newCos(t.angle) /\ newCos(t.angle) <= 16
      /\ newSin(t.angle) \in Int /\ -16 <= newSin(t.angle) /\ newSin(t.angle) <= 16
  BY TankFields, Tables
<1>2. /\ Back(t.mx) \in Int /\ -4096 <= Back(t.mx) /\ Back(t.mx) <= 4095
      /\ Back(t.my) \in Int /\ -4096 <= Back(t.my) /\ Back(t.my) <= 4095
  BY TankFields, Backwards
<1>3. \/ Motion(t, k) = <<0, 0>>
      \/ /\ k \in {"up", "down"} /\ ~AtWall(t)
         /\ \/ Motion(t, k) = <<newCos(t.angle), 0 - newSin(t.angle)>>
            \/ Motion(t, k) = <<0 - newCos(t.angle), newSin(t.angle)>>
      \/ /\ k \in {"up", "down"} /\ AtWall(t)
         /\ Motion(t, k) = <<Back(t.mx), Back(t.my)>>
  BY Zenon DEF Motion
<1> QED
  BY <1>1, <1>2, <1>3

\* A turn.
LEMMA Turns ==
    ASSUME NEW t \in TankStates, NEW k
    PROVE  /\ Turned(t, k) \in 0..44
           /\ k \in {"up", "down"} => Turned(t, k) = t.angle
<1>1. t.angle \in 0..44
  BY TankFields
<1>2. CASE AtWall(t)
  BY <1>1, <1>2, Zenon DEF Turned
<1>3. CASE ~AtWall(t)
  <2>1. CASE k = "right"
    BY <1>1, <1>3, <2>1 DEF Turned
  <2>2. CASE k = "left"
    BY <1>1, <1>3, <2>2 DEF Turned
  <2>3. CASE k \notin {"right", "left"}
    BY <1>1, <1>3, <2>3 DEF Turned
  <2> QED
    BY <2>1, <2>2, <2>3
<1> QED
  BY <1>2, <1>3
-----------------------------------------------------------------------------
(* Types.                                                                  *)

\* Where a driven tank comes to.
LEMMA DrivenType ==
    ASSUME NEW t \in TankStates, NEW k
    PROVE  /\ Driven(t, k) \in TankStates
           /\ Driven(t, k).x = (t.x + Motion(t, k)[1]) % 8192
           /\ Driven(t, k).y = (t.y + Motion(t, k)[2]) % 8192
           /\ Driven(t, k).mx = Motion(t, k)[1]
           /\ Driven(t, k).my = Motion(t, k)[2]
           /\ Driven(t, k).angle = Turned(t, k)
<1>1. PICK mx \in Int, my \in Int :
        /\ mx = Motion(t, k)[1] /\ -4096 <= mx /\ mx <= 4095
        /\ my = Motion(t, k)[2] /\ -4096 <= my /\ my <= 4095
  BY MotionCases
<1>2. PICK x \in Int, y \in Int : x = t.x /\ y = t.y
  BY TankFields
<1>3. PICK px \in Int, py \in Int :
        /\ px = (x + mx) % 8192 /\ 0 <= px /\ px <= 8191
        /\ py = (y + my) % 8192 /\ 0 <= py /\ py <= 8191
  OBVIOUS
<1>4. Driven(t, k) = [x |-> px, y |-> py, mx |-> mx, my |-> my, angle |-> Turned(t, k)]
  BY <1>1, <1>2, <1>3 DEF Driven, Fine
<1>5. Driven(t, k) \in TankStates
  BY <1>1, <1>3, <1>4, Turns, Widths DEF TankStates, Speeds
<1> QED
  BY <1>1, <1>2, <1>3, <1>4, <1>5

\* A new bullet.
LEMMA BornType ==
    ASSUME NEW b \in BulletStates, NEW t \in TankStates
    PROVE  /\ Born(b, t) \in BulletStates
           /\ Born(b, t).active /\ Born(b, t).timer = b.timer
           /\ Born(b, t).mx = newCos(t.angle) \div 4
           /\ Born(b, t).my = 0 - (newSin(t.angle) \div 4)
           /\ Born(b, t).x = (t.x \div 8 + 5 * (newCos(t.angle) \div 4)) % 1024
           /\ Born(b, t).y = (t.y \div 8 + 5 * (0 - (newSin(t.angle) \div 4))) % 1024
<1>1. PICK c \in Int, s \in Int : /\ c = newCos(t.angle) /\ -16 <= c /\ c <= 16
                                  /\ s = newSin(t.angle) /\ -16 <= s /\ s <= 16
  BY TankFields, Tables
<1>2. PICK x \in Int, y \in Int : x = t.x /\ y = t.y
  BY TankFields
<1>3. PICK mx \in Int, my \in Int : /\ mx = c \div 4 /\ -4 <= mx /\ mx <= 4
                                    /\ my = 0 - (s \div 4) /\ -4 <= my /\ my <= 4
  BY <1>1
<1>4. PICK px \in Int, py \in Int :
        /\ px = (x \div 8 + 5 * mx) % 1024 /\ 0 <= px /\ px <= 1023
        /\ py = (y \div 8 + 5 * my) % 1024 /\ 0 <= py /\ py <= 1023
  OBVIOUS
<1>5. Born(b, t) = [active |-> TRUE, timer |-> b.timer, x |-> px, y |-> py, mx |-> mx, my |-> my]
  BY <1>1, <1>2, <1>3, <1>4 DEF Born, TankAt, Wide
<1>6. b.timer \in 0..Life
  BY DEF BulletStates
<1>7. Born(b, t) \in BulletStates
  BY <1>3, <1>4, <1>5, <1>6, Widths DEF BulletStates
<1>8. /\ Born(b, t).active /\ Born(b, t).timer = b.timer
      /\ Born(b, t).mx = mx /\ Born(b, t).my = my /\ Born(b, t).x = px /\ Born(b, t).y = py
  BY <1>5
<1> QED
  BY <1>1, <1>2, <1>3, <1>4, <1>7, <1>8

\* A bullet that flies.
LEMMA FlownType ==
    ASSUME NEW b \in BulletStates
    PROVE  /\ Flown(b) \in BulletStates
           /\ Flown(b).x = (b.x + Flown(b).mx) % 1024
           /\ Flown(b).y = (b.y + Flown(b).my) % 1024
           /\ Flown(b).active => Flown(b).timer = b.timer + 1
           /\ ~Flown(b).active => Flown(b).timer = 0
           /\ Flown(b).mx = IF BulletFlag(b) \in {"left", "right"} THEN 0 - b.mx ELSE b.mx
           /\ Flown(b).my = IF BulletFlag(b) \in {"bottom", "top"} THEN 0 - b.my ELSE b.my
<1> DEFINE turnX == BulletFlag(b) \in {"left", "right"}
           turnY == BulletFlag(b) \in {"bottom", "top"}
<1>1. PICK mx \in Int, my \in Int :
        /\ mx = (IF turnX THEN 0 - b.mx ELSE b.mx) /\ -4 <= mx /\ mx <= 4
        /\ my = (IF turnY THEN 0 - b.my ELSE b.my) /\ -4 <= my /\ my <= 4
  BY BulletFields
<1>2. PICK x \in Int, y \in Int : x = b.x /\ y = b.y
  BY BulletFields
<1>3. PICK n \in 0..Life : /\ b.timer < Life => n = b.timer + 1
                           /\ ~(b.timer < Life) => n = 0
  BY BulletFields, Sizes
<1> DEFINE a == b.timer < Life
<1>4. a \in BOOLEAN
  OBVIOUS
<1> HIDE DEF a
<1>5. PICK px \in Int, py \in Int :
        /\ px = (x + mx) % 1024 /\ 0 <= px /\ px <= 1023
        /\ py = (y + my) % 1024 /\ 0 <= py /\ py <= 1023
  OBVIOUS
<1>6. Flown(b) = [active |-> a, timer |-> n, x |-> px, y |-> py, mx |-> mx, my |-> my]
  BY <1>1, <1>2, <1>3, <1>5 DEF Flown, Wide, a
<1>7. Flown(b) \in BulletStates
  BY <1>1, <1>4, <1>5, <1>6, Widths DEF BulletStates
<1>8. /\ Flown(b).mx = mx /\ Flown(b).my = my /\ Flown(b).active = a /\ Flown(b).timer = n
      /\ Flown(b).x = px /\ Flown(b).y = py
  BY <1>6
<1>9. /\ Flown(b).active => Flown(b).timer = b.timer + 1
      /\ ~Flown(b).active => Flown(b).timer = 0
  BY <1>3, <1>8, Zenon DEF a
<1> QED
  BY <1>1, <1>2, <1>5, <1>7, <1>8, <1>9

\* Where a tank may start, in pixels: in the middle of a cell.
LEMMA SpawnSpot ==
    ASSUME NEW s \in SpawnPlaces
    PROVE  \E k, l \in Int : /\ 0 <= k /\ k < mazeWidth /\ 1 <= l /\ l <= mazeHeight
                             /\ s[1] = 8 * (80 * k + 40) /\ s[2] = 8 * (80 * l + 40)
<1>1. PICK x \in Int, y \in Int : /\ x = s[1] /\ 0 <= x /\ x <= 640 * mazeWidth
                                  /\ y = s[2] /\ 640 <= y /\ y <= 640 * (mazeHeight + 1)
                                  /\ x % 640 = 320 /\ y % 640 = 320
  BY Sizes DEF SpawnPlaces
<1>2. PICK k \in Int, l \in Int : k = x \div 640 /\ l = y \div 640
  OBVIOUS
<1>3. x = 640 * k + 320 /\ y = 640 * l + 320
  BY <1>1, <1>2
<1>4. 0 <= k /\ k < mazeWidth /\ 1 <= l /\ l <= mazeHeight
  BY <1>1, <1>3, Sizes
<1> QED
  BY <1>1, <1>3, <1>4

\* Tank and bullet at the start of a round.
LEMMA SpawnedType ==
    /\ \A s \in SpawnPlaces : Spawned(s) \in TankStates
    /\ Idle \in BulletStates
<1>1. ASSUME NEW s \in SpawnPlaces
      PROVE  Spawned(s) \in TankStates
  <2>1. PICK x \in Int, y \in Int : /\ x = s[1] /\ 0 <= x /\ x <= 8191
                                    /\ y = s[2] /\ 0 <= y /\ y <= 8191
    BY SpawnSpot, Sizes
  <2> QED
    BY <2>1, Widths DEF Spawned, TankStates, Speeds
<1>2. Idle \in BulletStates
  BY Sizes, Widths DEF Idle, BulletStates
<1> QED
  BY <1>1, <1>2

\* Tank and bullet hold what their registers can hold, and nothing leaves the
\* bounds of the round (tank1.sv:18-130, bullet.sv:65-152).
THEOREM TypeCorrect == Spec => []TypeOK
<1>1. Init => TypeOK
  <2> SUFFICES ASSUME Init
               PROVE  TypeOK
    OBVIOUS
  <2>1. tank \in TankStates /\ bullet \in BulletStates
    BY SpawnedType, MotionAssumption DEF Init
  <2>2. frames \in 0..MaxFrames /\ changes \in 0..MaxChanges
    BY Sizes DEF Init
  <2>3. open \in Mazes /\ key \in Keys
    BY DEF Init
  <2>4. shoot \in BOOLEAN /\ flag \in BOOLEAN /\ calm \in BOOLEAN /\ rolling \in BOOLEAN
    BY Zenon DEF Init
  <2> QED
    BY <2>1, <2>2, <2>3, <2>4 DEF TypeOK
<1>2. TypeOK /\ [Next]_vars => TypeOK'
  <2> SUFFICES ASSUME TypeOK, [Next]_vars
               PROVE  TypeOK'
    OBVIOUS
  <2>1. CASE Clear
    <3>1. tank' \in TankStates /\ bullet' \in BulletStates
      BY <2>1, SpawnedType, MotionAssumption DEF Clear, NewRound
    <3>2. frames' \in 0..MaxFrames /\ changes' \in 0..MaxChanges
      BY <2>1, Sizes DEF Clear, NewRound
    <3>3. open' \in Mazes /\ key' \in Keys
      BY <2>1 DEF Clear, NewRound, TypeOK
    <3>4. shoot' \in BOOLEAN /\ flag' \in BOOLEAN /\ calm' \in BOOLEAN /\ rolling' \in BOOLEAN
      BY <2>1, Zenon DEF Clear, NewRound, TypeOK
    <3> QED
      BY <3>1, <3>2, <3>3, <3>4 DEF TypeOK
  <2>2. ASSUME NEW k \in Keys, Frame(k)
        PROVE  TypeOK'
    <3>1. tank \in TankStates /\ bullet \in BulletStates
      BY DEF TypeOK
    <3>2. tank' \in TankStates
      BY <2>2, <3>1, DrivenType DEF Frame
    <3>3. bullet' \in BulletStates
      BY <2>2, <3>1, FlownType, BornType DEF Frame
    <3>4. frames' \in 0..MaxFrames /\ changes' \in 0..MaxChanges
      BY <2>2, MotionAssumption DEF Frame, TypeOK
    <3>5. open' \in Mazes /\ key' \in Keys /\ shoot' \in BOOLEAN /\ flag' \in BOOLEAN
      BY <2>2 DEF Frame, TypeOK
    <3>6. calm' \in BOOLEAN /\ rolling' \in BOOLEAN
      BY <2>2, Zenon DEF Frame
    <3> QED
      BY <3>2, <3>3, <3>4, <3>5, <3>6 DEF TypeOK
  <2>3. CASE UNCHANGED vars
    BY <2>3 DEF vars, TypeOK
  <2> QED
    BY <2>1, <2>2, <2>3 DEF Next
<1> QED
  BY <1>1, <1>2, PTL DEF Spec
-----------------------------------------------------------------------------
(* A new bullet and its own tank.                                          *)

\* Two things that are 11 to 25 pixels apart on an axis, counted around the
\* edge, do not overlap in TBCollision.
LEMMA Apart ==
    ASSUME NEW t \in Int, 0 <= t, t <= 1023, NEW e \in Int,
           \/ 11 <= e /\ e <= 25
           \/ -25 <= e /\ e <= -11
    PROVE  ~ /\ (t + e) % 1024 <= (t + 10) % 1024
             /\ (t + e) % 1024 >= (t - 10) % 1024
<1>1. CASE t < 10
  BY <1>1
<1>2. CASE t > 1013
  BY <1>2
<1>3. CASE 10 <= t /\ t <= 1013
  BY <1>3
<1> QED
  BY <1>1, <1>2, <1>3

\* How far a tank moves while its bullet is born, in eighths of a pixel.
Shift(m, c) == \/ m = 0 \/ m = c \/ m = 0 - c \/ m = -2 \/ m = 2
               \/ m = -2 * c - 2 \/ m = 2 * c - 2

\* How far from the tank a bullet starts, for a direction of c parts of 16.
Muzzle(d, c) == \/ 12 <= c /\ c <= 15 /\ 15 <= d /\ d <= 20
                \/ c = 16 /\ d = 20
                \/ -15 <= c /\ c <= -12 /\ -20 <= d /\ d <= -15
                \/ c = -16 /\ d = -20

\* A tank moves by m to t, and a bullet is born at b.
Fired(x, m, d, t, b) == /\ t = ((x + m) % 8192) \div 8
                       /\ b = (x \div 8 + d) % 1024

Overlap(b, t) == b <= (t + 10) % 1024 /\ b >= (t - 10) % 1024

\* Five steps of at least 3 pixels lead out of the tank along an axis on which
\* its direction c has at least 12 of 16 parts, even if the tank just moves so.
LEMMA MuzzleFar ==
    ASSUME NEW x \in Int, 0 <= x, x <= 8191, NEW m \in Int, NEW c \in Int, NEW d \in Int,
           NEW t \in Int, NEW b \in Int, Shift(m, c), Muzzle(d, c), Fired(x, m, d, t, b)
    PROVE  ~Overlap(b, t)
<1> DEFINE e == d - ((x + m) \div 8 - x \div 8)
<1>1. t \in Int /\ 0 <= t /\ t <= 1023 /\ e \in Int
  BY DEF Fired
<1>2. (11 <= e /\ e <= 25) \/ (-25 <= e /\ e <= -11)
  <2>1. m \in Int /\ -34 <= m /\ m <= 30
    BY DEF Shift, Muzzle
  <2>2. /\ m <= 7 => (x + m) \div 8 - x \div 8 <= 1
        /\ m <= 23 => (x + m) \div 8 - x \div 8 <= 3
        /\ m <= 32 => (x + m) \div 8 - x \div 8 <= 4
        /\ m >= -7 => (x + m) \div 8 - x \div 8 >= -1
        /\ m >= -16 => (x + m) \div 8 - x \div 8 >= -2
        /\ m >= -32 => (x + m) \div 8 - x \div 8 >= -4
        /\ m >= -40 => (x + m) \div 8 - x \div 8 >= -5
    BY <2>1
  <2> QED
    BY <2>1, <2>2 DEF Shift, Muzzle
<1>3. b = (t + e) % 1024
  BY DEF Fired
<1> HIDE DEF e
<1> QED
  BY <1>1, <1>2, <1>3, Apart DEF Overlap

\* How a tank moves a frame after it stood, as when its shoot key was obeyed.
Aimed(t) == \/ t.mx = 0 /\ t.my = 0
            \/ t.mx = -2 /\ t.my = -2
            \/ t.mx = newCos(t.angle) /\ t.my = 0 - newSin(t.angle)
            \/ t.mx = 0 - newCos(t.angle) /\ t.my = newSin(t.angle)

LEMMA AimedNext ==
    ASSUME NEW t \in TankStates, t.mx = 0, t.my = 0, NEW k
    PROVE  Aimed(Driven(t, k))
<1>1. Back(0) = -2
  BY Backwards
<1> QED
  BY <1>1, DrivenType, MotionCases, Turns DEF Aimed

\* A tank that obeys its shoot key stands.
LEMMA Stands ==
    ASSUME NEW t \in TankStates
    PROVE  Driven(t, "shoot").mx = 0 /\ Driven(t, "shoot").my = 0
BY DrivenType, MotionCases

\* The motions of a tank whose bullet is born.
LEMMA MuzzleShift ==
    ASSUME NEW t \in TankStates, Aimed(t), NEW k
    PROVE  /\ Shift(Motion(t, k)[1], newCos(t.angle))
           /\ Shift(Motion(t, k)[2], 0 - newSin(t.angle))
<1>2. PICK c \in Int, s \in Int : /\ c = newCos(t.angle) /\ -16 <= c /\ c <= 16
                                  /\ s = newSin(t.angle) /\ -16 <= s /\ s <= 16
  BY TankFields, Tables
<1>3. PICK mx \in Int, my \in Int : mx = t.mx /\ my = t.my
  BY TankFields
<1>4. \/ mx = 0 /\ my = 0
      \/ mx = -2 /\ my = -2
      \/ mx = c /\ my = 0 - s
      \/ mx = 0 - c /\ my = s
  BY <1>2, <1>3 DEF Aimed
<1>5. /\ Back(mx) = -2 * mx - 2 /\ Back(my) = -2 * my - 2
  BY <1>2, <1>4, Backwards
<1>6. PICK m \in Int, n \in Int : m = Motion(t, k)[1] /\ n = Motion(t, k)[2]
  BY MotionCases
<1>7. \/ m = 0 /\ n = 0
      \/ m = c /\ n = 0 - s
      \/ m = 0 - c /\ n = s
      \/ m = Back(mx) /\ n = Back(my)
  BY <1>2, <1>3, <1>6, MotionCases
<1>8. Shift(m, c) /\ Shift(n, 0 - s)
  BY <1>2, <1>4, <1>5, <1>7 DEF Shift
<1> QED
  BY <1>2, <1>6, <1>8

\* A bullet that is born does not hit its tank.
LEMMA BornClear ==
    ASSUME NEW t \in TankStates, Aimed(t), NEW old \in BulletStates, NEW k
    PROVE  ~Hit(Born(old, t), Driven(t, k))
<1>1. PICK u, b : u = Driven(t, k) /\ b = Born(old, t)
  OBVIOUS
<1>2. PICK c \in Int, s \in Int :
        /\ c = newCos(t.angle) /\ -16 <= c /\ c <= 16
        /\ s = newSin(t.angle) /\ -16 <= s /\ s <= 16
        /\ c <= -12 \/ c >= 12 \/ s <= -12 \/ s >= 12
  BY TankFields, Tables
<1>3. PICK m \in Int, n \in Int : /\ m = Motion(t, k)[1] /\ n = Motion(t, k)[2]
                                  /\ Shift(m, c) /\ Shift(n, 0 - s)
  BY <1>2, MotionCases, MuzzleShift
<1>4. PICK x \in Int, y \in Int : /\ x = t.x /\ 0 <= x /\ x <= 8191
                                  /\ y = t.y /\ 0 <= y /\ y <= 8191
  BY TankFields
<1>5. PICK tx \in Int, ty \in Int : /\ tx = ((x + m) % 8192) \div 8 /\ tx = TankAt(u).x
                                    /\ ty = ((y + n) % 8192) \div 8 /\ ty = TankAt(u).y
  BY <1>1, <1>3, <1>4, DrivenType DEF TankAt
<1>6. PICK bx \in Int, by \in Int : /\ bx = (x \div 8 + 5 * (c \div 4)) % 1024
                                    /\ by = (y \div 8 + 5 * (0 - (s \div 4))) % 1024
                                    /\ bx = b.x /\ by = b.y
  BY <1>1, <1>2, <1>4, BornType
<1>7. CASE c <= -12 \/ c >= 12
  <2>1. PICK d \in Int : d = 5 * (c \div 4) /\ Muzzle(d, c)
    BY <1>2, <1>7 DEF Muzzle
  <2>2. Fired(x, m, d, tx, bx)
    BY <1>5, <1>6, <2>1 DEF Fired
  <2>3. ~Overlap(bx, tx)
    BY <1>3, <1>4, <2>1, <2>2, MuzzleFar
  <2> QED
    BY <1>1, <1>5, <1>6, <2>3 DEF Hit, Overlap, tankS, Wide
<1>8. CASE s <= -12 \/ s >= 12
  <2>1. PICK d \in Int, c2 \in Int : d = 5 * (0 - (s \div 4)) /\ c2 = 0 - s /\ Muzzle(d, c2)
    BY <1>2, <1>8 DEF Muzzle
  <2>2. Fired(y, n, d, ty, by) /\ Shift(n, c2)
    BY <1>3, <1>5, <1>6, <2>1 DEF Fired
  <2>3. ~Overlap(by, ty)
    BY <1>4, <2>1, <2>2, MuzzleFar
  <2> QED
    BY <1>1, <1>5, <1>6, <2>3 DEF Hit, Overlap, tankS, Wide
<1> QED
  BY <1>2, <1>7, <1>8

\* A flying bullet is not new.
LEMMA FlownLater ==
    ASSUME NEW b \in BulletStates, Flown(b).active
    PROVE  Flown(b).timer /= 0
BY FlownType, BulletFields

-----------------------------------------------------------------------------
(* Walls and cells.                                                        *)

\* The pixel <<v, u>> of cell <<i, j>> of the maze; those with 19 are walls,
\* with gaps where there is a passage.
At(i, j, u, v) == <<20 + 20 * j + v, 20 * i + u>>
Offset(n) == n \in Int /\ 0 <= n /\ n <= 19
Solid(i, j, u, v) == /\ u = 19 \/ v = 19
                     /\ u = 19 /\ v /= 19 => <<i, j, "E">> \notin open
                     /\ v = 19 /\ u /= 19 => <<i, j, "S">> \notin open

\* Wall, by cell and pixel of the cell.
LEMMA WallInMaze ==
    ASSUME NEW i \in Int, NEW j \in Int, 0 <= j, NEW u, NEW v, Offset(u), Offset(v)
    PROVE  Screen!Wall(At(i, j, u, v)) <=> Solid(i, j, u, v)
<1>1. u \in Int /\ 0 <= u /\ u <= 19 /\ v \in Int /\ 0 <= v /\ v <= 19
  BY DEF Offset
<1>2. /\ (20 * i + u) \div 20 = i /\ (20 * i + u) % 20 = u
      /\ (20 * j + v) \div 20 = j /\ (20 * j + v) % 20 = v
      /\ (20 + 20 * j + v) - 20 = 20 * j + v /\ 20 * j + v >= 0
  BY <1>1
<1>3. /\ At(i, j, u, v)[1] - 20 = 20 * j + v
      /\ At(i, j, u, v)[2] = 20 * i + u
  BY <1>1 DEF At
<1> HIDE DEF At
<1> QED
  BY <1>1, <1>2, <1>3, Sizes DEF Screen!Wall, Solid

\* The upper wall, and that nothing is above it.
LEMMA WallAbove ==
    ASSUME NEW r \in Int, r < 20, NEW c \in Int
    PROVE  Screen!Wall(<<r, c>>) <=> r = 19
BY Sizes DEF Screen!Wall

\* Where an object is in the maze: which cell, and which pixel of it.
LEMMA CellOf ==
    ASSUME NEW o, o.x \in Int, 0 <= o.x, o.y \in Int, 80 <= o.y
    PROVE  \E i, j, u, v \in Int :
              /\ Offset(u) /\ Offset(v) /\ 0 <= i /\ 0 <= j
              /\ o.x \div 4 = 20 * i + u /\ o.y \div 4 = 20 + 20 * j + v
              /\ Pixel(o) = At(i, j, u, v) /\ Cell(o) = <<i, j>>
<1>1. PICK c \in Int, r \in Int : c = o.x \div 4 /\ 0 <= c /\ r = o.y \div 4 /\ 20 <= r
  OBVIOUS
<1>2. PICK i \in Int, j \in Int, u \in Int, v \in Int :
        /\ i = c \div 20 /\ u = c % 20 /\ j = (r - 20) \div 20 /\ v = (r - 20) % 20
        /\ c = 20 * i + u /\ r = 20 + 20 * j + v
        /\ 0 <= i /\ 0 <= j /\ 0 <= u /\ u <= 19 /\ 0 <= v /\ v <= 19
  <2>1. /\ c = 20 * (c \div 20) + (c % 20) /\ 0 <= c \div 20
        /\ 0 <= c % 20 /\ c % 20 <= 19
    BY <1>1
  <2>2. /\ r = 20 + 20 * ((r - 20) \div 20) + ((r - 20) % 20) /\ 0 <= (r - 20) \div 20
        /\ 0 <= (r - 20) % 20 /\ (r - 20) % 20 <= 19
    BY <1>1
  <2> QED
    BY <1>1, <2>1, <2>2
<1>3. Pixel(o) = At(i, j, u, v)
  BY <1>1, <1>2 DEF Pixel, At
<1>4. Cell(o) = <<i, j>>
  BY <1>1, <1>2, Sizes DEF Cell
<1> QED
  BY <1>1, <1>2, <1>3, <1>4 DEF Offset

\* A passage joins its two cells.
LEMMA Passage ==
    ASSUME NEW i \in Int, NEW j \in Int
    PROVE  /\ <<i, j, "E">> \in open =>
                Joined(<<i, j>>, <<i + 1, j>>) /\ Joined(<<i + 1, j>>, <<i, j>>)
           /\ <<i, j, "S">> \in open =>
                Joined(<<i, j>>, <<i, j + 1>>) /\ Joined(<<i, j + 1>>, <<i, j>>)
<1>1. /\ Ends(<<i, j, "E">>) = {<<i, j>>, <<i + 1, j>>}
      /\ Ends(<<i, j, "S">>) = {<<i, j>>, <<i, j + 1>>}
  BY DEF Ends
<1>2. \A c, d : {c, d} = {d, c}
  OBVIOUS
<1> QED
  BY <1>1, <1>2, Zenon DEF Joined

\* A step of at most one pixel of the bitmap between two that are no wall leads
\* to the same cell, through a gap to the next, or around the end of a wall.
LEMMA StepReaches ==
    ASSUME NEW i \in Int, NEW j \in Int, NEW u \in Int, NEW v \in Int,
           NEW i2 \in Int, NEW j2 \in Int, NEW u2 \in Int, NEW v2 \in Int,
           Offset(u), Offset(v), Offset(u2), Offset(v2),
           0 <= i, i < mazeWidth, 0 <= j, j < mazeHeight,
           0 <= i2, i2 < mazeWidth, 0 <= j2, j2 < mazeHeight,
           (20 * i2 + u2) - (20 * i + u) <= 1, (20 * i + u) - (20 * i2 + u2) <= 1,
           (20 * j2 + v2) - (20 * j + v) <= 1, (20 * j + v) - (20 * j2 + v2) <= 1,
           ~Solid(i, j, u, v), ~Solid(i2, j2, u2, v2)
    PROVE  Reaches(<<i, j>>, <<i2, j2>>)
<1>0. /\ mazeWidth \in Int /\ mazeHeight \in Int
      /\ 0 <= u /\ u <= 19 /\ 0 <= v /\ v <= 19 /\ 0 <= u2 /\ u2 <= 19 /\ 0 <= v2 /\ v2 <= 19
  BY Sizes DEF Offset
<1>1. /\ \/ i2 = i
         \/ i2 = i + 1 /\ u = 19 /\ u2 = 0
         \/ i = i2 + 1 /\ u2 = 19 /\ u = 0
      /\ \/ j2 = j
         \/ j2 = j + 1 /\ v = 19 /\ v2 = 0
         \/ j = j2 + 1 /\ v2 = 19 /\ v = 0
  BY <1>0
<1>2. /\ u = 19 => v /= 19 /\ <<i, j, "E">> \in open
      /\ v = 19 => u /= 19 /\ <<i, j, "S">> \in open
      /\ u2 = 19 => v2 /= 19 /\ <<i2, j2, "E">> \in open
      /\ v2 = 19 => u2 /= 19 /\ <<i2, j2, "S">> \in open
  BY DEF Solid
<1>3. \A e : Joined(e, e)
  BY DEF Joined
<1>4. \A a, b \in Int : 0 <= a /\ a < mazeWidth /\ 0 <= b /\ b < mazeHeight =>
        <<a, b>> \in (0..mazeWidth - 1) \X (0..mazeHeight - 1)
  BY <1>0
<1>5. ASSUME NEW a \in Int, NEW b \in Int, 0 <= a, a < mazeWidth, 0 <= b, b < mazeHeight,
             Joined(<<i, j>>, <<a, b>>), Joined(<<a, b>>, <<i2, j2>>)
      PROVE  Reaches(<<i, j>>, <<i2, j2>>)
  BY <1>4, <1>5 DEF Reaches
<1>6. CASE j2 = j
  <2>1. Joined(<<i, j>>, <<i2, j2>>)
    BY <1>1, <1>2, <1>3, <1>6, Passage
  <2> QED
    BY <1>3, <1>5, <2>1
<1>7. CASE i2 = i
  <2>1. Joined(<<i, j>>, <<i2, j2>>)
    BY <1>1, <1>2, <1>3, <1>7, Passage
  <2> QED
    BY <1>3, <1>5, <2>1
<1>8. CASE i2 = i + 1 /\ u = 19 /\ j2 = j + 1 /\ v = 19
  BY <1>2, <1>8
<1>9. CASE i2 = i + 1 /\ u = 19 /\ j = j2 + 1 /\ v2 = 19
  <2>1. <<i, j, "E">> \in open /\ <<i + 1, j2, "S">> \in open
    BY <1>2, <1>9
  <2>2. i2 \in Int /\ i2 = i + 1 /\ j = j2 + 1
    BY <1>9
  <2>3. Joined(<<i, j>>, <<i2, j>>) /\ Joined(<<i2, j>>, <<i2, j2>>)
    BY <2>1, <2>2, Passage
  <2> QED
    BY <1>5, <2>3
<1>10. CASE i = i2 + 1 /\ u2 = 19 /\ j2 = j + 1 /\ v = 19
  <2>1. <<i2, j2, "E">> \in open /\ <<i2 + 1, j, "S">> \in open
    BY <1>2, <1>10
  <2>2. i = i2 + 1 /\ j2 = j + 1
    BY <1>10
  <2>3. Joined(<<i, j>>, <<i, j2>>) /\ Joined(<<i, j2>>, <<i2, j2>>)
    BY <2>1, <2>2, Passage
  <2> QED
    BY <1>5, <2>3
<1>11. CASE i = i2 + 1 /\ u2 = 19 /\ j = j2 + 1 /\ v2 = 19
  BY <1>2, <1>11
<1> QED
  BY <1>1, <1>6, <1>7, <1>8, <1>9, <1>10, <1>11

\* The pixels of the picture.
LEMMA InPicture ==
    ASSUME NEW r \in Int, NEW c \in Int
    PROVE  <<r, c>> \in Screen!Pixels <=>
              0 <= r /\ r < 20 + 20 * mazeHeight /\ 0 <= c /\ c < 20 * mazeWidth
BY Sizes DEF Screen!Pixels

\* A bullet on the picture that no flag turns is away from the edges, and no
\* wall pixel is under it.
LEMMA NoFlag ==
    ASSUME NEW b \in BulletStates, OnPicture(b, bulletS), BulletFlag(b) = "none"
    PROVE  /\ 6 <= b.x /\ b.x <= 80 * mazeWidth - 9
           /\ 6 <= b.y /\ b.y <= 80 * mazeHeight + 73
           /\ Touched(b, bulletS) = {}
           /\ Free(b)
<1>1. PICK x \in Int, y \in Int : /\ x = b.x /\ 0 <= x /\ x <= 1023
                                  /\ y = b.y /\ 0 <= y /\ y <= 1023
  BY BulletFields
<1>2. PICK r \in Int, c \in Int : r = y \div 4 /\ c = x \div 4
  OBVIOUS
<1>3. Pixel(b) = <<r, c>> /\ Pixel(b) \in Screen!Pixels /\ 1 <= x /\ 1 <= y
  BY <1>1, <1>2 DEF OnPicture, Pixel, bulletS
<1>4. x <= 80 * mazeWidth - 1 /\ y <= 80 * mazeHeight + 79
  BY <1>2, <1>3, InPicture, Sizes
<1>5. /\ ~((y + 1) % 1024 >= BottomAt)
      /\ ~(y - 1 \in 0..4)
      /\ ~(x - 1 \in 0..4)
      /\ ~((x + 1) % 1024 >= RightAt)
      /\ WallFlag(b, 1, [x |-> b.mx, y |-> b.my]) = "none"
  BY <1>1 DEF BulletFlag, Flag, bulletS, Wide
<1>6. /\ 6 <= x /\ x <= 80 * mazeWidth - 9
      /\ 6 <= y /\ y <= 80 * mazeHeight + 73
  BY <1>3, <1>4, <1>5, Sizes
<1>7. Touched(b, bulletS) = {}
  BY <1>5 DEF WallFlag, bulletS
<1>8. Pixel(b) \in Under(b, bulletS)
  BY <1>1, <1>2, <1>3 DEF Under, bulletS
<1>9. ~Screen!Wall(Pixel(b))
  BY <1>3, <1>7, <1>8, Zenon DEF Touched
<1> QED
  BY <1>1, <1>3, <1>6, <1>7, <1>9 DEF Free

\* A bullet that no flag turns moves by at most 4 pixels on each axis and is
\* still on the picture.
LEMMA FreeStep ==
    ASSUME NEW b \in BulletStates, OnPicture(b, bulletS), BulletFlag(b) = "none"
    PROVE  /\ Flown(b).x = b.x + b.mx /\ Flown(b).y = b.y + b.my
           /\ Flown(b).mx = b.mx /\ Flown(b).my = b.my
<1>1. PICK x \in Int, y \in Int, mx \in Int, my \in Int :
        /\ x = b.x /\ y = b.y /\ mx = b.mx /\ my = b.my
        /\ -4 <= mx /\ mx <= 4 /\ -4 <= my /\ my <= 4
        /\ 6 <= x /\ x <= 80 * mazeWidth - 9
        /\ 6 <= y /\ y <= 80 * mazeHeight + 73
  BY BulletFields, NoFlag
<1>2. (x + mx) % 1024 = x + mx /\ (y + my) % 1024 = y + my
  BY <1>1, Sizes
<1>3. Flown(b).mx = mx /\ Flown(b).my = my
  BY <1>1, FlownType
<1>4. Flown(b).x = (x + mx) % 1024 /\ Flown(b).y = (y + my) % 1024
  BY <1>1, <1>3, FlownType
<1> QED
  BY <1>1, <1>2, <1>3, <1>4

\* Such a step leads to a cell that the passages reach.
LEMMA Crossing ==
    ASSUME NEW b \in BulletStates, OnPicture(b, bulletS), BulletFlag(b) = "none", Free(Flown(b))
    PROVE  Reaches(Cell(b), Cell(Flown(b)))
<1> DEFINE o == Flown(b)
<1>1. PICK x \in Int, y \in Int, mx \in Int, my \in Int :
        /\ x = b.x /\ y = b.y /\ mx = b.mx /\ my = b.my
        /\ -4 <= mx /\ mx <= 4 /\ -4 <= my /\ my <= 4
        /\ 6 <= x /\ x <= 80 * mazeWidth - 9
        /\ 6 <= y /\ y <= 80 * mazeHeight + 73
  BY BulletFields, NoFlag
<1>2. PICK x2 \in Int, y2 \in Int : x2 = o.x /\ x2 = x + mx /\ y2 = o.y /\ y2 = y + my
  BY <1>1, FreeStep
<1>3. /\ Pixel(b) = <<y \div 4, x \div 4>> /\ Pixel(o) = <<y2 \div 4, x2 \div 4>>
      /\ ~Screen!Wall(Pixel(b)) /\ ~Screen!Wall(Pixel(o))
  BY <1>1, <1>2, NoFlag DEF Free, Pixel
<1>4. y \div 4 /= 19 /\ y2 \div 4 /= 19
  BY <1>3, WallAbove
<1>5. CASE y \div 4 < 20
  <2>1. y2 \div 4 < 20
    BY <1>1, <1>2, <1>4, <1>5
  <2>2. Cell(b) = Cell(o)
    BY <1>1, <1>2, <1>5, <2>1, Sizes DEF Cell
  <2> QED
    BY <2>2 DEF Reaches
<1>6. CASE y \div 4 >= 20
  <2>1. /\ b.x \in Int /\ 0 <= b.x /\ b.y \in Int /\ 80 <= b.y
        /\ o.x \in Int /\ 0 <= o.x /\ o.y \in Int /\ 80 <= o.y
    BY <1>1, <1>2, <1>4, <1>6
  <2>2. PICK i \in Int, j \in Int, u \in Int, v \in Int :
          /\ Offset(u) /\ Offset(v) /\ 0 <= i /\ 0 <= j
          /\ b.x \div 4 = 20 * i + u /\ b.y \div 4 = 20 + 20 * j + v
          /\ Pixel(b) = At(i, j, u, v) /\ Cell(b) = <<i, j>>
    BY <2>1, CellOf
  <2>3. PICK i2 \in Int, j2 \in Int, u2 \in Int, v2 \in Int :
          /\ Offset(u2) /\ Offset(v2) /\ 0 <= i2 /\ 0 <= j2
          /\ o.x \div 4 = 20 * i2 + u2 /\ o.y \div 4 = 20 + 20 * j2 + v2
          /\ Pixel(o) = At(i2, j2, u2, v2) /\ Cell(o) = <<i2, j2>>
    BY <2>1, CellOf
  <2>4. ~Solid(i, j, u, v) /\ ~Solid(i2, j2, u2, v2)
    BY <1>3, <2>2, <2>3, WallInMaze
  <2>5. i < mazeWidth /\ j < mazeHeight /\ i2 < mazeWidth /\ j2 < mazeHeight
    BY <1>1, <1>2, <2>2, <2>3, Sizes DEF Offset
  <2>6. /\ (20 * i2 + u2) - (20 * i + u) <= 1 /\ (20 * i + u) - (20 * i2 + u2) <= 1
        /\ (20 * j2 + v2) - (20 * j + v) <= 1 /\ (20 * j + v) - (20 * j2 + v2) <= 1
    BY <1>1, <1>2, <2>2, <2>3
  <2> QED
    BY <2>2, <2>3, <2>4, <2>5, <2>6, StepReaches
<1> QED
  BY <1>1, <1>5, <1>6

\* A bullet on the picture that no flag turns is in a cell, not in a wall, and
\* its step leads to no other cell but by a passage (bullet.sv:109-152,
\* collisionWall.sv:151-245).  A wall is as wide as the longest step, so a
\* bullet that is on one side before and on the other after was in it.
THEOREM CrossingCorrect == Spec => NoSilentCrossing
<1> DEFINE A == bullet.active /\ bullet'.active /\ OnPicture(bullet, bulletS) /\ BulletFlag(bullet) = "none" =>
                    /\ Free(bullet)
                    /\ Free(bullet') => Reaches(Cell(bullet), Cell(bullet'))
<1>1. TypeOK /\ [Next]_vars => [A]_vars
  <2> SUFFICES ASSUME TypeOK, Next, bullet.active, bullet'.active, OnPicture(bullet, bulletS),
                      BulletFlag(bullet) = "none"
               PROVE  /\ Free(bullet)
                      /\ Free(bullet') => Reaches(Cell(bullet), Cell(bullet'))
    OBVIOUS
  <2>1. bullet \in BulletStates
    BY DEF TypeOK
  <2>2. ~Clear
    BY DEF Clear, NewRound, Idle
  <2>3. bullet' = Flown(bullet)
    BY <2>2 DEF Next, Frame
  <2> QED
    BY <2>1, <2>3, NoFlag, Crossing
<1> QED
  BY <1>1, TypeCorrect, PTL DEF Spec, NoSilentCrossing
-----------------------------------------------------------------------------
(* Bouncing.                                                               *)

\* The wall pixels under a bullet.
LEMMA TouchedAt ==
    ASSUME NEW o, o.x \in Int, o.y \in Int
    PROVE  /\ \A p \in Touched(o, bulletS) : \E r, c \in Int : p = <<r, c>>
           /\ \A r, c \in Int : <<r, c>> \in Touched(o, bulletS) <=>
                 /\ 1 <= o.x /\ 1 <= o.y
                 /\ (o.y - 1) \div 4 <= r /\ r <= (o.y + 1) \div 4
                 /\ (o.x - 1) \div 4 <= c /\ c <= (o.x + 1) \div 4
                 /\ <<r, c>> \in Screen!Pixels /\ Screen!Wall(<<r, c>>)
<1>1. PICK x \in Int, y \in Int : x = o.x /\ y = o.y
  OBVIOUS
<1>2. Screen!Rows \in Int /\ Screen!Cols \in Int
  BY Sizes
<1>3. \A p \in Touched(o, bulletS) : \E r, c \in Int : p = <<r, c>>
  BY <1>2 DEF Touched, Screen!Pixels
<1>4. \A p : p \in Touched(o, bulletS) <=>
               p \in Under(o, bulletS) /\ p \in Screen!Pixels /\ Screen!Wall(p)
  BY DEF Touched
<1>5. \A r, c \in Int : <<r, c>> \in Under(o, bulletS) <=>
                 /\ 1 <= x /\ 1 <= y
                 /\ (y - 1) \div 4 <= r /\ r <= (y + 1) \div 4
                 /\ (x - 1) \div 4 <= c /\ c <= (x + 1) \div 4
  BY <1>1 DEF Under, bulletS
<1> QED
  BY <1>1, <1>3, <1>4, <1>5

\* Of the wall pixels under a bullet, at most four, one is the last.
LEMMA ContactTouches ==
    ASSUME NEW o, o.x \in Int, o.y \in Int, Touched(o, bulletS) /= {}
    PROVE  Contact(o, bulletS) \in Touched(o, bulletS)
<1> DEFINE T == Touched(o, bulletS)
           Last(p) == \A q \in T : q[1] < p[1] \/ (q[1] = p[1] /\ q[2] <= p[2])
<1>0. PICK x \in Int, y \in Int : x = o.x /\ y = o.y
  OBVIOUS
<1>1. PICK r1 \in Int, r2 \in Int, c1 \in Int, c2 \in Int :
        /\ r1 = (y - 1) \div 4 /\ r2 = (y + 1) \div 4 /\ r1 <= r2 /\ r2 <= r1 + 1
        /\ c1 = (x - 1) \div 4 /\ c2 = (x + 1) \div 4 /\ c1 <= c2 /\ c2 <= c1 + 1
  OBVIOUS
<1>2. \A q \in T : \E r, c \in Int : /\ q = <<r, c>> /\ q[1] = r /\ q[2] = c
                                     /\ r1 <= r /\ r <= r2 /\ c1 <= c /\ c <= c2
  <2> SUFFICES ASSUME NEW q \in T
               PROVE  \E r, c \in Int : /\ q = <<r, c>> /\ q[1] = r /\ q[2] = c
                                        /\ r1 <= r /\ r <= r2 /\ c1 <= c /\ c <= c2
    OBVIOUS
  <2>1. PICK r \in Int, c \in Int : q = <<r, c>>
    BY TouchedAt
  <2>2. r1 <= r /\ r <= r2 /\ c1 <= c /\ c <= c2
    BY <1>0, <1>1, <2>1, TouchedAt
  <2> QED
    BY <2>1, <2>2
<1>3. \A q \in T : q \in {<<r1, c1>>, <<r1, c2>>, <<r2, c1>>, <<r2, c2>>}
  BY <1>1, <1>2
<1> HIDE DEF T
<1>4. \E p \in T : Last(p)
  <2>1. CASE <<r2, c2>> \in T
    BY <1>2, <2>1
  <2>2. CASE <<r2, c2>> \notin T /\ <<r2, c1>> \in T
    BY <1>1, <1>2, <1>3, <2>2
  <2>3. CASE <<r2, c2>> \notin T /\ <<r2, c1>> \notin T /\ <<r1, c2>> \in T
    BY <1>1, <1>2, <1>3, <2>3
  <2>4. CASE <<r2, c2>> \notin T /\ <<r2, c1>> \notin T /\ <<r1, c2>> \notin T
    BY <1>1, <1>2, <1>3, <2>4 DEF T
  <2> QED
    BY <2>1, <2>2, <2>3, <2>4
<1> QED
  BY <1>4, Zenon DEF Contact, T

\* Where a bullet came from in its last step.
Before(b) == [x |-> b.x - b.mx, y |-> b.y - b.my]

\* After a calm step: the bullet came straight from a place without walls.
Calm == calm =>
    /\ 6 <= Before(bullet).x /\ Before(bullet).x <= 80 * mazeWidth - 9
    /\ 6 <= Before(bullet).y /\ Before(bullet).y <= 80 * mazeHeight + 73
    /\ Touched(Before(bullet), bulletS) = {}

\* A wall that runs along the row turns the bullet up or down, and back to the
\* rows it came from; there it touched nothing, so it does not touch this wall.
LEMMA BounceRow ==
    ASSUME NEW b \in BulletStates,
           6 <= Before(b).x, Before(b).x <= 80 * mazeWidth - 9,
           6 <= Before(b).y, Before(b).y <= 80 * mazeHeight + 73,
           Touched(Before(b), bulletS) = {}, Touched(b, bulletS) /= {},
           BulletFlag(b) = WallFlag(b, bulletS, [x |-> b.mx, y |-> b.my]),
           \A p \in Touched(b, bulletS) : RowGoesOn(p)
    PROVE  Touched(Flown(b), bulletS) \cap Touched(b, bulletS) = {}
<1>1. PICK x \in Int, y \in Int, mx \in Int, my \in Int :
        /\ x = b.x /\ y = b.y /\ mx = b.mx /\ my = b.my
        /\ -4 <= mx /\ mx <= 4 /\ -4 <= my /\ my <= 4
        /\ 0 <= x /\ x <= 1023 /\ 0 <= y /\ y <= 1023
  BY BulletFields
<1>2. PICK px \in Int, py \in Int :
        /\ px = x - mx /\ py = y - my /\ px = Before(b).x /\ py = Before(b).y
        /\ 6 <= px /\ px <= 80 * mazeWidth - 9 /\ 6 <= py /\ py <= 80 * mazeHeight + 73
  BY <1>1 DEF Before
<1>3. BulletFlag(b) \in {"top", "bottom"}
  <2>1. RowGoesOn(Contact(b, bulletS))
    BY <1>1, ContactTouches
  <2>2. PICK r \in Int, c \in Int : Contact(b, bulletS) = <<r, c>>
    BY <1>1, ContactTouches, TouchedAt
  <2>3. Screen!Wall(<<r, c + 1>>)
    BY <2>1, <2>2 DEF RowGoesOn
  <2> QED
    BY <2>2, <2>3 DEF WallFlag
<1>4. Flown(b).y = py /\ Flown(b).x \in Int
  <2>1. Flown(b).my = 0 - my
    BY <1>1, <1>3, FlownType
  <2>2. (y + (0 - my)) % 1024 = py
    BY <1>2, Sizes
  <2> QED
    BY <1>1, <2>1, <2>2, FlownType, BulletFields
<1>5. ASSUME NEW q, q \in Touched(Flown(b), bulletS), q \in Touched(b, bulletS)
      PROVE  FALSE
  <2>1. PICK r \in Int, c \in Int : q = <<r, c>>
    BY <1>1, <1>5, TouchedAt
  <2>2. /\ (py - 1) \div 4 <= r /\ r <= (py + 1) \div 4 /\ Screen!Wall(<<r, c>>)
        /\ <<r, c>> \in Screen!Pixels
    BY <1>2, <1>4, <1>5, <2>1, TouchedAt
  <2>3. (x - 1) \div 4 <= c /\ c <= (x + 1) \div 4
    BY <1>1, <1>5, <2>1, TouchedAt
  <2>4. Screen!Wall(<<r, c + 1>>) /\ Screen!Wall(<<r, c - 1>>)
    BY <1>5, <2>1 DEF RowGoesOn
  <2>5. PICK c2 \in Int : /\ c2 = c \/ c2 = c + 1 \/ c2 = c - 1
                          /\ (px - 1) \div 4 <= c2 /\ c2 <= (px + 1) \div 4
    BY <1>1, <1>2, <2>3
  <2>6. <<r, c2>> \in Screen!Pixels /\ Screen!Wall(<<r, c2>>)
    BY <1>2, <2>2, <2>4, <2>5, InPicture, Sizes
  <2> QED
    BY <1>2, <2>2, <2>5, <2>6, TouchedAt
<1> QED
  BY <1>5

\* A wall that runs along the column turns it left or right, if nothing
\* branches off where it touches the wall.
LEMMA BounceColumn ==
    ASSUME NEW b \in BulletStates,
           6 <= Before(b).x, Before(b).x <= 80 * mazeWidth - 9,
           6 <= Before(b).y, Before(b).y <= 80 * mazeHeight + 73,
           Touched(Before(b), bulletS) = {}, Touched(b, bulletS) /= {},
           BulletFlag(b) = WallFlag(b, bulletS, [x |-> b.mx, y |-> b.my]),
           \A p \in Touched(b, bulletS) : ColumnGoesOn(p)
    PROVE  Touched(Flown(b), bulletS) \cap Touched(b, bulletS) = {}
<1>1. PICK x \in Int, y \in Int, mx \in Int, my \in Int :
        /\ x = b.x /\ y = b.y /\ mx = b.mx /\ my = b.my
        /\ -4 <= mx /\ mx <= 4 /\ -4 <= my /\ my <= 4
        /\ 0 <= x /\ x <= 1023 /\ 0 <= y /\ y <= 1023
  BY BulletFields
<1>2. PICK px \in Int, py \in Int :
        /\ px = x - mx /\ py = y - my /\ px = Before(b).x /\ py = Before(b).y
        /\ 6 <= px /\ px <= 80 * mazeWidth - 9 /\ 6 <= py /\ py <= 80 * mazeHeight + 73
  BY <1>1 DEF Before
<1>3. BulletFlag(b) = "left"
  <2>1. ColumnGoesOn(Contact(b, bulletS))
    BY <1>1, ContactTouches
  <2>2. PICK r \in Int, c \in Int : Contact(b, bulletS) = <<r, c>>
    BY <1>1, ContactTouches, TouchedAt
  <2>3. ~Screen!Wall(<<r, c + 1>>) /\ ~Screen!Wall(<<r, c - 1>>)
    BY <2>1, <2>2 DEF ColumnGoesOn
  <2> QED
    BY <2>2, <2>3 DEF WallFlag
<1>4. Flown(b).x = px /\ Flown(b).y \in Int
  <2>1. Flown(b).mx = 0 - mx
    BY <1>1, <1>3, FlownType
  <2>2. (x + (0 - mx)) % 1024 = px
    BY <1>2, Sizes
  <2> QED
    BY <1>1, <2>1, <2>2, FlownType, BulletFields
<1>5. ASSUME NEW q, q \in Touched(Flown(b), bulletS), q \in Touched(b, bulletS)
      PROVE  FALSE
  <2>1. PICK r \in Int, c \in Int : q = <<r, c>>
    BY <1>1, <1>5, TouchedAt
  <2>2. /\ (px - 1) \div 4 <= c /\ c <= (px + 1) \div 4 /\ Screen!Wall(<<r, c>>)
        /\ <<r, c>> \in Screen!Pixels
    BY <1>2, <1>4, <1>5, <2>1, TouchedAt
  <2>3. (y - 1) \div 4 <= r /\ r <= (y + 1) \div 4
    BY <1>1, <1>5, <2>1, TouchedAt
  <2>4. Screen!Wall(<<r + 1, c>>) /\ Screen!Wall(<<r - 1, c>>)
    BY <1>5, <2>1 DEF ColumnGoesOn
  <2>5. PICK r2 \in Int : /\ r2 = r \/ r2 = r + 1 \/ r2 = r - 1
                          /\ (py - 1) \div 4 <= r2 /\ r2 <= (py + 1) \div 4
    BY <1>1, <1>2, <2>3
  <2>6. <<r2, c>> \in Screen!Pixels /\ Screen!Wall(<<r2, c>>)
    BY <1>2, <2>2, <2>4, <2>5, InPicture, Sizes
  <2> QED
    BY <1>2, <2>2, <2>5, <2>6, TouchedAt
<1> QED
  BY <1>5

\* A bullet that flies into the straight part of a wall turns on the right axis
\* and is off that wall with the same step, although the direction decoder
\* lacks a begin and its inputs come crossed (collisionWall.sv:119-145, 181-245,
\* vga_text_avl_interface.sv:160-163).
THEOREM BounceCorrect == Spec => StraightBounce
<1>1. Init => Calm
  BY DEF Init, Calm
<1>2. TypeOK /\ Calm /\ [Next]_vars => Calm'
  <2> SUFFICES ASSUME TypeOK, Calm, [Next]_vars
               PROVE  Calm'
    OBVIOUS
  <2>1. CASE Clear
    BY <2>1 DEF Clear, NewRound, Calm
  <2>2. ASSUME NEW k \in Keys, Frame(k), calm'
        PROVE  Calm'
    <3>1. bullet \in BulletStates
      BY DEF TypeOK
    <3>2. /\ bullet.active /\ OnPicture(bullet, bulletS) /\ BulletFlag(bullet) = "none"
          /\ bullet' = Flown(bullet) /\ open' = open
      BY <2>2 DEF Frame
    <3>3. PICK x \in Int, y \in Int, mx \in Int, my \in Int :
            /\ x = bullet.x /\ y = bullet.y /\ mx = bullet.mx /\ my = bullet.my
            /\ bullet'.x = x + mx /\ bullet'.y = y + my
            /\ bullet'.mx = mx /\ bullet'.my = my
      BY <3>1, <3>2, BulletFields, FreeStep
    <3>4. Before(bullet') = [x |-> x, y |-> y]
      BY <3>3 DEF Before
    <3>5. Touched([x |-> x, y |-> y], bulletS) = Touched(bullet, bulletS)
      BY <3>3 DEF Touched, Under
    <3>6. Touched(bullet, bulletS) = {}
      BY <3>1, <3>2, NoFlag
    <3>7. Touched(Before(bullet), bulletS)' = Touched(Before(bullet'), bulletS)
      BY <3>2 DEF Touched, Screen!Wall
    <3> QED
      BY <3>1, <3>2, <3>3, <3>4, <3>5, <3>6, <3>7, NoFlag DEF Calm
  <2>3. CASE UNCHANGED vars
    BY <2>3 DEF vars, Calm, Before, Touched, Screen!Wall
  <2> QED
    BY <2>1, <2>2, <2>3 DEF Next, Calm
<1> DEFINE A == bullet.active /\ bullet'.active /\ calm /\ AtStraightWall
                    => Touched(bullet', bulletS) \cap Touched(bullet, bulletS) = {}
<1>3. TypeOK /\ Calm /\ [Next]_vars => [A]_vars
  <2> SUFFICES ASSUME TypeOK, Calm, Next, bullet.active, bullet'.active, calm, AtStraightWall
               PROVE  Touched(bullet', bulletS) \cap Touched(bullet, bulletS) = {}
    OBVIOUS
  <2>1. bullet \in BulletStates
    BY DEF TypeOK
  <2>2. ~Clear
    BY DEF Clear, NewRound, Idle
  <2>3. bullet' = Flown(bullet)
    BY <2>2 DEF Next, Frame
  <2>4. \/ \A p \in Touched(bullet, bulletS) : RowGoesOn(p)
        \/ \A p \in Touched(bullet, bulletS) : ColumnGoesOn(p)
    BY DEF AtStraightWall, Straight
  <2> QED
    BY <2>1, <2>3, <2>4, BounceRow, BounceColumn DEF AtStraightWall, Calm
<1> QED
  BY <1>1, <1>2, <1>3, TypeCorrect, PTL DEF Spec, StraightBounce
-----------------------------------------------------------------------------
(* The step back of a tank.                                                *)

\* The wall pixels under a tank.
LEMMA TouchedByTank ==
    ASSUME NEW o, o.x \in Int, o.y \in Int
    PROVE  /\ \A p \in Touched(o, tankS) : \E r, c \in Int : p = <<r, c>>
           /\ \A r, c \in Int : <<r, c>> \in Touched(o, tankS) <=>
                 /\ 10 <= o.x /\ 10 <= o.y
                 /\ (o.y - 10) \div 4 <= r /\ r <= (o.y + 10) \div 4
                 /\ (o.x - 10) \div 4 <= c /\ c <= (o.x + 10) \div 4
                 /\ <<r, c>> \in Screen!Pixels /\ Screen!Wall(<<r, c>>)
<1>1. PICK x \in Int, y \in Int : x = o.x /\ y = o.y
  OBVIOUS
<1>2. Screen!Rows \in Int /\ Screen!Cols \in Int
  BY Sizes
<1>3. \A p \in Touched(o, tankS) : \E r, c \in Int : p = <<r, c>>
  BY <1>2 DEF Touched, Screen!Pixels
<1>4. \A p : p \in Touched(o, tankS) <=>
               p \in Under(o, tankS) /\ p \in Screen!Pixels /\ Screen!Wall(p)
  BY DEF Touched
<1>5. \A r, c \in Int : <<r, c>> \in Under(o, tankS) <=>
                 /\ 10 <= x /\ 10 <= y
                 /\ (y - 10) \div 4 <= r /\ r <= (y + 10) \div 4
                 /\ (x - 10) \div 4 <= c /\ c <= (x + 10) \div 4
  BY <1>1 DEF Under, tankS
<1> QED
  BY <1>1, <1>3, <1>4, <1>5

\* A tank at o touches no wall and no border.
AwayFromAll(o) == /\ 15 <= o.x /\ o.x <= 80 * mazeWidth - 18
                  /\ 15 <= o.y /\ o.y <= 80 * mazeHeight + 64
                  /\ Touched(o, tankS) = {}

\* A tank on the picture without a flag touches nothing.
LEMMA TankNoFlag ==
    ASSUME NEW t \in TankStates, OnPicture(TankAt(t), tankS), ~AtWall(t)
    PROVE  AwayFromAll(TankAt(t))
<1> DEFINE m == [x |-> Signed(t.mx, Wide), y |-> Signed(t.my, Wide)]
<1>1. PICK x \in Int, y \in Int : /\ x = t.x \div 8 /\ 0 <= x /\ x <= 1023
                                  /\ y = t.y \div 8 /\ 0 <= y /\ y <= 1023
  BY TankFields
<1>2. TankAt(t) = [x |-> x, y |-> y]
  BY <1>1 DEF TankAt
<1>3. PICK r \in Int, c \in Int : r = y \div 4 /\ c = x \div 4
  OBVIOUS
<1>4. <<r, c>> \in Screen!Pixels /\ 10 <= x /\ 10 <= y
  BY <1>2, <1>3 DEF OnPicture, Pixel, tankS
<1>5. x <= 80 * mazeWidth - 1 /\ y <= 80 * mazeHeight + 79
  BY <1>3, <1>4, InPicture, Sizes
<1> HIDE DEF m
<1>6. Flag(TankAt(t), 10, m) = "none"
  BY Zenon DEF AtWall, tankS, m
<1>7. /\ ~((y + 10) % 1024 >= BottomAt)
      /\ ~(y - 10 \in 0..4)
      /\ ~(x - 10 \in 0..4)
      /\ ~((x + 10) % 1024 >= RightAt)
      /\ WallFlag(TankAt(t), 10, m) = "none"
  BY <1>2, <1>6 DEF Flag, Wide
<1>8. /\ 15 <= x /\ x <= 80 * mazeWidth - 18
      /\ 15 <= y /\ y <= 80 * mazeHeight + 64
  BY <1>4, <1>5, <1>7, Sizes
<1>9. Touched(TankAt(t), tankS) = {}
  BY <1>7 DEF WallFlag, tankS
<1> QED
  BY <1>2, <1>8, <1>9 DEF AwayFromAll

\* Where a tank came from with its last step.
CameFrom(t) == [x |-> t.x - t.mx, y |-> t.y - t.my]

\* What is true of a tank whose last step began without a flag.
Rolls(t) == /\ -16 <= t.mx /\ t.mx <= 16 /\ -16 <= t.my /\ t.my <= 16
            /\ AwayFromAll(TankAt(CameFrom(t)))

\* A step without a flag is along the barrel or none, and wraps nowhere.
LEMMA RollStep ==
    ASSUME NEW t \in TankStates, NEW k, OnPicture(TankAt(t), tankS), ~AtWall(t)
    PROVE  Rolls(Driven(t, k))
<1>1. PICK x \in Int, y \in Int : x = t.x /\ y = t.y
  BY TankFields
<1>2. TankAt(t) = [x |-> x \div 8, y |-> y \div 8]
  BY <1>1 DEF TankAt
<1>3. AwayFromAll(TankAt(t))
  BY TankNoFlag
<1>4. /\ 15 <= x \div 8 /\ x \div 8 <= 80 * mazeWidth - 18
      /\ 15 <= y \div 8 /\ y \div 8 <= 80 * mazeHeight + 64
  BY <1>2, <1>3 DEF AwayFromAll
<1>5. PICK mx \in Int, my \in Int :
        /\ mx = Motion(t, k)[1] /\ -16 <= mx /\ mx <= 16
        /\ my = Motion(t, k)[2] /\ -16 <= my /\ my <= 16
  <2>1. /\ newCos(t.angle) \in Int /\ -16 <= newCos(t.angle) /\ newCos(t.angle) <= 16
        /\ newSin(t.angle) \in Int /\ -16 <= newSin(t.angle) /\ newSin(t.angle) <= 16
    BY TankFields, Tables
  <2>2. \/ Motion(t, k) = <<0, 0>>
        \/ Motion(t, k) = <<newCos(t.angle), 0 - newSin(t.angle)>>
        \/ Motion(t, k) = <<0 - newCos(t.angle), newSin(t.angle)>>
    BY MotionCases
  <2> QED
    BY <2>1, <2>2
<1>6. (x + mx) % 8192 = x + mx /\ (y + my) % 8192 = y + my
  BY <1>4, <1>5, Sizes
<1>7. /\ Driven(t, k).x = x + mx /\ Driven(t, k).mx = mx
      /\ Driven(t, k).y = y + my /\ Driven(t, k).my = my
  BY <1>1, <1>5, <1>6, DrivenType
<1>8. CameFrom(Driven(t, k)) = [x |-> x, y |-> y]
  BY <1>7 DEF CameFrom
<1>9. TankAt(CameFrom(Driven(t, k))) = TankAt(t)
  BY <1>2, <1>8 DEF TankAt
<1> QED
  BY <1>3, <1>5, <1>7, <1>9 DEF Rolls

\* On an axis where a tank came from f by m eighths of a pixel: that pixel, p,
\* lies between the one where it is, w, and the one where the step back takes
\* it, u, and neither is far.
Beyond(f, m, p, w, u) ==
    /\ p = f \div 8 /\ w = (f + m) \div 8 /\ u = (f - m - 2) \div 8
    /\ (u <= p /\ p <= w) \/ (w <= p /\ p <= u)
    /\ w <= p + 3 /\ p <= w + 3 /\ u <= p + 3 /\ p <= u + 3
LEMMA BackBeyond ==
    ASSUME NEW f \in Int, NEW m \in Int, -16 <= m, m <= 16, m /= -1
    PROVE  \E p, w, u \in Int : Beyond(f, m, p, w, u)
<1>1. PICK p \in Int, w \in Int, u \in Int :
        p = f \div 8 /\ w = (f + m) \div 8 /\ u = (f - m - 2) \div 8
  OBVIOUS
<1>2. /\ 8 * p <= f /\ f <= 8 * p + 7
      /\ 8 * w <= f + m /\ f + m <= 8 * w + 7
      /\ 8 * u <= f - m - 2 /\ f - m - 2 <= 8 * u + 7
  BY <1>1
<1>3. w <= p + 3 /\ p <= w + 3 /\ u <= p + 3 /\ p <= u + 3
  BY <1>2
<1>4. (u <= p /\ p <= w) \/ (w <= p /\ p <= u)
  <2>1. CASE m >= 0
    BY <1>2, <2>1
  <2>2. CASE m <= -2
    BY <1>2, <2>2
  <2> QED
    BY <2>1, <2>2
<1>5. Beyond(f, m, p, w, u)
  BY <1>1, <1>3, <1>4 DEF Beyond
<1> QED
  BY <1>5

\* Where a tank comes to, in numbers.
LEMMA DrivenTo ==
    ASSUME NEW t \in TankStates, NEW k,
           NEW mx \in Int, NEW my \in Int, Motion(t, k) = <<mx, my>>,
           0 <= t.x + mx, t.x + mx <= 8191, 0 <= t.y + my, t.y + my <= 8191
    PROVE  Driven(t, k).x = t.x + mx /\ Driven(t, k).y = t.y + my
<1>1. PICK x \in Int, y \in Int : x = t.x /\ y = t.y
  BY TankFields
<1>2. mx = Motion(t, k)[1] /\ my = Motion(t, k)[2]
  OBVIOUS
<1>3. (x + mx) % 8192 = x + mx /\ (y + my) % 8192 = y + my
  BY <1>1
<1> QED
  BY <1>1, <1>2, <1>3, DrivenType

\* Something touched on both sides of where the tank came from was touched
\* there.
LEMMA BackStep ==
    ASSUME NEW t \in TankStates, NEW k \in {"up", "down"}, Rolls(t), AtWall(t),
           t.mx /= -1, t.my /= -1
    PROVE  /\ Touched(TankAt(Driven(t, k)), tankS) \cap Touched(TankAt(t), tankS) = {}
           /\ Borders(TankAt(Driven(t, k)), tankS) \cap Borders(TankAt(t), tankS) = {}
<1>1. PICK fx \in Int, fy \in Int, mx \in Int, my \in Int :
        /\ fx = t.x - mx /\ fy = t.y - my /\ mx = t.mx /\ my = t.my
        /\ t.x = fx + mx /\ t.y = fy + my
        /\ -16 <= mx /\ mx <= 16 /\ -16 <= my /\ my <= 16 /\ mx /= -1 /\ my /= -1
  <2>1. /\ t.x \in Int /\ t.y \in Int /\ t.mx \in Int /\ t.my \in Int
    BY TankFields
  <2>2. -16 <= t.mx /\ t.mx <= 16 /\ -16 <= t.my /\ t.my <= 16
    BY Zenon DEF Rolls
  <2>3. PICK a \in Int, b \in Int, mx \in Int, my \in Int :
          a = t.x /\ b = t.y /\ mx = t.mx /\ my = t.my
    BY <2>1
  <2>4. PICK fx \in Int, fy \in Int :
          fx = a - mx /\ fy = b - my /\ a = fx + mx /\ b = fy + my
    OBVIOUS
  <2> QED
    BY <2>2, <2>3, <2>4
<1>2. PICK px \in Int, x \in Int, u \in Int : Beyond(fx, mx, px, x, u)
  BY <1>1, BackBeyond
<1>3. PICK py \in Int, y \in Int, v \in Int : Beyond(fy, my, py, y, v)
  BY <1>1, BackBeyond
<1>4. TankAt(CameFrom(t)) = [x |-> px, y |-> py]
  BY <1>1, <1>2, <1>3 DEF TankAt, CameFrom, Beyond
<1>5. /\ 15 <= px /\ px <= 80 * mazeWidth - 18
      /\ 15 <= py /\ py <= 80 * mazeHeight + 64
      /\ Touched([x |-> px, y |-> py], tankS) = {}
  BY <1>4 DEF Rolls, AwayFromAll
<1>6. TankAt(t) = [x |-> x, y |-> y]
  BY <1>1, <1>2, <1>3 DEF TankAt, Beyond
<1>7. TankAt(Driven(t, k)) = [x |-> u, y |-> v]
  <2>1. Motion(t, k) = <<Back(t.mx), Back(t.my)>>
    BY Zenon DEF Motion
  <2>2. Back(mx) = -2 * mx - 2 /\ Back(my) = -2 * my - 2
    BY <1>1, Backwards
  <2>3. PICK bx \in Int, by \in Int : bx = -2 * mx - 2 /\ by = -2 * my - 2
    OBVIOUS
  <2>4. Motion(t, k) = <<bx, by>>
    BY <1>1, <2>1, <2>2, <2>3
  <2>5. t.x + bx = fx - mx - 2 /\ t.y + by = fy - my - 2
    BY <1>1, <2>3
  <2>6. 0 <= u /\ u <= 1023 /\ 0 <= v /\ v <= 1023
    BY <1>2, <1>3, <1>5, Sizes DEF Beyond
  <2>7. 0 <= t.x + bx /\ t.x + bx <= 8191 /\ 0 <= t.y + by /\ t.y + by <= 8191
    BY <1>2, <1>3, <2>5, <2>6 DEF Beyond
  <2>8. Driven(t, k).x = fx - mx - 2 /\ Driven(t, k).y = fy - my - 2
    <3>1. Driven(t, k).x = t.x + bx /\ Driven(t, k).y = t.y + by
      BY <2>4, <2>7, DrivenTo
    <3> QED
      BY <2>5, <3>1
  <2> QED
    BY <1>2, <1>3, <2>8 DEF TankAt, Beyond
<1>8. ASSUME NEW q, q \in Touched([x |-> u, y |-> v], tankS), q \in Touched([x |-> x, y |-> y], tankS)
      PROVE  FALSE
  <2>1. PICK r \in Int, c \in Int : q = <<r, c>>
    BY <1>8, TouchedByTank
  <2>2. /\ (v - 10) \div 4 <= r /\ r <= (v + 10) \div 4
        /\ (u - 10) \div 4 <= c /\ c <= (u + 10) \div 4
        /\ <<r, c>> \in Screen!Pixels /\ Screen!Wall(<<r, c>>)
    BY <1>8, <2>1, TouchedByTank
  <2>3. /\ (y - 10) \div 4 <= r /\ r <= (y + 10) \div 4
        /\ (x - 10) \div 4 <= c /\ c <= (x + 10) \div 4
    BY <1>8, <2>1, TouchedByTank
  <2>4. (py - 10) \div 4 <= r /\ r <= (py + 10) \div 4
    BY <1>3, <2>2, <2>3 DEF Beyond
  <2>5. (px - 10) \div 4 <= c /\ c <= (px + 10) \div 4
    BY <1>2, <2>2, <2>3 DEF Beyond
  <2> QED
    BY <1>5, <2>2, <2>4, <2>5, TouchedByTank
<1>9. ASSUME NEW f, f \in Borders([x |-> u, y |-> v], tankS), f \in Borders([x |-> x, y |-> y], tankS)
       PROVE  FALSE
  <2>1. f \in {"bottom", "top", "left", "right"}
    BY <1>9 DEF Borders
  <2>2. CASE f = "bottom"
    <3>1. (v + 10) % 1024 >= BottomAt /\ (y + 10) % 1024 >= BottomAt
      BY <1>9, <2>2 DEF Borders, tankS, Wide
    <3> QED
      BY <1>3, <1>5, <3>1, Sizes DEF Beyond
  <2>3. CASE f = "top"
    <3>1. v - 10 <= 4 /\ y - 10 <= 4
      BY <1>9, <2>3 DEF Borders, tankS, Wide
    <3> QED
      BY <1>3, <1>5, <3>1 DEF Beyond
  <2>4. CASE f = "left"
    <3>1. u - 10 <= 4 /\ x - 10 <= 4
      BY <1>9, <2>4 DEF Borders, tankS, Wide
    <3> QED
      BY <1>2, <1>5, <3>1 DEF Beyond
  <2>5. CASE f = "right"
    <3>1. (u + 10) % 1024 >= RightAt /\ (x + 10) % 1024 >= RightAt
      BY <1>9, <2>5 DEF Borders, tankS, Wide
    <3> QED
      BY <1>2, <1>5, <3>1, Sizes DEF Beyond
  <2> QED
    BY <2>1, <2>2, <2>3, <2>4, <2>5
<1> QED
  BY <1>6, <1>7, <1>8, <1>9

\* After a clean step the tank came straight from a place without walls.
Rolling == rolling => Rolls(tank)

\* A tank that runs into a wall or a border and is driven on is off everything
\* it has run into with one step back, in any maze and however long the round
\* lasts, but for a component of -1 (tank1.sv:65-105).
THEOREM BackCorrect == Spec => StepsBack
<1>1. Init => Rolling
  BY DEF Init, Rolling
<1>2. TypeOK /\ Rolling /\ [Next]_vars => Rolling'
  <2> SUFFICES ASSUME TypeOK, Rolling, [Next]_vars
               PROVE  Rolling'
    OBVIOUS
  <2>1. CASE Clear
    BY <2>1 DEF Clear, NewRound, Rolling
  <2>2. ASSUME NEW k \in Keys, Frame(k), rolling'
        PROVE  Rolls(tank)'
    <3>1. /\ tank \in TankStates /\ OnPicture(TankAt(tank), tankS) /\ ~AtWall(tank)
          /\ tank' = Driven(tank, k) /\ open' = open
      BY <2>2 DEF Frame, TypeOK
    <3>2. Rolls(Driven(tank, k))
      BY <3>1, RollStep
    <3>3. Rolls(tank)' = Rolls(tank')
      BY <3>1 DEF Rolls, AwayFromAll, Touched, Screen!Wall
    <3> QED
      BY <3>1, <3>2, <3>3
  <2>3. CASE UNCHANGED vars
    BY <2>3 DEF vars, Rolling, Rolls, AwayFromAll, Touched, Screen!Wall
  <2> QED
    BY <2>1, <2>2, <2>3 DEF Next, Rolling
<1> DEFINE A == RunsInto /\ frames' > frames /\ key' \in {"up", "down"} /\ -1 \notin {tank.mx, tank.my} =>
                    /\ Touched(TankAt(tank'), tankS) \cap Touched(TankAt(tank), tankS) = {}
                    /\ Borders(TankAt(tank'), tankS) \cap Borders(TankAt(tank), tankS) = {}
<1>3. TypeOK /\ Rolling /\ [Next]_vars => [A]_vars
  <2> SUFFICES ASSUME TypeOK, Rolling, Next, RunsInto, frames' > frames,
                      key' \in {"up", "down"}, -1 \notin {tank.mx, tank.my}
               PROVE  /\ Touched(TankAt(tank'), tankS) \cap Touched(TankAt(tank), tankS) = {}
                      /\ Borders(TankAt(tank'), tankS) \cap Borders(TankAt(tank), tankS) = {}
    OBVIOUS
  <2>1. ~Clear
    BY MotionAssumption DEF Clear, NewRound, TypeOK
  <2>2. PICK k \in {"up", "down"} : tank' = Driven(tank, k)
    BY <2>1 DEF Next, Frame
  <2>3. tank \in TankStates /\ Rolls(tank) /\ AtWall(tank) /\ tank.mx /= -1 /\ tank.my /= -1
    BY DEF TypeOK, Rolling, RunsInto
  <2> QED
    BY <2>2, <2>3, BackStep
<1> QED
  BY <1>1, <1>2, <1>3, TypeCorrect, PTL DEF Spec, StepsBack
-----------------------------------------------------------------------------
(* The first frames of a round, for any tank and any bullet: f frames after *)
(* the tank was put back at s, it is t and one of its bullets is b.         *)

\* Around the middle of the cell where it starts no wall is in reach.
LEMMA SafeSpot ==
    ASSUME NEW s \in SpawnPlaces, NEW o, o.x \in Int, o.y \in Int,
           NEW size \in Int, 0 <= size, size <= 10, NEW m,
           NEW a \in Int, NEW b \in Int, s[1] = 8 * a, s[2] = 8 * b,
           a - 32 <= o.x - size, o.x + size <= a + 32,
           b - 32 <= o.y - size, o.y + size <= b + 32
    PROVE  Flag(o, size, m) = "none"
<1>1. PICK k \in Int, l \in Int : /\ 0 <= k /\ k < mazeWidth /\ 1 <= l /\ l <= mazeHeight
                                  /\ a = 80 * k + 40 /\ b = 80 * l + 40
  BY SpawnSpot
<1>2. PICK x \in Int, y \in Int : /\ x = o.x /\ y = o.y
                                  /\ 80 * k + 8 <= x - size /\ x + size <= 80 * k + 72
                                  /\ 80 * l + 8 <= y - size /\ y + size <= 80 * l + 72
  BY <1>1
<1>3. Touched(o, size) = {}
  <2> SUFFICES ASSUME NEW q \in Touched(o, size)
               PROVE  FALSE
    OBVIOUS
  <2>1. PICK r \in Int, c \in Int :
          /\ q = <<r, c>>
          /\ (y - size) \div 4 <= r /\ r <= (y + size) \div 4
          /\ (x - size) \div 4 <= c /\ c <= (x + size) \div 4
    BY <1>2 DEF Touched, Under
  <2>2. PICK u \in Int, v \in Int : u = c - 20 * k /\ v = r - 20 * l
    OBVIOUS
  <2>3. 2 <= u /\ u <= 18 /\ 2 <= v /\ v <= 18
    BY <1>2, <2>1, <2>2
  <2>4. PICK j \in Int : j = l - 1 /\ 0 <= j
    BY <1>1
  <2>5. q = At(k, j, u, v)
    BY <2>1, <2>2, <2>4 DEF At
  <2>6. Offset(u) /\ Offset(v) /\ ~Solid(k, j, u, v)
    BY <2>3 DEF Offset, Solid
  <2>7. Screen!Wall(q)
    BY DEF Touched
  <2> QED
    BY <2>4, <2>5, <2>6, <2>7, WallInMaze
<1>4. WallFlag(o, size, m) = "none"
  BY <1>3 DEF WallFlag
<1>5. /\ ~((y + size) % 1024 >= BottomAt) /\ ~((x + size) % 1024 >= RightAt)
      /\ ~(y - size \in 0..4) /\ ~(x - size \in 0..4)
  BY <1>1, <1>2, Sizes
<1> QED
  BY <1>2, <1>4, <1>5 DEF Flag, Wide

\* The tank moves by at most 2 pixels in a frame while it touches no wall, and
\* it reaches none in the first 6.
TankNear(s, f, t) == /\ s[1] - 16 * f <= t.x /\ t.x <= s[1] + 16 * f
                     /\ s[2] - 16 * f <= t.y /\ t.y <= s[2] + 16 * f

\* The bullet starts at most 20 pixels from the tank and moves by at most 4.
BulletNear(s, f, b) ==
    /\ s[1] - 8 * (18 + 2 * f + 2 * b.timer) <= 8 * b.x
    /\ 8 * b.x <= s[1] + 8 * (18 + 2 * f + 2 * b.timer)
    /\ s[2] - 8 * (18 + 2 * f + 2 * b.timer) <= 8 * b.y
    /\ 8 * b.y <= s[2] + 8 * (18 + 2 * f + 2 * b.timer)

\* It is ahead of the tank and faster.
Ahead(t, b) == \/ b.mx >= 3 /\ b.x - TankAt(t).x >= 13
               \/ b.mx <= -3 /\ b.x - TankAt(t).x <= -13
               \/ b.my >= 3 /\ b.y - TankAt(t).y >= 13
               \/ b.my <= -3 /\ b.y - TankAt(t).y <= -13

\* Or it has been to a wall and is not back yet.
Far(s, f, b) == \/ 8 * b.x >= s[1] + 384 - 32 * f \/ 8 * b.x <= s[1] - 384 + 32 * f
                \/ 8 * b.y >= s[2] + 384 - 32 * f \/ 8 * b.y <= s[2] - 384 + 32 * f

EarlyBullet(s, f, t, b) ==
    /\ ~b.active => b.timer = 0
    /\ b.active => /\ b.timer < f
                   /\ BulletNear(s, f, b)
                   /\ Ahead(t, b) \/ (f >= 5 /\ Far(s, f, b))

\* Where the tank is, in pixels.
LEMMA EarlySpot ==
    ASSUME NEW s \in SpawnPlaces, NEW f \in Int, 0 <= f, f <= 6,
           NEW t \in TankStates, TankNear(s, f, t)
    PROVE  \E a, b, x, y \in Int :
             /\ s[1] = 8 * a /\ 40 <= a /\ a <= 920 /\ s[2] = 8 * b /\ 40 <= b /\ b <= 920
             /\ x = t.x /\ 8 * a - 16 * f <= x /\ x <= 8 * a + 16 * f
             /\ y = t.y /\ 8 * b - 16 * f <= y /\ y <= 8 * b + 16 * f
             /\ TankAt(t).x = x \div 8 /\ TankAt(t).y = y \div 8
<1>1. PICK a \in Int, b \in Int : /\ s[1] = 8 * a /\ 40 <= a /\ a <= 920
                                  /\ s[2] = 8 * b /\ 40 <= b /\ b <= 920
  <2>1. PICK k \in Int, l \in Int : /\ 0 <= k /\ k < mazeWidth /\ 1 <= l /\ l <= mazeHeight
                                    /\ s[1] = 8 * (80 * k + 40) /\ s[2] = 8 * (80 * l + 40)
    BY SpawnSpot
  <2> QED
    BY <2>1, Sizes
<1>2. PICK x \in Int, y \in Int : x = t.x /\ y = t.y
  BY TankFields
<1> QED
  BY <1>1, <1>2 DEF TankNear, TankAt

\* The tank in those frames.
LEMMA EarlyTank ==
    ASSUME NEW s \in SpawnPlaces, NEW f \in Int, 0 <= f, f <= 5,
           NEW t \in TankStates, TankNear(s, f, t), NEW k
    PROVE  /\ TankNear(s, f + 1, Driven(t, k))
           /\ \E m, n \in Int : /\ -16 <= m /\ m <= 16 /\ Driven(t, k).x = t.x + m
                                /\ -16 <= n /\ n <= 16 /\ Driven(t, k).y = t.y + n
<1>1. PICK a \in Int, b \in Int, x \in Int, y \in Int :
        /\ s[1] = 8 * a /\ 40 <= a /\ a <= 920 /\ s[2] = 8 * b /\ 40 <= b /\ b <= 920
        /\ x = t.x /\ 8 * a - 16 * f <= x /\ x <= 8 * a + 16 * f
        /\ y = t.y /\ 8 * b - 16 * f <= y /\ y <= 8 * b + 16 * f
        /\ TankAt(t).x = x \div 8 /\ TankAt(t).y = y \div 8
  BY EarlySpot
<1>2. ~AtWall(t)
  <2>1. /\ a - 32 <= (x \div 8) - 10 /\ (x \div 8) + 10 <= a + 32
        /\ b - 32 <= (y \div 8) - 10 /\ (y \div 8) + 10 <= b + 32
    BY <1>1
  <2> QED
    BY <1>1, <2>1, SafeSpot DEF AtWall, tankS
<1>3. PICK m \in Int, n \in Int : /\ m = Motion(t, k)[1] /\ -16 <= m /\ m <= 16
                                  /\ n = Motion(t, k)[2] /\ -16 <= n /\ n <= 16
  BY <1>2, MotionCases, TankFields, Tables
<1>4. (x + m) % 8192 = x + m /\ (y + n) % 8192 = y + n
  BY <1>1, <1>3
<1>5. Driven(t, k).x = x + m /\ Driven(t, k).y = y + n
  BY <1>1, <1>3, <1>4, DrivenType
<1> QED
  BY <1>1, <1>3, <1>5 DEF TankNear

\* A bullet born in those frames.
LEMMA EarlyBorn ==
    ASSUME NEW s \in SpawnPlaces, NEW f \in Int, 0 <= f, f <= 5,
           NEW t \in TankStates, TankNear(s, f, t), NEW k,
           NEW old \in BulletStates, old.timer = 0
    PROVE  EarlyBullet(s, f + 1, Driven(t, k), Born(old, t))
<1>1. PICK a \in Int, b \in Int, x \in Int, y \in Int :
        /\ s[1] = 8 * a /\ 40 <= a /\ a <= 920 /\ s[2] = 8 * b /\ 40 <= b /\ b <= 920
        /\ x = t.x /\ 8 * a - 16 * f <= x /\ x <= 8 * a + 16 * f
        /\ y = t.y /\ 8 * b - 16 * f <= y /\ y <= 8 * b + 16 * f
        /\ TankAt(t).x = x \div 8 /\ TankAt(t).y = y \div 8
  BY EarlySpot
<1>2. PICK m \in Int, n \in Int : /\ -16 <= m /\ m <= 16 /\ Driven(t, k).x = x + m
                                  /\ -16 <= n /\ n <= 16 /\ Driven(t, k).y = y + n
  BY <1>1, EarlyTank
<1>3. PICK c \in Int, z \in Int :
        /\ c = newCos(t.angle) /\ -16 <= c /\ c <= 16
        /\ z = newSin(t.angle) /\ -16 <= z /\ z <= 16
        /\ c <= -12 \/ c >= 12 \/ z <= -12 \/ z >= 12
  BY TankFields, Tables
<1>4. PICK mx \in Int, my \in Int : mx = c \div 4 /\ my = 0 - (z \div 4)
  OBVIOUS
<1>5. /\ -4 <= mx /\ mx <= 4 /\ -4 <= my /\ my <= 4
      /\ mx <= -3 \/ mx >= 3 \/ my <= -3 \/ my >= 3
  BY <1>3, <1>4
<1>6. /\ (x \div 8 + 5 * mx) % 1024 = x \div 8 + 5 * mx
      /\ (y \div 8 + 5 * my) % 1024 = y \div 8 + 5 * my
  BY <1>1, <1>5
<1>7. PICK v : v = Born(old, t)
  OBVIOUS
<1>8. /\ v.active /\ v.timer = 0 /\ v.mx = mx /\ v.my = my
      /\ v.x = x \div 8 + 5 * mx /\ v.y = y \div 8 + 5 * my
  BY <1>1, <1>3, <1>4, <1>6, <1>7, BornType
<1>9. BulletNear(s, f + 1, v)
  BY <1>1, <1>5, <1>8 DEF BulletNear
<1>10. PICK tx \in Int, ty \in Int :
         /\ tx = TankAt(Driven(t, k)).x /\ tx = (x + m) \div 8
         /\ ty = TankAt(Driven(t, k)).y /\ ty = (y + n) \div 8
  BY <1>2 DEF TankAt
<1>11. tx <= x \div 8 + 2 /\ tx >= x \div 8 - 2 /\ ty <= y \div 8 + 2 /\ ty >= y \div 8 - 2
  BY <1>2, <1>10
<1>12. Ahead(Driven(t, k), v)
  BY <1>5, <1>8, <1>10, <1>11 DEF Ahead
<1> QED
  BY <1>7, <1>8, <1>9, <1>12 DEF EarlyBullet

\* A bullet that flies in those frames.  No flag turns it before the fourth,
\* and one that is turned is far from the cell's middle.
LEMMA EarlyFlown ==
    ASSUME NEW s \in SpawnPlaces, NEW f \in Int, 0 <= f, f <= 5,
           NEW t \in TankStates, TankNear(s, f, t), NEW k,
           NEW old \in BulletStates, old.active, EarlyBullet(s, f, t, old)
    PROVE  EarlyBullet(s, f + 1, Driven(t, k), Flown(old))
<1>1. PICK a \in Int, b \in Int, x \in Int, y \in Int :
        /\ s[1] = 8 * a /\ 40 <= a /\ a <= 920 /\ s[2] = 8 * b /\ 40 <= b /\ b <= 920
        /\ x = t.x /\ 8 * a - 16 * f <= x /\ x <= 8 * a + 16 * f
        /\ y = t.y /\ 8 * b - 16 * f <= y /\ y <= 8 * b + 16 * f
        /\ TankAt(t).x = x \div 8 /\ TankAt(t).y = y \div 8
  BY EarlySpot
<1>2. PICK m \in Int, n \in Int : /\ -16 <= m /\ m <= 16 /\ Driven(t, k).x = x + m
                                  /\ -16 <= n /\ n <= 16 /\ Driven(t, k).y = y + n
  BY <1>1, EarlyTank
<1>3. PICK bx \in Int, by \in Int, mx \in Int, my \in Int, tau \in Int :
        /\ bx = old.x /\ by = old.y /\ mx = old.mx /\ my = old.my
        /\ -4 <= mx /\ mx <= 4 /\ -4 <= my /\ my <= 4
        /\ tau = old.timer /\ 0 <= tau /\ tau < f
  BY BulletFields DEF EarlyBullet
<1>4. /\ a - (18 + 2 * f + 2 * tau) <= bx /\ bx <= a + (18 + 2 * f + 2 * tau)
      /\ b - (18 + 2 * f + 2 * tau) <= by /\ by <= b + (18 + 2 * f + 2 * tau)
  BY <1>1, <1>3 DEF EarlyBullet, BulletNear
<1>5. PICK v : v = Flown(old)
  OBVIOUS
<1>6. PICK nx \in Int, ny \in Int :
        /\ nx = v.mx /\ (nx = mx \/ nx = 0 - mx)
        /\ ny = v.my /\ (ny = my \/ ny = 0 - my)
        /\ BulletFlag(old) = "none" => nx = mx /\ ny = my
  BY <1>3, <1>5, FlownType
<1>7. (bx + nx) % 1024 = bx + nx /\ (by + ny) % 1024 = by + ny
  BY <1>1, <1>3, <1>4, <1>6
<1>8. /\ v.x = bx + nx /\ v.y = by + ny /\ v.mx = nx /\ v.my = ny
      /\ v.active => v.timer = tau + 1
      /\ ~v.active => v.timer = 0
  BY <1>3, <1>5, <1>6, <1>7, FlownType
<1> SUFFICES ASSUME v.active
             PROVE  /\ v.timer < f + 1 /\ BulletNear(s, f + 1, v)
                    /\ Ahead(Driven(t, k), v) \/ (f + 1 >= 5 /\ Far(s, f + 1, v))
  BY <1>5, <1>8 DEF EarlyBullet
<1>9. v.timer < f + 1 /\ BulletNear(s, f + 1, v)
  BY <1>1, <1>3, <1>4, <1>6, <1>8 DEF BulletNear
<1>10. PICK tx \in Int, ty \in Int, ux \in Int, uy \in Int :
         /\ tx = TankAt(t).x /\ tx = x \div 8 /\ ux = TankAt(Driven(t, k)).x /\ ux = (x + m) \div 8
         /\ ty = TankAt(t).y /\ ty = y \div 8 /\ uy = TankAt(Driven(t, k)).y /\ uy = (y + n) \div 8
  <2>1. /\ TankAt(Driven(t, k)).x = (x + m) \div 8
        /\ TankAt(Driven(t, k)).y = (y + n) \div 8
    BY <1>2 DEF TankAt
  <2> QED
    BY <1>1, <1>2, <2>1
<1>11. ux <= tx + 2 /\ ux >= tx - 2 /\ uy <= ty + 2 /\ uy >= ty - 2
  BY <1>2, <1>10
<1>12. CASE BulletFlag(old) = "none" /\ Ahead(t, old)
  <2>1. Ahead(Driven(t, k), v)
    BY <1>3, <1>6, <1>8, <1>10, <1>11, <1>12 DEF Ahead
  <2> QED
    BY <1>9, <2>1
<1>13. CASE f >= 5 /\ Far(s, f, old)
  <2>1. Far(s, f + 1, v)
    BY <1>1, <1>3, <1>6, <1>8, <1>13 DEF Far
  <2> QED
    BY <1>9, <1>13, <2>1
<1>14. CASE BulletFlag(old) /= "none"
  <2>1. ~ /\ a - 32 <= bx - 1 /\ bx + 1 <= a + 32
          /\ b - 32 <= by - 1 /\ by + 1 <= b + 32
    BY <1>1, <1>3, <1>14, SafeSpot DEF BulletFlag, bulletS
  <2>2. f >= 4
    BY <1>3, <1>4, <2>1
  <2>3. Far(s, f + 1, v)
    BY <1>1, <1>3, <1>6, <1>8, <2>1, <2>2 DEF Far
  <2> QED
    BY <1>9, <2>2, <2>3
<1> QED
  BY <1>12, <1>13, <1>14 DEF EarlyBullet

\* A frame keeps it so.
LEMMA EarlyStep ==
    ASSUME NEW s \in SpawnPlaces, NEW f \in Int, 0 <= f, f <= 5,
           NEW t \in TankStates, TankNear(s, f, t), NEW k, NEW fire \in BOOLEAN,
           NEW b \in BulletStates, EarlyBullet(s, f, t, b)
    PROVE  EarlyBullet(s, f + 1, Driven(t, k), IF b.active THEN Flown(b)
                                               ELSE IF fire THEN Born(b, t) ELSE b)
<1>1. CASE b.active
  BY <1>1, EarlyFlown
<1>2. CASE ~b.active /\ fire
  BY <1>2, EarlyBorn DEF EarlyBullet
<1>3. CASE ~b.active /\ ~fire
  BY <1>3 DEF EarlyBullet
<1> QED
  BY <1>1, <1>2, <1>3

\* No hit follows, neither on the tank itself nor on one that started in
\* another cell.
LEMMA EarlyClear ==
    ASSUME NEW f \in Int, 0 <= f, f <= 6,
           NEW s \in SpawnPlaces, NEW t \in TankStates, TankNear(s, f, t),
           NEW z \in SpawnPlaces, NEW u \in TankStates, TankNear(z, f, u),
           NEW b \in BulletStates, EarlyBullet(z, f, u, b),
           s /= z \/ t = u
    PROVE  ~Hit(b, t)
<1> SUFFICES ASSUME Hit(b, t)
             PROVE  FALSE
  OBVIOUS
<1>1. PICK a \in Int, c \in Int, x \in Int, y \in Int :
        /\ s[1] = 8 * a /\ 40 <= a /\ a <= 920 /\ s[2] = 8 * c /\ 40 <= c /\ c <= 920
        /\ x = t.x /\ 8 * a - 16 * f <= x /\ x <= 8 * a + 16 * f
        /\ y = t.y /\ 8 * c - 16 * f <= y /\ y <= 8 * c + 16 * f
        /\ TankAt(t).x = x \div 8 /\ TankAt(t).y = y \div 8
  BY EarlySpot
<1>2. PICK tx \in Int, ty \in Int :
         /\ tx = TankAt(t).x /\ a - 2 * f <= tx /\ tx <= a + 2 * f
         /\ ty = TankAt(t).y /\ c - 2 * f <= ty /\ ty <= c + 2 * f
  <2>1. /\ a - 2 * f <= x \div 8 /\ x \div 8 <= a + 2 * f
        /\ c - 2 * f <= y \div 8 /\ y \div 8 <= c + 2 * f
    BY <1>1
  <2> QED
    BY <1>1, <2>1
<1>3. /\ (tx + 10) % 1024 = tx + 10 /\ (tx - 10) % 1024 = tx - 10
      /\ (ty + 10) % 1024 = ty + 10 /\ (ty - 10) % 1024 = ty - 10
  BY <1>1, <1>2
<1>4. PICK bx \in Int, by \in Int, tau \in Int :
        bx = b.x /\ by = b.y /\ tau = b.timer /\ 0 <= tau /\ tau < f
  BY BulletFields DEF EarlyBullet, Hit
<1>5. b.active /\ bx <= tx + 10 /\ bx >= tx - 10 /\ by <= ty + 10 /\ by >= ty - 10
  BY <1>2, <1>3, <1>4 DEF Hit, tankS, Wide
<1>6. CASE s = z
  <2>1. u = t
    BY <1>6
  <2>2. ~Ahead(u, b)
    BY <1>2, <1>4, <1>5, <2>1 DEF Ahead
  <2>3. ~(f >= 5 /\ Far(z, f, b))
    BY <1>1, <1>2, <1>4, <1>5, <1>6 DEF Far
  <2> QED
    BY <1>5, <2>2, <2>3 DEF EarlyBullet
<1>7. CASE s /= z
  <2>1. PICK k \in Int, l \in Int, i \in Int, j \in Int :
          /\ s[1] = 8 * (80 * k + 40) /\ s[2] = 8 * (80 * l + 40)
          /\ z[1] = 8 * (80 * i + 40) /\ z[2] = 8 * (80 * j + 40)
    BY SpawnSpot
  <2>2. s = <<s[1], s[2]>> /\ z = <<z[1], z[2]>>
    BY DEF SpawnPlaces
  <2>3. k /= i \/ l /= j
    BY <1>7, <2>1, <2>2
  <2>4. /\ z[1] - 8 * (16 + 4 * f) <= 8 * bx /\ 8 * bx <= z[1] + 8 * (16 + 4 * f)
        /\ z[2] - 8 * (16 + 4 * f) <= 8 * by /\ 8 * by <= z[2] + 8 * (16 + 4 * f)
    BY <1>4, <1>5, <2>1 DEF EarlyBullet, BulletNear
  <2>5. /\ 80 * i - 80 * k < 80 /\ 80 * k - 80 * i < 80
        /\ 80 * j - 80 * l < 80 /\ 80 * l - 80 * j < 80
    BY <1>1, <1>2, <1>5, <2>1, <2>4
  <2> QED
    BY <2>3, <2>5
<1> QED
  BY <1>6, <1>7
-----------------------------------------------------------------------------
(* The playfield.                                                          *)

\* The bullets after a frame.
LEMMA BulletSteps ==
    ASSUME NEW h, Play(h), NEW p \in Players, NEW k \in Shots
    PROVE  bullets'[p][k] = IF bullets[p][k].active THEN Flown(bullets[p][k])
                            ELSE IF flags[p][k] THEN Born(bullets[p][k], tanks[p])
                            ELSE bullets[p][k]
BY Zenon DEF Play

\* Types of the parts.
LEMMA DuelFields ==
    ASSUME DuelTypeOK, NEW p \in Players, NEW k \in Shots
    PROVE  /\ tanks[p] \in TankStates /\ bullets[p][k] \in BulletStates
           /\ flags[p][k] \in BOOLEAN /\ triggers[p] \in BOOLEAN
<1>1. tanks[p] \in TankStates /\ triggers[p] \in BOOLEAN
  BY DEF DuelTypeOK
<1>2. bullets[p] \in [Shots -> BulletStates] /\ flags[p] \in [Shots -> BOOLEAN]
  BY DEF DuelTypeOK
<1> QED
  BY <1>1, <1>2

\* A key is held that the run allows, tanks and bullets hold what their
\* registers can hold, for both tanks and all six bullets and rounds of any
\* length (vga_text_avl_interface.sv:137-334).
THEOREM DuelTypeCorrect == DuelSpec => []DuelTypeOK
<1>1. /\ PutBack \in [Players -> TankStates]
      /\ NoBullets \in [Players -> [Shots -> BulletStates]]
      /\ Nobody \in [Players -> BOOLEAN]
  <2>1. Spawns \in [Players -> SpawnPlaces]
    BY DuelAssumption
  <2>2. PutBack \in [Players -> TankStates]
    BY <2>1, SpawnedType DEF PutBack
  <2>3. NoBullets \in [Players -> [Shots -> BulletStates]]
    BY SpawnedType DEF NoBullets
  <2>4. Nobody \in [Players -> BOOLEAN]
    BY Zenon DEF Nobody
  <2> QED
    BY <2>2, <2>3, <2>4
<1>2. DuelInit => DuelTypeOK
  <2> SUFFICES ASSUME DuelInit
               PROVE  DuelTypeOK
    OBVIOUS
  <2>1. flags \in [Players -> [Shots -> BOOLEAN]]
    BY DuelAssumption DEF DuelInit
  <2>2. age \in 0..MaxAge /\ spent \in 0..MaxSpent
    BY Sizes DEF DuelInit
  <2> QED
    BY <1>1, <2>1, <2>2 DEF DuelInit, DuelTypeOK
<1>3. DuelTypeOK /\ [DuelNext]_duelVars => DuelTypeOK'
  <2> SUFFICES ASSUME DuelTypeOK, [DuelNext]_duelVars
               PROVE  DuelTypeOK'
    OBVIOUS
  <2>1. CASE PutAllBack
    <3>1. age' \in 0..MaxAge /\ spent' \in 0..MaxSpent
      BY <2>1, Sizes DEF PutAllBack
    <3> QED
      BY <1>1, <2>1, <3>1 DEF PutAllBack, DuelTypeOK
  <2>2. ASSUME NEW h \in Inputs, Play(h)
        PROVE  DuelTypeOK'
    <3>1. tanks' \in [Players -> TankStates]
      <4>1. \A p \in Players : Driven(tanks[p], h[p]) \in TankStates
        BY DrivenType DEF DuelTypeOK
      <4> QED
        BY <2>2, <4>1 DEF Play
    <3>2. bullets' \in [Players -> [Shots -> BulletStates]]
      <4>1. ASSUME NEW p \in Players, NEW k \in Shots
            PROVE  (IF bullets[p][k].active THEN Flown(bullets[p][k])
                    ELSE IF flags[p][k] THEN Born(bullets[p][k], tanks[p])
                    ELSE bullets[p][k]) \in BulletStates
        <5>1. bullets[p][k] \in BulletStates /\ tanks[p] \in TankStates
          BY DuelFields
        <5> QED
          BY <5>1, FlownType, BornType
      <4> QED
        BY <2>2, <4>1 DEF Play
    <3>3. flags' \in [Players -> [Shots -> BOOLEAN]]
      <4>1. \A p \in Players, k \in Shots : create(p, k) \in BOOLEAN
        BY Zenon DEF create
      <4> QED
        BY <2>2, <4>1 DEF Play
    <3>4. triggers' \in [Players -> BOOLEAN] /\ keyed' \in [Players -> BOOLEAN]
      BY <2>2, Zenon DEF Play
    <3>5. age' \in 0..MaxAge /\ spent' \in 0..MaxSpent
      BY <2>2, DuelAssumption DEF Play, DuelTypeOK
    <3>6. open' \in Mazes /\ held' \in Inputs
      BY <2>2 DEF Play, DuelTypeOK
    <3> QED
      BY <3>1, <3>2, <3>3, <3>4, <3>5, <3>6 DEF DuelTypeOK
  <2>3. CASE UNCHANGED duelVars
    BY <2>3 DEF duelVars, DuelTypeOK
  <2> QED
    BY <2>1, <2>2, <2>3 DEF DuelNext
<1> QED
  BY <1>2, <1>3, PTL DEF DuelSpec

\* In the first frames of a round each tank is near the middle of its cell, and
\* its bullets are on their way from there.
Early == age <= 6 =>
    \A p \in Players :
        /\ TankNear(Spawns[p], age, tanks[p])
        /\ \A k \in Shots : EarlyBullet(Spawns[p], age, tanks[p], bullets[p][k])

\* So it is when all has been put back.
LEMMA EarlyPutBack ==
    ASSUME NEW p \in Players, NEW k \in Shots
    PROVE  /\ TankNear(Spawns[p], 0, PutBack[p])
           /\ EarlyBullet(Spawns[p], 0, PutBack[p], NoBullets[p][k])
<1>1. PICK a \in Int, b \in Int : a = Spawns[p][1] /\ b = Spawns[p][2]
  BY DuelAssumption, SpawnSpot, Sizes
<1>2. PutBack[p].x = a /\ PutBack[p].y = b
  BY <1>1 DEF PutBack, Spawned
<1>3. TankNear(Spawns[p], 0, PutBack[p])
  BY <1>1, <1>2 DEF TankNear
<1>4. ~NoBullets[p][k].active /\ NoBullets[p][k].timer = 0
  BY DEF NoBullets, Idle
<1> QED
  BY <1>3, <1>4, Zenon DEF EarlyBullet

\* And it stays so.
LEMMA EarlyInvariant == DuelSpec => [](DuelTypeOK /\ Early)
<1>1. DuelInit => Early
  <2> SUFFICES ASSUME DuelInit
               PROVE  Early
    OBVIOUS
  <2>1. age = 0 /\ tanks = PutBack /\ bullets = NoBullets
    BY DEF DuelInit
  <2> QED
    <3> SUFFICES ASSUME NEW p \in Players, NEW k \in Shots
                 PROVE  /\ TankNear(Spawns[p], age, tanks[p])
                        /\ EarlyBullet(Spawns[p], age, tanks[p], bullets[p][k])
      BY DEF Early, Shots
    <3> QED
      BY <2>1, EarlyPutBack
<1>2. DuelTypeOK /\ Early /\ [DuelNext]_duelVars => Early'
  <2> SUFFICES ASSUME DuelTypeOK, Early, [DuelNext]_duelVars
               PROVE  Early'
    OBVIOUS
  <2>1. CASE PutAllBack
    <3>1. age' = 0 /\ tanks' = PutBack /\ bullets' = NoBullets
      BY <2>1 DEF PutAllBack
    <3> QED
      <4> SUFFICES ASSUME NEW p \in Players, NEW k \in Shots
                   PROVE  /\ TankNear(Spawns[p], age', tanks'[p])
                          /\ EarlyBullet(Spawns[p], age', tanks'[p], bullets'[p][k])
        BY DEF Early, Shots
      <4> QED
        BY <3>1, EarlyPutBack
  <2>2. ASSUME NEW h \in Inputs, Play(h)
        PROVE  Early'
    <3> SUFFICES ASSUME age' <= 6, NEW p \in Players
                 PROVE  /\ TankNear(Spawns[p], age', tanks'[p])
                        /\ \A k \in Shots : EarlyBullet(Spawns[p], age', tanks'[p], bullets'[p][k])
      BY DEF Early
    <3>1. age \in Int /\ age' = age + 1 /\ 0 <= age /\ age <= 5
      BY <2>2 DEF Play, DuelTypeOK
    <3>2. PICK s \in SpawnPlaces : s = Spawns[p]
      BY DuelAssumption
    <3>3. TankNear(s, age, tanks[p]) /\ tanks[p] \in TankStates
      BY <3>1, <3>2 DEF Early, DuelTypeOK
    <3>4. tanks'[p] = Driven(tanks[p], h[p])
      BY <2>2 DEF Play
    <3>5. TankNear(s, age', tanks'[p])
      BY <3>1, <3>3, <3>4, EarlyTank
    <3>6. ASSUME NEW k \in Shots
          PROVE  EarlyBullet(s, age', tanks'[p], bullets'[p][k])
      <4>1. PICK b \in BulletStates, fire \in BOOLEAN : b = bullets[p][k] /\ fire = flags[p][k]
        BY DuelFields
      <4>2. EarlyBullet(s, age, tanks[p], b)
        BY <3>1, <3>2, <4>1 DEF Early
      <4>3. EarlyBullet(s, age + 1, Driven(tanks[p], h[p]),
                        IF b.active THEN Flown(b) ELSE IF fire THEN Born(b, tanks[p]) ELSE b)
        BY <3>1, <3>3, <4>2, EarlyStep
      <4>4. bullets'[p][k] = IF b.active THEN Flown(b) ELSE IF fire THEN Born(b, tanks[p]) ELSE b
        BY <2>2, <4>1, BulletSteps
      <4> QED
        BY <3>1, <3>4, <4>3, <4>4
    <3> QED
      BY <3>2, <3>5, <3>6
  <2>3. CASE UNCHANGED duelVars
    BY <2>3 DEF duelVars, Early
  <2> QED
    BY <2>1, <2>2, <2>3 DEF DuelNext
<1> QED
  BY <1>1, <1>2, DuelTypeCorrect, PTL DEF DuelSpec

\* Nobody is shot in those frames.
LEMMA EarlyQuiet == DuelTypeOK /\ Early /\ age <= HitFrames => shot = {}
<1> SUFFICES ASSUME DuelTypeOK, Early, age <= HitFrames,
                    NEW n \in Players, NEW p \in Players, NEW k \in Shots,
                    Hit(bullets[p][k], tanks[n])
             PROVE  FALSE
  BY DEF shot, Shot
<1>1. age \in Int /\ 0 <= age /\ age <= 6
  BY DuelAssumption DEF DuelTypeOK
<1>2. PICK s \in SpawnPlaces, z \in SpawnPlaces : s = Spawns[n] /\ z = Spawns[p]
  BY DuelAssumption
<1>3. PICK t \in TankStates, u \in TankStates, b \in BulletStates :
        t = tanks[n] /\ u = tanks[p] /\ b = bullets[p][k]
  BY DuelFields
<1>4. TankNear(s, age, t) /\ TankNear(z, age, u) /\ EarlyBullet(z, age, u, b)
  BY <1>1, <1>2, <1>3 DEF Early
<1>5. s /= z \/ t = u
  <2>1. n = p \/ (n = 1 /\ p = 2) \/ (n = 2 /\ p = 1)
    BY DEF Players
  <2> QED
    BY <1>2, <1>3, <2>1, DuelAssumption
<1> QED
  BY <1>1, <1>3, <1>4, <1>5, EarlyClear

\* The playfield is an arena: whatever the players do, in every maze and from
\* any two cells, the first hit of a round comes after HitFrames frames, which
\* is what the game's handshake relies on (bullet.sv:54-152,
\* TBCollision.sv:12-34, vga_text_avl_interface.sv:137-334).
THEOREM ArenaCorrect == DuelSpec => ImplementsArena
<1>1. DuelInit /\ DuelTypeOK /\ Early => Ring!Init
  <2> SUFFICES ASSUME DuelInit, DuelTypeOK, Early
               PROVE  Ring!Init
    OBVIOUS
  <2>1. age = 0 /\ HitFrames \in Nat
    BY DuelAssumption DEF DuelInit
  <2> QED
    BY <2>1, EarlyQuiet DEF Ring!Init
<1>2. /\ DuelTypeOK /\ Early /\ DuelTypeOK' /\ Early' /\ [DuelNext]_duelVars
      => [Ring!Next]_Ring!vars
  <2> SUFFICES ASSUME DuelTypeOK, Early, DuelTypeOK', Early', [DuelNext]_duelVars
               PROVE  [Ring!Next]_Ring!vars
    OBVIOUS
  <2>1. HitFrames \in Nat /\ age \in Nat /\ age' \in Nat
    BY DuelAssumption DEF DuelTypeOK
  <2>2. age' <= HitFrames => shot' = {}
    <3>1. (DuelTypeOK /\ Early /\ age <= HitFrames => shot = {})'
      BY EarlyQuiet, PTL
    <3> QED
      BY <3>1
  <2>3. shot' \in SUBSET Ring!Tanks
    BY DEF shot, Players, Ring!Tanks
  <2>4. CASE PutAllBack
    <3>1. age' = 0
      BY <2>4 DEF PutAllBack
    <3>2. Ring!Clear
      BY <2>1, <2>2, <3>1 DEF Ring!Clear
    <3> QED
      BY <3>2 DEF Ring!Next
  <2>5. ASSUME NEW h \in Inputs, Play(h)
        PROVE  Ring!Next
    <3>1. age' = age + 1
      BY <2>5 DEF Play
    <3>2. CASE age' <= HitFrames
      BY <2>1, <2>2, <3>1, <3>2 DEF Ring!Next, Ring!Play, Ring!Older
    <3>3. CASE age' > HitFrames
      BY <2>1, <2>3, <3>1, <3>3 DEF Ring!Next, Ring!Play, Ring!Older
    <3> QED
      BY <2>1, <3>2, <3>3
  <2>6. CASE UNCHANGED duelVars
    BY <2>6 DEF duelVars, Ring!vars, shot, Shot
  <2> QED
    BY <2>4, <2>5, <2>6 DEF DuelNext
<1> QED
  BY <1>1, <1>2, EarlyInvariant, PTL DEF DuelSpec, ImplementsArena, Ring!Spec

\* What a frame does to trigger, flags, activity and timers of a tank's
\* bullets does not depend on where they are.
LEMMA ChainStep ==
    ASSUME DuelTypeOK, NEW h, Play(h), NEW p \in Players
    PROVE  /\ triggers'[p] = (h[p] = "shoot")
           /\ keyed'[p] = (keyed[p] \/ h[p] = "shoot")
           /\ flags'[p] = [k \in Shots |->
                /\ triggers[p]
                /\ k > 1 => Lit(p)[k - 1] /\ Timers(p)[k - 1] % Wide > Gap]
           /\ Lit(p)' = [k \in Shots |-> IF Lit(p)[k] THEN Timers(p)[k] < Life ELSE flags[p][k]]
           /\ Timers(p)' = [k \in Shots |->
                IF ~Lit(p)[k] THEN Timers(p)[k]
                ELSE IF Timers(p)[k] < Life THEN Timers(p)[k] + 1 ELSE 0]
<1>1. triggers'[p] = (h[p] = "shoot") /\ keyed'[p] = (keyed[p] \/ h[p] = "shoot")
  BY Zenon DEF Play
<1>2. \A k \in Shots : Lit(p)[k] = bullets[p][k].active /\ Timers(p)[k] = bullets[p][k].timer
  BY Zenon DEF Lit, Timers
<1>3. flags'[p] = [k \in Shots |->
         /\ triggers[p]
         /\ k > 1 => Lit(p)[k - 1] /\ Timers(p)[k - 1] % Wide > Gap]
  <2>1. flags'[p] = [k \in Shots |-> create(p, k)]
    BY Zenon DEF Play
  <2>2. ASSUME NEW k \in Shots
        PROVE  create(p, k) = (/\ triggers[p]
                               /\ k > 1 => Lit(p)[k - 1] /\ Timers(p)[k - 1] % Wide > Gap)
    <3>1. CASE k > 1
      <4>1. k - 1 \in Shots
        BY <3>1 DEF Shots
      <4>2. /\ Lit(p)[k - 1] = bullets[p][k - 1].active
            /\ Timers(p)[k - 1] = bullets[p][k - 1].timer
        BY <1>2, <4>1
      <4> QED
        BY <3>1, <4>2, Zenon DEF create
    <3>2. CASE ~(k > 1)
      BY <3>2, Zenon DEF create
    <3> QED
      BY <3>1, <3>2
  <2> QED
    BY <2>1, <2>2, Zenon
<1>4. ASSUME NEW k \in Shots
      PROVE  /\ bullets'[p][k].active = IF Lit(p)[k] THEN Timers(p)[k] < Life ELSE flags[p][k]
             /\ bullets'[p][k].timer = IF ~Lit(p)[k] THEN Timers(p)[k]
                                       ELSE IF Timers(p)[k] < Life THEN Timers(p)[k] + 1 ELSE 0
  <2>1. PICK b \in BulletStates, t \in TankStates, fire \in BOOLEAN :
          b = bullets[p][k] /\ t = tanks[p] /\ fire = flags[p][k]
    BY DuelFields
  <2>2. Lit(p)[k] = b.active /\ Timers(p)[k] = b.timer
    BY <1>2, <2>1
  <2>3. bullets'[p][k] = IF b.active THEN Flown(b) ELSE IF fire THEN Born(b, t) ELSE b
    BY <2>1, BulletSteps
  <2>4. b.active \in BOOLEAN
    BY BulletFields
  <2>5. CASE b.active
    <3>1. /\ Flown(b).active = (b.timer < Life)
          /\ Flown(b).timer = IF b.timer < Life THEN b.timer + 1 ELSE 0
      BY Zenon DEF Flown
    <3> QED
      BY <2>2, <2>3, <2>5, <3>1, Zenon
  <2>6. CASE ~b.active /\ fire
    <3>1. Born(b, t).active = TRUE /\ Born(b, t).timer = b.timer
      BY Zenon DEF Born
    <3>2. flags[p][k] = TRUE
      BY <2>1, <2>6, Zenon
    <3> QED
      BY <2>2, <2>3, <2>6, <3>1, <3>2, Zenon
  <2>7. CASE ~b.active /\ ~fire
    <3>1. b.active = FALSE /\ flags[p][k] = FALSE
      BY <2>1, <2>4, <2>7, Zenon
    <3> QED
      BY <2>2, <2>3, <2>7, <3>1, Zenon
  <2> QED
    BY <2>5, <2>6, <2>7
<1>5. Lit(p)' = [k \in Shots |-> IF Lit(p)[k] THEN Timers(p)[k] < Life ELSE flags[p][k]]
  <2>1. Lit(p)' = [k \in Shots |-> bullets'[p][k].active]
    BY Zenon DEF Lit
  <2> QED
    BY <1>4, <2>1, Zenon
<1>6. Timers(p)' = [k \in Shots |->
        IF ~Lit(p)[k] THEN Timers(p)[k]
        ELSE IF Timers(p)[k] < Life THEN Timers(p)[k] + 1 ELSE 0]
  <2>1. Timers(p)' = [k \in Shots |-> bullets'[p][k].timer]
    BY Zenon DEF Timers
  <2> QED
    BY <1>4, <2>1, Zenon
<1> QED
  BY <1>1, <1>3, <1>5, <1>6, Zenon

\* And what putting everything back does.
LEMMA ChainCleared ==
    /\ \A p \in Players : /\ bullets = NoBullets =>
                                /\ Lit(p) = [k \in Shots |-> FALSE]
                                /\ Timers(p) = [k \in Shots |-> 0]
                          /\ bullets' = NoBullets =>
                                /\ Lit(p)' = [k \in Shots |-> FALSE]
                                /\ Timers(p)' = [k \in Shots |-> 0]
                          /\ Nobody[p] = FALSE
<1>1. \A p \in Players, k \in Shots : /\ NoBullets[p][k].active = FALSE
                                      /\ NoBullets[p][k].timer = 0
  BY Zenon DEF NoBullets, Idle
<1>2. \A p \in Players : Nobody[p] = FALSE
  BY Zenon DEF Nobody
<1> QED
  BY <1>1, <1>2, Zenon DEF Lit, Timers

\* The three bullets of each tank are the chain of BulletChain, so what is
\* proved there of spacing and leftover flags holds on the playfield
\* (bullet.sv:54-157, vga_text_avl_interface.sv:137-320).
THEOREM ChainCorrect == DuelSpec => ImplementsChain
<1>1. Chain1!Chain = Shots /\ Chain2!Chain = Shots
  BY DEF Chain1!Chain, Chain2!Chain, Shots
<1>2. 1 \in Players /\ 2 \in Players
  BY DEF Players
<1>3. DuelInit => Chain1!Init /\ Chain2!Init
  <2> SUFFICES ASSUME DuelInit
               PROVE  Chain1!Init /\ Chain2!Init
    OBVIOUS
  <2>1. \A p \in Players : flags[p] \in [Shots -> BOOLEAN]
    BY DuelAssumption DEF DuelInit
  <2>2. \A p \in Players : /\ triggers[p] = FALSE /\ keyed[p] = FALSE
                           /\ Lit(p) = [k \in Shots |-> FALSE]
                           /\ Timers(p) = [k \in Shots |-> 0]
    BY ChainCleared, Zenon DEF DuelInit
  <2>3. (age = 0) = TRUE
    BY Zenon DEF DuelInit
  <2> QED
    BY <1>1, <1>2, <2>1, <2>2, <2>3, Zenon DEF Chain1!Init, Chain2!Init
<1>4. /\ DuelTypeOK /\ [DuelNext]_duelVars
      => [Chain1!Next]_Chain1!vars /\ [Chain2!Next]_Chain2!vars
  <2> SUFFICES ASSUME DuelTypeOK, [DuelNext]_duelVars
               PROVE  [Chain1!Next]_Chain1!vars /\ [Chain2!Next]_Chain2!vars
    OBVIOUS
  <2>1. CASE PutAllBack
    <3>1. \A p \in Players : /\ triggers'[p] = FALSE /\ keyed'[p] = FALSE
                             /\ Lit(p)' = [k \in Shots |-> FALSE]
                             /\ Timers(p)' = [k \in Shots |-> 0]
                             /\ flags'[p] = flags[p]
      BY <2>1, ChainCleared, Zenon DEF PutAllBack
    <3>2. (age' = 0) = TRUE
      BY <2>1, Zenon DEF PutAllBack
    <3>3. Chain1!Reset /\ Chain2!Reset
      BY <1>1, <1>2, <3>1, <3>2, Zenon DEF Chain1!Reset, Chain1!Clear, Chain2!Reset, Chain2!Clear
    <3> QED
      BY <3>3, Zenon DEF Chain1!Next, Chain2!Next
  <2>2. ASSUME NEW h \in Inputs, Play(h)
        PROVE  Chain1!Next /\ Chain2!Next
    <3>1. age \in Nat /\ age' = age + 1
      BY <2>2 DEF Play, DuelTypeOK
    <3>2. (age' = 0) = FALSE
      BY <3>1
    <3>3. Chain1!LiveFrame(h[1] = "shoot")
      BY <1>1, <1>2, <2>2, <3>2, ChainStep, Zenon DEF Chain1!LiveFrame, Chain1!create
    <3>4. Chain2!LiveFrame(h[2] = "shoot")
      BY <1>1, <1>2, <2>2, <3>2, ChainStep, Zenon DEF Chain2!LiveFrame, Chain2!create
    <3>5. (h[1] = "shoot") \in BOOLEAN /\ (h[2] = "shoot") \in BOOLEAN
      OBVIOUS
    <3> QED
      BY <3>3, <3>4, <3>5, Zenon DEF Chain1!Next, Chain1!Frame, Chain2!Next, Chain2!Frame
  <2>3. CASE UNCHANGED duelVars
    BY <2>3, Zenon DEF duelVars, Lit, Timers, Chain1!vars, Chain1!bullets, Chain1!hist,
                       Chain2!vars, Chain2!bullets, Chain2!hist
  <2> QED
    BY <2>1, <2>2, <2>3, Zenon DEF DuelNext
<1> QED
  BY <1>3, <1>4, DuelTypeCorrect, PTL DEF DuelSpec, ImplementsChain, Chain1!Spec, Chain2!Spec

\* While a shot is under way its tank stands, then moves as its keys say; a
\* flag of the round before finds the tank standing at its start.
AllReady == \A p \in Players :
    /\ triggers[p] => tanks[p].mx = 0 /\ tanks[p].my = 0
    /\ \A k \in Shots : /\ flags[p][k] => Aimed(tanks[p])
                        /\ ~bullets[p][k].active => bullets[p][k].timer = 0

\* None of the six bullets is born inside the tank that fires it
\* (bullet.sv:69-108, vga_text_avl_interface.sv:137-320).
THEOREM MuzzlesCorrect == DuelSpec => []MuzzlesClear
<1> DEFINE IInv == AllReady /\ MuzzlesClear
<1>1. ASSUME NEW p \in Players, NEW k \in Shots
      PROVE  /\ PutBack[p].mx = 0 /\ PutBack[p].my = 0
             /\ NoBullets[p][k].active = FALSE /\ NoBullets[p][k].timer = 0
             /\ Nobody[p] = FALSE
  BY DEF PutBack, Spawned, NoBullets, Idle, Nobody
<1>2. DuelInit => IInv
  <2> SUFFICES ASSUME DuelInit, NEW p \in Players, NEW k \in Shots
               PROVE  /\ ~triggers[p] /\ Aimed(tanks[p])
                      /\ ~bullets[p][k].active /\ bullets[p][k].timer = 0
    BY DEF AllReady, MuzzlesClear, Shots
  <2> QED
    BY <1>1 DEF DuelInit, Aimed
<1>3. DuelTypeOK /\ IInv /\ [DuelNext]_duelVars => IInv'
  <2> SUFFICES ASSUME DuelTypeOK, IInv, [DuelNext]_duelVars
               PROVE  IInv'
    OBVIOUS
  <2>1. CASE PutAllBack
    <3> SUFFICES ASSUME NEW p \in Players, NEW k \in Shots
                 PROVE  /\ ~triggers'[p] /\ Aimed(tanks'[p])
                        /\ ~bullets'[p][k].active /\ bullets'[p][k].timer = 0
      BY DEF AllReady, MuzzlesClear, Shots
    <3> QED
      BY <1>1, <2>1 DEF PutAllBack, Aimed
  <2>2. ASSUME NEW h \in Inputs, Play(h)
        PROVE  IInv'
    <3> SUFFICES ASSUME NEW p \in Players, NEW k \in Shots
                 PROVE  /\ triggers'[p] => tanks'[p].mx = 0 /\ tanks'[p].my = 0
                        /\ flags'[p][k] => Aimed(tanks'[p])
                        /\ ~bullets'[p][k].active => bullets'[p][k].timer = 0
                        /\ bullets'[p][k].active /\ bullets'[p][k].timer = 0
                           => ~Hit(bullets'[p][k], tanks'[p])
      BY DEF AllReady, MuzzlesClear, Shots
    <3>1. PICK t \in TankStates, b \in BulletStates, fire \in BOOLEAN :
            t = tanks[p] /\ b = bullets[p][k] /\ fire = flags[p][k]
      BY DuelFields
    <3>2. tanks'[p] = Driven(t, h[p])
      BY <2>2, <3>1 DEF Play
    <3>3. triggers'[p] => tanks'[p].mx = 0 /\ tanks'[p].my = 0
      <4>1. triggers'[p] = (h[p] = "shoot")
        BY <2>2, ChainStep
      <4> QED
        BY <3>1, <3>2, <4>1, Stands
    <3>4. flags'[p][k] => Aimed(tanks'[p])
      <4>1. flags'[p][k] => triggers[p]
        BY <2>2, ChainStep
      <4>2. triggers[p] => t.mx = 0 /\ t.my = 0
        BY <3>1 DEF AllReady
      <4> QED
        BY <3>1, <3>2, <4>1, <4>2, AimedNext
    <3>5. bullets'[p][k] = IF b.active THEN Flown(b) ELSE IF fire THEN Born(b, t) ELSE b
      BY <2>2, <3>1, BulletSteps
    <3>6. fire => Aimed(t)
      BY <3>1 DEF AllReady
    <3>7. ~b.active => b.timer = 0
      BY <3>1 DEF AllReady
    <3>8. CASE b.active
      <4>1. ~Flown(b).active => Flown(b).timer = 0
        BY FlownType
      <4>2. Flown(b).active => Flown(b).timer /= 0
        BY FlownLater
      <4> QED
        BY <3>3, <3>4, <3>5, <3>8, <4>1, <4>2
    <3>9. CASE ~b.active /\ fire
      <4>1. Born(b, t).active /\ ~Hit(Born(b, t), Driven(t, h[p]))
        BY <3>6, <3>9, BornType, BornClear
      <4> QED
        BY <3>2, <3>3, <3>4, <3>5, <3>9, <4>1
    <3>10. CASE ~b.active /\ ~fire
      BY <3>3, <3>4, <3>5, <3>7, <3>10
    <3> QED
      BY <3>8, <3>9, <3>10
  <2>3. CASE UNCHANGED duelVars
    BY <2>3 DEF duelVars, AllReady, MuzzlesClear
  <2> QED
    BY <2>1, <2>2, <2>3 DEF DuelNext
<1> QED
  BY <1>2, <1>3, DuelTypeCorrect, PTL DEF DuelSpec
-----------------------------------------------------------------------------
(* The wall pixel that the registers hold is the one the flags are from.   *)

\* The pixels of the screen in a pixel of the bitmap, as far as they lie
\* between two bounds.
LEMMA FirstIn ==
    ASSUME NEW c \in Int, NEW lo \in Int, NEW hi \in Int,
           lo \div 4 <= c, c <= hi \div 4, lo <= hi
    PROVE  \E x \in Int : lo <= x /\ x <= hi /\ x \div 4 = c
<1>1. CASE 4 * c >= lo
  <2>1. PICK x \in Int : x = 4 * c
    OBVIOUS
  <2>2. lo <= x /\ x <= hi /\ x \div 4 = c
    BY <1>1, <2>1
  <2> QED
    BY <2>2
<1>2. CASE 4 * c < lo
  <2>1. lo \div 4 = c
    BY <1>2
  <2> QED
    BY <2>1
<1> QED
  BY <1>1, <1>2

\* What is under the object on the screen and in the bitmap.
LEMMA UnderBoth ==
    ASSUME place \in Nat \X Nat, objectS \in Nat, Scan!Whole
    PROVE  /\ \A q \in Scan!Touched : \E u, v \in Int :
                /\ q = <<u, v>>
                /\ place[1] - objectS <= u /\ u <= place[1] + objectS
                /\ place[2] - objectS <= v /\ v <= place[2] + objectS
                /\ <<v \div 4, u \div 4>> \in Touched(object, objectS)
           /\ \A u, v \in Int :
                /\ place[1] - objectS <= u /\ u <= place[1] + objectS
                /\ place[2] - objectS <= v /\ v <= place[2] + objectS
                /\ <<v \div 4, u \div 4>> \in Touched(object, objectS)
                => <<u, v>> \in Scan!Touched
<1>0. PICK x \in Nat, y \in Nat, s \in Nat :
        place = <<x, y>> /\ objectS = s /\ x >= s /\ y >= s
  BY DEF Scan!Whole
<1>1. object.x = x /\ object.y = y
  BY <1>0 DEF object
<1>2. Under(object, objectS) = (((y - s) \div 4)..((y + s) \div 4)) \X (((x - s) \div 4)..((x + s) \div 4))
  BY <1>0, <1>1 DEF Under
<1>3. PICK rows \in Int, cols \in Int : rows = Screen!Rows /\ cols = Screen!Cols
  BY Sizes
<1>4. Scan!Box = ((x - s)..(x + s)) \X ((y - s)..(y + s))
  BY <1>0 DEF Scan!Box
<1>5. ASSUME NEW q \in Scan!Touched
      PROVE  \E u, v \in Int :
                /\ q = <<u, v>> /\ x - s <= u /\ u <= x + s /\ y - s <= v /\ v <= y + s
                /\ <<v \div 4, u \div 4>> \in Touched(object, objectS)
  <2>1. q \in Drawn /\ q \in ((x - s)..(x + s)) \X ((y - s)..(y + s))
    BY <1>4, <1>5 DEF Scan!Touched
  <2>2. PICK u \in Int, v \in Int : /\ q = <<u, v>>
                                    /\ x - s <= u /\ u <= x + s /\ y - s <= v /\ v <= y + s
    BY <2>1
  <2>3. /\ 0 <= u /\ u <= 4 * cols - 1 /\ 0 <= v /\ v <= 4 * rows - 1
        /\ Screen!Wall(<<v \div 4, u \div 4>>)
    BY <1>3, <2>1, <2>2 DEF Drawn
  <2>4. /\ (y - s) \div 4 <= v \div 4 /\ v \div 4 <= (y + s) \div 4
        /\ (x - s) \div 4 <= u \div 4 /\ u \div 4 <= (x + s) \div 4
        /\ 0 <= u \div 4 /\ u \div 4 <= cols - 1 /\ 0 <= v \div 4 /\ v \div 4 <= rows - 1
        /\ u \div 4 \in Int /\ v \div 4 \in Int
    BY <2>2, <2>3
  <2>5. <<v \div 4, u \div 4>> \in Under(object, objectS) \cap Screen!Pixels
    BY <1>2, <1>3, <2>4 DEF Screen!Pixels
  <2> QED
    BY <2>2, <2>3, <2>5 DEF Touched
<1>6. ASSUME NEW u \in Int, NEW v \in Int,
             x - s <= u, u <= x + s, y - s <= v, v <= y + s,
             <<v \div 4, u \div 4>> \in Touched(object, objectS)
      PROVE  <<u, v>> \in Scan!Touched
  <2>1. <<v \div 4, u \div 4>> \in Screen!Pixels /\ Screen!Wall(<<v \div 4, u \div 4>>)
    BY <1>6 DEF Touched
  <2>2. 0 <= u \div 4 /\ u \div 4 <= cols - 1 /\ 0 <= v \div 4 /\ v \div 4 <= rows - 1
    BY <1>3, <2>1 DEF Screen!Pixels
  <2>3. 0 <= u /\ u <= 4 * cols - 1 /\ 0 <= v /\ v <= 4 * rows - 1
    BY <1>3, <2>2
  <2>4. <<u, v>> \in Drawn
    BY <1>3, <2>1, <2>3 DEF Drawn
  <2> QED
    BY <1>4, <1>6, <2>4 DEF Scan!Touched
<1> QED
  BY <1>0, <1>5, <1>6

\* A pixel of the bitmap under the object has pixels of the screen under it,
\* in a given row of them if that row crosses it.
LEMMA TouchedBelow ==
    ASSUME place \in Nat \X Nat, objectS \in Nat, Scan!Whole,
           NEW r \in Int, NEW c \in Int, <<r, c>> \in Touched(object, objectS)
    PROVE  /\ \E u, v \in Int : <<u, v>> \in Scan!Touched /\ u \div 4 = c /\ v \div 4 = r
           /\ \A v \in Int : v \div 4 = r /\ place[2] - objectS <= v /\ v <= place[2] + objectS =>
                \E u \in Int : <<u, v>> \in Scan!Touched /\ u \div 4 = c
<1>0. PICK x \in Nat, y \in Nat, s \in Nat :
        place = <<x, y>> /\ objectS = s /\ x >= s /\ y >= s
  BY DEF Scan!Whole
<1>1. object.x = x /\ object.y = y
  BY <1>0 DEF object
<1>2. /\ (y - s) \div 4 <= r /\ r <= (y + s) \div 4
      /\ (x - s) \div 4 <= c /\ c <= (x + s) \div 4
  <2>1. <<r, c>> \in Under(object, objectS)
    BY DEF Touched
  <2>2. <<r, c>> \in (((y - s) \div 4)..((y + s) \div 4)) \X (((x - s) \div 4)..((x + s) \div 4))
    BY <1>0, <1>1, <2>1 DEF Under
  <2> QED
    BY <2>2
<1>3. PICK lx \in Int, hx \in Int, ly \in Int, hy \in Int :
        lx = x - s /\ hx = x + s /\ ly = y - s /\ hy = y + s /\ lx <= hx /\ ly <= hy
  BY <1>0
<1>4. PICK u \in Int : lx <= u /\ u <= hx /\ u \div 4 = c
  BY <1>2, <1>3, FirstIn
<1>5. PICK v \in Int : ly <= v /\ v <= hy /\ v \div 4 = r
  BY <1>2, <1>3, FirstIn
<1> QED
  BY <1>0, <1>3, <1>4, <1>5, UnderBoth

\* The pixel drawn last on the screen is in the pixel drawn last in the bitmap:
\* what WallScan hands over is what Ballistics works with, for any maze and
\* place (collisionWall.sv:9-113, vga_text_avl_interface.sv:360-392).
THEOREM SameContactCorrect ==
    ASSUME place \in Nat \X Nat, objectS \in Nat
    PROVE  SameContact
<1> SUFFICES ASSUME Scan!Whole
             PROVE  /\ Scan!Touched = {} <=> Touched(object, objectS) = {}
                    /\ \A q \in Scan!Touched :
                          (\A r \in Scan!Touched : ~Scan!Later(q, r))
                          => Contact(object, objectS) = <<q[2] \div 4, q[1] \div 4>>
  BY DEF SameContact
<1>1. ASSUME NEW p \in Touched(object, objectS)
      PROVE  \E r, c \in Int : p = <<r, c>>
  BY Sizes DEF Touched, Screen!Pixels
<1>2. Scan!Touched = {} <=> Touched(object, objectS) = {}
  BY <1>1, UnderBoth, TouchedBelow
<1>3. ASSUME NEW q \in Scan!Touched, \A r \in Scan!Touched : ~Scan!Later(q, r)
      PROVE  Contact(object, objectS) = <<q[2] \div 4, q[1] \div 4>>
  <2>1. PICK u \in Int, v \in Int :
          /\ q = <<u, v>> /\ place[2] - objectS <= v /\ v <= place[2] + objectS
          /\ <<v \div 4, u \div 4>> \in Touched(object, objectS)
    BY <1>3, UnderBoth
  <2>2. \A a, b \in Int : <<a, b>> \in Scan!Touched => ~(b > v \/ (b = v /\ a > u))
    BY <1>3, <2>1 DEF Scan!Later
  <2>3. PICK m \in Int, n \in Int : m = v \div 4 /\ n = u \div 4
    OBVIOUS
  <2>4. ASSUME NEW r \in Int, NEW c \in Int, <<r, c>> \in Touched(object, objectS)
        PROVE  r < m \/ (r = m /\ c <= n)
    <3>1. CASE r > m
      <4>1. PICK a \in Int, b \in Int : <<a, b>> \in Scan!Touched /\ a \div 4 = c /\ b \div 4 = r
        BY <2>4, TouchedBelow
      <4>2. b > v
        BY <2>3, <3>1, <4>1
      <4> QED
        BY <2>2, <4>1, <4>2
    <3>2. CASE r = m /\ c > n
      <4>1. PICK a \in Int : <<a, v>> \in Scan!Touched /\ a \div 4 = c
        BY <2>1, <2>3, <2>4, <3>2, TouchedBelow
      <4>2. a > u
        BY <2>3, <3>2, <4>1
      <4> QED
        BY <2>2, <4>1, <4>2
    <3> QED
      BY <3>1, <3>2
  <2>5. \A p \in Touched(object, objectS) : p[1] < m \/ (p[1] = m /\ p[2] <= n)
    BY <1>1, <2>4
  <2>6. <<m, n>> \in Touched(object, objectS)
    BY <2>1, <2>3
  <2>7. ASSUME NEW p \in Touched(object, objectS),
               \A z \in Touched(object, objectS) : z[1] < p[1] \/ (z[1] = p[1] /\ z[2] <= p[2])
        PROVE  p = <<m, n>>
    <3>1. PICK r \in Int, c \in Int : p = <<r, c>>
      BY <1>1
    <3>2. m < r \/ (m = r /\ n <= c)
      BY <2>6, <2>7, <3>1
    <3>3. r < m \/ (r = m /\ c <= n)
      BY <2>4, <3>1
    <3> QED
      BY <3>1, <3>2, <3>3
  <2>8. Contact(object, objectS) = <<m, n>>
    <3>1. \A z \in Touched(object, objectS) :
            z[1] < <<m, n>>[1] \/ (z[1] = <<m, n>>[1] /\ z[2] <= <<m, n>>[2])
      BY <2>5
    <3> QED
      BY <2>6, <2>7, <3>1, Zenon DEF Contact
  <2> QED
    BY <2>1, <2>3, <2>8
<1> QED
  BY <1>2, <1>3
=============================================================================
