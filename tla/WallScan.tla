------------------------------ MODULE WallScan ------------------------------
(***************************************************************************)
(* When tanks and bullets learn of a wall.  vga_controller moves the beam  *)
(* and raises vs once per frame, which is the clock of tanks and bullets.  *)
(* Each of them has a collisionWall that watches the beam: the last wall   *)
(* pixel drawn on top of the object is kept in a first register, the start *)
(* of the sync pulse copies it into a second one, and the end of the pulse *)
(* moves the object, which reads the second register.                      *)
(* Here is one object; it may move anywhere on a step.  A register holds   *)
(* the pixel whose neighbours the code keeps, or None.                     *)
(***************************************************************************)
EXTENDS Integers, FiniteSets

CONSTANTS
    Width, Height,      \* the picture (640 x 480)
    hpixels, vlines,    \* last pixel of a line, last line (799, 524)
    SyncLine,           \* vs falls on the line before this (490), for 2 lines
    objectS,            \* half the size of the object (1 or 10)
    MaxWalls            \* bound: wall pixels in the picture

ASSUME ScanAssumption ==
    /\ Width \in Nat /\ Height \in Nat /\ objectS \in 0..511 /\ MaxWalls \in Nat
    /\ hpixels \in Width..1023 /\ vlines \in 0..1023 /\ SyncLine \in Nat
    /\ Height < SyncLine /\ SyncLine + 2 <= vlines

VARIABLES
    hc, vc,         \* the beam
    vs,
    seen1, seen2,   \* the registers of collisionWall
    pos,            \* objectX, objectY
    walls,          \* the wall pixels
    \* history
    ticks,          \* steps of the object in this frame
    born            \* this is the first frame since Reset

vars == <<hc, vc, vs, seen1, seen2, pos, walls, ticks, born>>

None == <<>>
Picture == (0..Width - 1) \X (0..Height - 1)
\* What is read while the picture is blank has no meaning: all wall, here.
Blank == ((0..hpixels) \X (0..vlines)) \ Picture
\* The border rules turn objects round before they stick out to the right or
\* below.
Positions == (0..Width - 1 - objectS) \X (0..Height - 1 - objectS)

TypeOK ==
    /\ hc \in 0..hpixels /\ vc \in 0..vlines /\ vs \in BOOLEAN
    /\ seen1 \in walls \cup {None} /\ seen2 \in walls \cup {None}
    /\ pos \in Positions
    /\ walls \subseteq Picture
    /\ ticks \in 0..2 /\ born \in BOOLEAN
-----------------------------------------------------------------------------
(* The object under the beam.  Differences are taken in 10 bits.           *)

Minus10(a, b) == (a - b) % 1024

objectOn ==
    /\ hc >= Minus10(pos[1], objectS) /\ hc <= pos[1] + objectS
    /\ vc >= Minus10(pos[2], objectS) /\ vc <= pos[2] + objectS

Wall_On == objectOn /\ <<hc, vc>> \in walls \cup Blank

\* MUTANT: the first register is never cleared.
Sample_NoClear == IF Wall_On THEN <<hc, vc>> ELSE seen1

\* What a pixel clock leaves in the first register.
Sample == IF hc = 0 /\ vc = 0 THEN None
          ELSE IF Wall_On THEN <<hc, vc>> ELSE seen1

\* MUTANT: the two lines of the pulse are not next to each other.
SyncPulse_Apart == vc + 1 \in {SyncLine, SyncLine + 2}

\* vs is low on these lines; it is registered, a pixel late.
SyncPulse == vc + 1 \in {SyncLine, SyncLine + 1}

\* The falling edge of vs copies the first register, unless at the origin.
Latch == IF vs /\ ~vs'
         THEN IF hc' = 0 /\ vc' = 0 THEN None ELSE seen1'
         ELSE seen2

Tick == ~vs /\ vs'

\* No maze has a wall in the pixel at the origin, which is never looked at.
Init ==
    /\ walls \in {w \in SUBSET (Picture \ {<<0, 0>>}) : Cardinality(w) <= MaxWalls}
    /\ hc = 0 /\ vc = 0 /\ vs = FALSE
    /\ seen1 = None /\ seen2 = None
    /\ pos \in Positions
    /\ ticks = 0 /\ born = TRUE
-----------------------------------------------------------------------------
LastPixel == hc = hpixels /\ vc = vlines

\* One pixel clock.
Beam ==
    /\ hc' = IF hc = hpixels THEN 0 ELSE hc + 1
    /\ vc' = IF hc < hpixels THEN vc ELSE IF vc = vlines THEN 0 ELSE vc + 1
    /\ vs' = ~SyncPulse
    /\ seen1' = Sample
    /\ seen2' = Latch
    /\ born' = (born /\ ~LastPixel)
    /\ UNCHANGED walls

Pixel ==
    /\ Beam /\ ~Tick
    /\ ticks' = IF LastPixel THEN 0 ELSE ticks
    /\ UNCHANGED pos

\* The rising edge of vs moves the object, with the flags of the second
\* register as they are.
Step ==
    /\ Beam /\ Tick
    /\ ticks' = ticks + 1
    /\ pos' \in Positions

\* The button, at any time; vs is down as long as it is held.
Reset ==
    /\ hc' = 0 /\ vc' = 0 /\ vs' = FALSE
    /\ seen1' = None /\ seen2' = None
    /\ pos' \in Positions
    /\ ticks' = 0 /\ born' = TRUE
    /\ UNCHANGED walls

Next == Pixel \/ Step \/ Reset
Spec == Init /\ [][Next]_vars
-----------------------------------------------------------------------------
(* Properties.                                                             *)

Box == ((pos[1] - objectS)..(pos[1] + objectS)) \X ((pos[2] - objectS)..(pos[2] + objectS))
Touched == walls \cap Box
\* q is drawn after p.
Later(p, q) == q[2] > p[2] \/ (q[2] = p[2] /\ q[1] > p[1])

\* An object that sticks out to the left or above is left to the border rules.
Whole == pos[1] >= objectS /\ pos[2] >= objectS

\* The first step after Reset: vs rises with the first pixel, before any
\* picture has been drawn.
Blind == born /\ ticks = 0

\* When an object moves it knows whether it touches a wall where it is now, in
\* the maze as it is now, and if so, the wall pixel drawn last: the registers
\* are neither a picture old nor a mixture of two positions
\* (collisionWall.sv:36-113, VGA_controller.sv:110-118).
ContactFresh ==
    [][Step => IF Blind \/ ~Whole \/ Touched = {} THEN seen2 = None
               ELSE seen2 \in Touched /\ \A q \in Touched : ~Later(seen2, q)]_vars

\* Every frame moves the object once, the first one twice: no frame clock is
\* lost or doubled by Reset in the middle of a pulse (VGA_controller.sv:66-118).
OneStepPerFrame == [][Pixel /\ LastPixel => ticks = IF born THEN 2 ELSE 1]_vars
=============================================================================
