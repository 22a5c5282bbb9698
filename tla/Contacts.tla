------------------------------ MODULE Contacts ------------------------------
(***************************************************************************)
(* Where WallScan and Ballistics meet.  The beam of WallScan draws pixels  *)
(* of the screen, each pixel of the bitmap as a square of 4 by 4; the wall *)
(* pixel it hands over when an object moves is taken by Ballistics from    *)
(* the bitmap.  Here is one object that may be anywhere.                   *)
(***************************************************************************)
EXTENDS Ballistics

CONSTANT objectS        \* half the size of the object (1 or 10)

VARIABLE place          \* objectX, objectY

\* The walls as the beam meets them: currentMaze, looked up by DrawX[9:2] and
\* DrawY[9:2].
Drawn == {q \in (0..4 * Screen!Cols - 1) \X (0..4 * Screen!Rows - 1) :
              Screen!Wall(<<q[2] \div 4, q[1] \div 4>>)}

Scan == INSTANCE WallScan WITH
    Width <- 4 * Screen!Cols, Height <- 4 * Screen!Rows, pos <- place, walls <- Drawn,
    hpixels <- 799, vlines <- 524, SyncLine <- 490, MaxWalls <- 0,
    hc <- 0, vc <- 0, vs <- FALSE, seen1 <- <<>>, seen2 <- <<>>, ticks <- 0, born <- FALSE

object == [x |-> place[1], y |-> place[2]]

\* The pixel drawn last of those under the object, which ContactFresh says
\* collisionWall holds when the object moves, lies in the pixel of the bitmap
\* that Ballistics takes its flags from; and none is under it on the screen
\* when none is in the bitmap (collisionWall.sv:9-113,
\* vga_text_avl_interface.sv:360-392).
SameContact ==
    LET drawn == Scan!Touched
    IN  Scan!Whole =>
            /\ drawn = {} <=> Touched(object, objectS) = {}
            /\ \A q \in drawn : (\A r \in drawn : ~Scan!Later(q, r))
                  => Contact(object, objectS) = <<q[2] \div 4, q[1] \div 4>>
=============================================================================
