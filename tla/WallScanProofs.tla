--------------------------- MODULE WallScanProofs ---------------------------
(***************************************************************************)
(* Proof that an object which moves knows the wall it touches, for every   *)
(* picture, maze and object: with any number of wall pixels, wherever the  *)
(* object is and however it has moved before.                              *)
(***************************************************************************)
EXTENDS WallScan, TLAPS

Origin == hc = 0 /\ vc = 0

\* The beam is where vs, a pixel late, is low, ...
Low == \/ hc > 0 /\ vc + 1 \in {SyncLine, SyncLine + 1}
       \/ hc = 0 /\ vc \in {SyncLine, SyncLine + 1}
\* ... or past the end of that.
Past == vc > SyncLine + 1 \/ (vc = SyncLine + 1 /\ hc > 0)

Contact == IF Whole THEN Touched ELSE {}
\* The part of it that the beam has come across in this picture.
Drawn == {q \in Contact : q[2] < vc \/ (q[2] = vc /\ q[1] < hc)}

\* The register holds the last pixel of S.
Latest(seen, S) == IF S = {} THEN seen = None
                   ELSE seen \in S /\ \A q \in S : ~Later(seen, q)

\* vs follows the beam, but for the moment after Reset.
SyncInv == vs <=> ~(Low \/ (born /\ Origin))

\* vs has risen once after Reset, and once at the end of the pulse.
TicksInv == ticks = (IF born /\ ~Origin THEN 1 ELSE 0) + (IF Past THEN 1 ELSE 0)

\* The first register keeps up with the beam until the object moves; then it
\* may hold a pixel of a position that has been left.
FirstInv == ~Origin /\ ~Past => Latest(seen1, Drawn)

\* The second register is right for the length of the pulse.
SecondInv == /\ Low => Latest(seen2, Contact)
             /\ born /\ Origin => seen2 = None

IInv == TypeOK /\ <<0, 0>> \notin walls /\ SyncInv /\ TicksInv /\ FirstInv /\ SecondInv
-----------------------------------------------------------------------------
(* The beam.                                                               *)

BeamOK == /\ hpixels \in Nat \ {0} /\ vlines \in Nat /\ SyncLine \in Nat
          /\ 2 <= SyncLine /\ SyncLine + 2 <= vlines /\ Height < SyncLine /\ Height \in Nat
          /\ hc \in 0..hpixels /\ vc \in 0..vlines

\* There is an object, so the picture is not empty.
LEMMA BeamBounds == TypeOK => BeamOK
<1> SUFFICES ASSUME TypeOK PROVE BeamOK
  OBVIOUS
<1>1. pos[1] \in 0..Width - 1 - objectS /\ pos[2] \in 0..Height - 1 - objectS
  BY DEF TypeOK, Positions
<1> QED
  BY <1>1, ScanAssumption DEF TypeOK, BeamOK

\* Where the beam goes.
LEMMA BeamMoves ==
    ASSUME BeamOK, Beam
    PROVE  /\ Origin' <=> LastPixel
           /\ LastPixel => Past
           /\ Low' <=> SyncPulse
           /\ ~LastPixel => (Past' <=> Past \/ (hc = 0 /\ vc = SyncLine + 1))
           /\ Origin => ~Low /\ ~Past /\ hc' = 1 /\ vc' = 0
BY DEF BeamOK, Beam, Origin, LastPixel, Past, Low, SyncPulse

\* vs rises with the first pixel after Reset and at the end of the pulse.
LEMMA Rises ==
    ASSUME BeamOK, Beam, SyncInv
    PROVE  Tick <=> (born /\ Origin) \/ (hc = 0 /\ vc = SyncLine + 1)
<1>1. Low /\ ~SyncPulse <=> hc = 0 /\ vc = SyncLine + 1
  BY DEF BeamOK, Low, SyncPulse
<1>2. Origin => ~SyncPulse
  BY DEF BeamOK, Origin, SyncPulse
<1> QED
  BY <1>1, <1>2, Zenon DEF Tick, Beam, SyncInv

\* vs falls in the line before the pulse, when the picture is complete.
LEMMA Falls ==
    ASSUME BeamOK, Beam, SyncInv
    PROVE  ~Low /\ SyncPulse <=> vs /\ ~vs'
<1>1. Origin => ~SyncPulse
  BY DEF BeamOK, Origin, SyncPulse
<1> QED
  BY <1>1, Zenon DEF Beam, SyncInv
-----------------------------------------------------------------------------
(* The object under the beam.                                              *)

\* The difference of two coordinates, in 10 bits.
LEMMA Wrapped ==
    ASSUME NEW a \in 0..1023, NEW b \in 0..511
    PROVE  Minus10(a, b) = IF a < b THEN a - b + 1024 ELSE a - b
BY Z3 DEF Minus10

\* The comparators see the object where it is, and an object that sticks out
\* to the left or above not at all; nothing is taken from outside the picture.
LEMMA WallOnContact == TypeOK => (Wall_On <=> <<hc, vc>> \in Contact)
<1> SUFFICES ASSUME TypeOK PROVE Wall_On <=> <<hc, vc>> \in Contact
  OBVIOUS
<1> USE ScanAssumption
<1>1. pos[1] \in 0..Width - 1 - objectS /\ pos[2] \in 0..Height - 1 - objectS
  BY DEF TypeOK, Positions
<1>2. hc \in 0..hpixels /\ vc \in 0..vlines
  BY DEF TypeOK
<1>0. Width \in Nat /\ Width <= 1023 /\ Height \in Nat /\ Height <= 1023 /\ objectS \in 0..511
  OBVIOUS
<1>9. hpixels \in 0..1023 /\ vlines \in 0..1023
  OBVIOUS
<1> HIDE ScanAssumption
<1>3. pos[1] \in 0..1023
  BY <1>0, <1>1
<1>8. pos[2] \in 0..1023
  BY <1>0, <1>1
<1>4. /\ Minus10(pos[1], objectS) = IF pos[1] < objectS THEN pos[1] - objectS + 1024
                                    ELSE pos[1] - objectS
      /\ Minus10(pos[2], objectS) = IF pos[2] < objectS THEN pos[2] - objectS + 1024
                                    ELSE pos[2] - objectS
  BY <1>0, <1>3, <1>8, Wrapped
<1>5. objectOn <=> Whole /\ <<hc, vc>> \in Box
  BY <1>0, <1>9, <1>1, <1>2, <1>4 DEF objectOn, Whole, Box
<1>6. Whole /\ <<hc, vc>> \in Box => <<hc, vc>> \in Picture
  BY <1>0, <1>9, <1>1, <1>2 DEF Box, Whole, Picture
<1>7. <<hc, vc>> \in Touched <=> <<hc, vc>> \in walls /\ <<hc, vc>> \in Box
  BY DEF Touched
<1> QED
  BY <1>5, <1>6, <1>7 DEF Wall_On, Contact, Blank

\* Wall pixels lie in the picture, and not at its origin.
LEMMA WallInPicture ==
    ASSUME IInv, NEW q \in walls
    PROVE  /\ q = <<q[1], q[2]>> /\ q[1] \in 0..Width - 1 /\ q[2] \in 0..Height - 1
           /\ ~(q[1] = 0 /\ q[2] = 0)
<1>1. q \in Picture /\ q /= <<0, 0>>
  BY DEF IInv, TypeOK
<1>2. q = <<q[1], q[2]>> /\ q[1] \in 0..Width - 1 /\ q[2] \in 0..Height - 1
  BY <1>1 DEF Picture
<1> QED
  BY <1>1, <1>2

\* No contact at the origin, ...
LEMMA DrawnStarts ==
    ASSUME IInv, Beam, Origin
    PROVE  Drawn' = {}
<1>1. hc' = 1 /\ vc' = 0
  BY BeamBounds, BeamMoves DEF IInv
<1>2. ASSUME NEW q \in Drawn' PROVE FALSE
  <2>1. q \in walls /\ (q[2] < vc' \/ (q[2] = vc' /\ q[1] < hc'))
    BY <1>2 DEF Drawn, Contact, Touched, Beam
  <2>2. q[1] \in Nat /\ q[2] \in Nat /\ ~(q[1] = 0 /\ q[2] = 0)
    BY <2>1, WallInPicture, ScanAssumption
  <2> QED
    BY <1>1, <2>1, <2>2
<1> QED
  BY <1>2

\* ... then each pixel of contact is added as it is drawn.
LEMMA DrawnGrows ==
    ASSUME IInv, Beam, pos' = pos, ~LastPixel, NEW q
    PROVE  q \in Drawn' <=> q \in Drawn \/ (Wall_On /\ q = <<hc, vc>>)
<1>1. Contact' = Contact
  BY DEF Contact, Touched, Whole, Box, Beam
<1>2. CASE q \notin Contact
  BY <1>1, <1>2, WallOnContact DEF Drawn, IInv
<1>3. CASE q \in Contact
  <2>1. q \in walls
    BY <1>3 DEF Contact, Touched
  <2>2. /\ q = <<q[1], q[2]>> /\ q[1] \in Nat /\ q[2] \in Nat
        /\ q[1] <= hpixels
    BY <2>1, WallInPicture, ScanAssumption
  <2>3. BeamOK
    BY BeamBounds DEF IInv
  <2>4. /\ vc' = IF hc < hpixels THEN vc ELSE vc + 1
        /\ hc' = IF hc < hpixels THEN hc + 1 ELSE 0
    BY <2>3 DEF Beam, LastPixel, BeamOK
  <2>5. (q[2] < vc' \/ (q[2] = vc' /\ q[1] < hc'))
          <=> (q[2] < vc \/ (q[2] = vc /\ q[1] < hc)) \/ (q[1] = hc /\ q[2] = vc)
    BY <2>2, <2>3, <2>4 DEF BeamOK
  <2>6. q = <<hc, vc>> <=> q[1] = hc /\ q[2] = vc
    BY <2>2
  <2>7. q = <<hc, vc>> => Wall_On
    BY <1>3, WallOnContact DEF IInv
  <2> QED
    BY <1>1, <1>3, <2>5, <2>6, <2>7, Zenon DEF Drawn
<1> QED
  BY <1>2, <1>3
-----------------------------------------------------------------------------
(* The invariant.                                                          *)

\* The invariant holds at the start.
LEMMA InitInv == Init => IInv
<1> SUFFICES ASSUME Init PROVE IInv
  OBVIOUS
<1>1. TypeOK /\ <<0, 0>> \notin walls
  <2>1. hc \in 0..hpixels /\ vc \in 0..vlines
    <3>1. 0 \in 0..hpixels /\ 0 \in 0..vlines
      BY ScanAssumption
    <3> QED
      BY <3>1 DEF Init
  <2>2. walls \subseteq Picture /\ <<0, 0>> \notin walls
    BY DEF Init
  <2>3. vs \in BOOLEAN /\ born \in BOOLEAN
    BY DEF Init
  <2>4. seen1 \in walls \cup {None} /\ seen2 \in walls \cup {None} /\ pos \in Positions
    BY Zenon DEF Init
  <2>5. ticks \in 0..2
    BY DEF Init
  <2> QED
    BY <2>1, <2>2, <2>3, <2>4, <2>5 DEF TypeOK
<1>2. BeamOK
  BY <1>1, BeamBounds
<1>3. Origin /\ ~Low /\ ~Past
  BY <1>2 DEF Init, Origin, Low, Past, BeamOK
<1> QED
  BY <1>1, <1>3 DEF Init, IInv, SyncInv, TicksInv, FirstInv, SecondInv

\* Types; vs rises at most twice in a frame.
LEMMA TypeInv == IInv /\ Next => TypeOK' /\ <<0, 0>> \notin walls'
<1> SUFFICES ASSUME IInv, Next PROVE TypeOK' /\ <<0, 0>> \notin walls'
  OBVIOUS
<1>1. BeamOK
  BY BeamBounds DEF IInv
<1>2. walls' = walls
  BY DEF Next, Pixel, Step, Reset, Beam
<1>3. pos' \in Positions
  BY DEF IInv, TypeOK, Next, Pixel, Step, Reset
<1>4. hc' \in 0..hpixels /\ vc' \in 0..vlines
  BY <1>1 DEF BeamOK, Next, Pixel, Step, Reset, Beam
<1>5. vs' \in BOOLEAN /\ born' \in BOOLEAN
  BY DEF IInv, TypeOK, Next, Pixel, Step, Reset, Beam
<1>6. Sample \in walls \cup {None}
  BY WallOnContact DEF IInv, TypeOK, Sample, Contact, Touched
<1>7. seen1' \in walls \cup {None}
  BY <1>6 DEF Next, Pixel, Step, Reset, Beam
<1>8. seen2' \in walls \cup {None}
  BY <1>7 DEF IInv, TypeOK, Next, Pixel, Step, Reset, Beam, Latch
<1>9. ticks' \in 0..2
  <2>1. CASE Pixel
    BY <2>1 DEF IInv, TypeOK, Pixel
  <2>2. CASE Step
    <3>1. Beam /\ Tick /\ ticks' = ticks + 1
      BY <2>2 DEF Step
    <3>2. (born /\ Origin) \/ (hc = 0 /\ vc = SyncLine + 1)
      BY <1>1, <3>1, Rises DEF IInv
    <3>3. ~Past
      BY <1>1, <3>2 DEF BeamOK, Past, Origin
    <3> QED
      BY <3>1, <3>3 DEF IInv, TicksInv
  <2>3. CASE Reset
    BY <2>3 DEF Reset
  <2> QED
    BY <2>1, <2>2, <2>3 DEF Next
<1> QED
  BY <1>2, <1>3, <1>4, <1>5, <1>7, <1>8, <1>9 DEF IInv, TypeOK

\* vs goes on following the beam.
LEMMA SyncStep == IInv /\ Next => SyncInv'
<1> SUFFICES ASSUME IInv, Next PROVE SyncInv'
  OBVIOUS
<1>1. BeamOK
  BY BeamBounds DEF IInv
<1>2. CASE Beam
  <2>1. Low' <=> SyncPulse
    BY <1>1, <1>2, BeamMoves
  <2>2. ~(born' /\ Origin')
    BY <1>1, <1>2, BeamMoves DEF Beam
  <2>3. vs' = ~SyncPulse
    BY <1>2 DEF Beam
  <2> QED
    BY <2>1, <2>2, <2>3, Zenon DEF SyncInv
<1>3. CASE Reset
  BY <1>3 DEF Reset, SyncInv, Origin
<1> QED
  BY <1>2, <1>3 DEF Next, Pixel, Step

\* Each rise of vs is counted.
LEMMA TicksStep == IInv /\ Next => TicksInv'
<1> SUFFICES ASSUME IInv, Next PROVE TicksInv'
  OBVIOUS
<1>1. BeamOK
  BY BeamBounds DEF IInv
<1>2. CASE Beam /\ LastPixel
  <2>1. Origin' /\ ~Past'
    BY <1>1, <1>2 DEF BeamOK, Beam, LastPixel, Origin, Past
  <2>2. ~Tick
    BY <1>1, <1>2, Rises DEF IInv, BeamOK, LastPixel, Origin
  <2>3. ticks' = 0
    BY <1>2, <2>2 DEF Next, Pixel, Step, Reset
  <2> QED
    BY <2>1, <2>3 DEF TicksInv
<1>3. CASE Beam /\ ~LastPixel
  <2>1. ~Origin' /\ born' = born
    BY <1>1, <1>3, BeamMoves DEF Beam, IInv, TypeOK
  <2>2. Past' <=> Past \/ (hc = 0 /\ vc = SyncLine + 1)
    BY <1>1, <1>3, BeamMoves
  <2>3. Tick <=> (born /\ Origin) \/ (hc = 0 /\ vc = SyncLine + 1)
    BY <1>1, <1>3, Rises DEF IInv
  <2>4. /\ Origin => ~Past /\ ~(hc = 0 /\ vc = SyncLine + 1)
        /\ hc = 0 /\ vc = SyncLine + 1 => ~Past
    BY <1>1 DEF BeamOK, Origin, Past
  <2>5. ticks' = IF Tick THEN ticks + 1 ELSE ticks
    BY <1>3, <2>1 DEF Next, Pixel, Step, Reset, Origin
  <2>6. ticks \in Nat
    BY DEF IInv, TypeOK
  <2> QED
    BY <2>1, <2>2, <2>3, <2>4, <2>5, <2>6 DEF IInv, TicksInv
<1>4. CASE Reset
  BY <1>1, <1>4 DEF Reset, TicksInv, Origin, Past, BeamOK
<1> QED
  BY <1>2, <1>3, <1>4 DEF Next, Pixel, Step

\* The beam leaves its pixel in the first register, if there is contact.
LEMMA FirstStep == IInv /\ Next => FirstInv'
<1> SUFFICES ASSUME IInv, Next, ~Origin', ~Past' PROVE Latest(seen1, Drawn)'
  BY DEF FirstInv
<1>1. BeamOK
  BY BeamBounds DEF IInv
<1>2. Beam
  BY DEF Next, Pixel, Step, Reset, Origin
<1>3. ~LastPixel /\ ~Past
  BY <1>1, <1>2, BeamMoves
<1>4. seen1' = Sample
  BY <1>2 DEF Beam
<1>5. CASE Origin
  BY <1>2, <1>4, <1>5, DrawnStarts DEF Sample, Origin, Latest
<1>6. CASE ~Origin
  <2>1. pos' = pos
    <3>1. ~Tick
      BY <1>1, <1>2, <1>3, <1>6, BeamMoves, Rises DEF IInv
    <3> QED
      BY <3>1 DEF Next, Pixel, Step, Reset, Origin
  <2>2. \A q : q \in Drawn' <=> q \in Drawn \/ (Wall_On /\ q = <<hc, vc>>)
    BY <1>2, <1>3, <2>1, DrawnGrows
  <2>3. Latest(seen1, Drawn)
    BY <1>3, <1>6 DEF IInv, FirstInv
  <2>4. CASE Wall_On
    <3>1. seen1' = <<hc, vc>> /\ <<hc, vc>> \in Drawn'
      BY <1>4, <1>6, <2>2, <2>4 DEF Sample, Origin
    <3>2. ASSUME NEW q \in Drawn' PROVE ~Later(<<hc, vc>>, q)
      <4>1. q \in Drawn \/ q = <<hc, vc>>
        BY <2>2, <3>2
      <4>2. q \in walls
        BY <1>2, <3>2 DEF Drawn, Contact, Touched, Beam
      <4>3. q[1] \in Nat /\ q[2] \in Nat
        BY <4>2, WallInPicture, ScanAssumption
      <4>4. q \in Drawn => q[2] < vc \/ (q[2] = vc /\ q[1] < hc)
        BY DEF Drawn
      <4> QED
        BY <1>1, <4>1, <4>3, <4>4 DEF Later, BeamOK
    <3> QED
      BY <3>1, <3>2 DEF Latest
  <2>5. CASE ~Wall_On
    <3>1. seen1' = seen1
      BY <1>4, <1>6, <2>5 DEF Sample, Origin
    <3>2. Drawn' = Drawn
      BY <2>2, <2>5
    <3> QED
      BY <2>3, <3>1, <3>2 DEF Latest
  <2> QED
    BY <2>4, <2>5
<1> QED
  BY <1>5, <1>6

\* The first register is complete when vs falls, and nothing moves until it
\* rises.
LEMMA SecondStep == IInv /\ Next /\ TypeOK' /\ FirstInv' => SecondInv'
<1> SUFFICES ASSUME IInv, Next, FirstInv' PROVE SecondInv'
  OBVIOUS
<1>1. BeamOK
  BY BeamBounds DEF IInv
<1>2. CASE Reset
  BY <1>1, <1>2 DEF Reset, SecondInv, Low, Origin, BeamOK
<1>3. CASE Beam
  <2>1. ~(born' /\ Origin')
    BY <1>1, <1>3, BeamMoves DEF Beam
  <2>2. ASSUME Low' PROVE Latest(seen2', Contact')
    <3>1. SyncPulse
      BY <1>1, <1>3, <2>2, BeamMoves
    <3>2. pos' = pos
      <4>1. ~Tick
        BY <1>3, <3>1 DEF Beam, Tick
      <4> QED
        BY <1>1, <2>2, <4>1 DEF Next, Pixel, Step, Reset, Low, BeamOK
    <3>3. Contact' = Contact
      BY <1>3, <3>2 DEF Contact, Touched, Whole, Box, Beam
    <3>4. CASE Low
      <4>1. ~(vs /\ ~vs')
        BY <1>1, <1>3, <3>4, Falls DEF IInv
      <4>2. seen2' = seen2
        BY <1>3, <4>1 DEF Beam, Latch
      <4> QED
        BY <3>3, <3>4, <4>2 DEF IInv, SecondInv
    <3>5. CASE ~Low
      <4>1. vs /\ ~vs'
        BY <1>1, <1>3, <3>1, <3>5, Falls DEF IInv
      <4>2. hc = 0 /\ vc = SyncLine - 1
        BY <1>1, <3>1, <3>5 DEF Low, SyncPulse, BeamOK
      <4>3. hc' = 1 /\ vc' = SyncLine - 1
        BY <1>1, <1>3, <4>2 DEF Beam, BeamOK
      <4>4. ~Origin' /\ ~Past'
        BY <1>1, <4>3 DEF Origin, Past, BeamOK
      <4>5. seen2' = seen1'
        BY <1>3, <4>1, <4>3 DEF Beam, Latch
      <4>6. Drawn' = Contact'
        <5>1. ASSUME NEW q \in Contact' PROVE q[2] < vc'
          <6>1. q \in walls
            BY <1>3, <5>1 DEF Contact, Touched, Beam
          <6> QED
            BY <1>1, <4>3, <6>1, WallInPicture DEF BeamOK
        <5> QED
          BY <5>1 DEF Drawn
      <4>7. Latest(seen1', Drawn')
        BY <4>4 DEF FirstInv, Latest
      <4> QED
        BY <4>5, <4>6, <4>7
    <3> QED
      BY <3>4, <3>5
  <2> QED
    BY <2>1, <2>2 DEF SecondInv, Latest
<1> QED
  BY <1>2, <1>3 DEF Next, Pixel, Step

\* The inductive invariant holds in every behaviour.
THEOREM InvariantHolds == Spec => []IInv
<1>1. IInv /\ Next => IInv'
  BY TypeInv, SyncStep, TicksStep, FirstStep, SecondStep DEF IInv
<1>2. IInv /\ UNCHANGED vars => IInv'
  BY DEF vars, IInv, TypeOK, Positions, SyncInv, TicksInv, FirstInv, SecondInv,
     Origin, Low,
         Past, Drawn, Contact, Touched, Whole, Box, Latest, Later
<1> QED
  BY <1>1, <1>2, InitInv, PTL DEF Spec
-----------------------------------------------------------------------------
(* The properties.                                                         *)

\* When an object moves, the second register is right, or this is the first
\* step after Reset.
LEMMA FreshStep ==
    IInv /\ Step => IF Blind \/ ~Whole \/ Touched = {} THEN seen2 = None
                    ELSE seen2 \in Touched /\ \A q \in Touched : ~Later(seen2, q)
<1> SUFFICES ASSUME IInv, Step
             PROVE  IF Blind \/ ~Whole \/ Touched = {} THEN seen2 = None
                    ELSE seen2 \in Touched /\ \A q \in Touched : ~Later(seen2, q)
  OBVIOUS
<1>1. BeamOK
  BY BeamBounds DEF IInv
<1>2. (born /\ Origin) \/ (hc = 0 /\ vc = SyncLine + 1)
  BY <1>1, Rises DEF IInv, Step
<1>3. CASE born /\ Origin
  <2>1. ticks = 0
    BY <1>1, <1>3 DEF IInv, TicksInv, Past, Origin, BeamOK
  <2> QED
    BY <1>3, <2>1 DEF Blind, IInv, SecondInv
<1>4. CASE hc = 0 /\ vc = SyncLine + 1
  <2>1. Low /\ ~Origin /\ ~Past
    BY <1>1, <1>4 DEF Low, Origin, Past, BeamOK
  <2>2. Latest(seen2, Contact)
    BY <2>1 DEF IInv, SecondInv
  <2>3. ~Blind
    BY <2>1 DEF Blind, IInv, TicksInv
  <2> QED
    BY <2>2, <2>3 DEF Latest, Contact
<1> QED
  BY <1>2, <1>3, <1>4

\* An object that moves knows the wall pixel it touches, whatever the picture
\* (collisionWall.sv:36-113, VGA_controller.sv:110-118).
THEOREM ContactCorrect == Spec => ContactFresh
<1>1. IInv /\ [Next]_vars =>
        [Step => IF Blind \/ ~Whole \/ Touched = {} THEN seen2 = None
                 ELSE seen2 \in Touched /\ \A q \in Touched : ~Later(seen2, q)]_vars
  BY FreshStep
<1> QED
  BY <1>1, InvariantHolds, PTL DEF Spec, ContactFresh

\* Every frame moves the object once, the first one twice
\* (VGA_controller.sv:66-118).
THEOREM OneStepCorrect == Spec => OneStepPerFrame
<1>1. IInv /\ LastPixel => ticks = IF born THEN 2 ELSE 1
  <2> SUFFICES ASSUME IInv, LastPixel PROVE ticks = IF born THEN 2 ELSE 1
    OBVIOUS
  <2>1. BeamOK
    BY BeamBounds DEF IInv
  <2>2. Past /\ ~Origin
    BY <2>1 DEF BeamOK, LastPixel, Past, Origin
  <2> QED
    BY <2>2 DEF IInv, TicksInv
<1>2. IInv /\ [Next]_vars => [Pixel /\ LastPixel => ticks = IF born THEN 2 ELSE 1]_vars
  BY <1>1
<1> QED
  BY <1>2, InvariantHolds, PTL DEF Spec, OneStepPerFrame
=============================================================================
