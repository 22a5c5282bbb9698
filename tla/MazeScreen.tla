----------------------------- MODULE MazeScreen -----------------------------
(***************************************************************************)
(* The maze on the screen.  genMaze draws the carved maze into a bitmap,   *)
(* packs each row into 32-bit words and writes them to Maze_Reg; the       *)
(* hardware finds the pixel under the beam and its four neighbours there,  *)
(* to colour the picture and to tell collisionWall which way a wall runs.  *)
(* A pixel of the bitmap is 4 x 4 pixels of the monitor; the beam is       *)
(* followed from one of them to the next.                                  *)
(* What is read at the beam depends on the few passages near it.  So all   *)
(* mazes are checked in one scan that chooses those passages anew at each  *)
(* pixel and leaves the rest of the maze closed.                           *)
(***************************************************************************)
EXTENDS MazeGrid

CONSTANTS
    pathWidth,              \* pixels of a cell (19), a wall is 1 more
    WordBits                \* pixels in a word of Maze_Reg (32)

Pitch == pathWidth + 1
Top   == 20                 \* rows above the maze: scores and the upper wall
Rows  == Top + mazeHeight * Pitch
Cols  == mazeWidth * Pitch
WordsPerRow == Cols \div WordBits
Words == Rows * WordsPerRow

\* A row is a number of whole words ...
ASSUME ScreenAssumption == /\ pathWidth \in Nat \ {0} /\ WordBits \in Nat \ {0, 1}
                           /\ Cols % WordBits = 0

\* ... and where a word ends inside of a row, the pixels around the end lie in a
\* cell, not at a wall that runs along the column.
ASSUME WordsEndInCells ==
    \A c \in 1..Cols - 2 :
        /\ c % WordBits = WordBits - 1 => c % Pitch \in 1..pathWidth - 1
        /\ c % WordBits = 0 => c % Pitch \in 0..pathWidth - 2

\* A pixel is <<row, column>>.
Pixels == (0..Rows - 1) \X (0..Cols - 1)

VARIABLES
    beam,       \* the pixel being drawn
    open,       \* the passages near the beam that the maze has
    glyph,      \* the digits: a pixel of the score at the beam
    garbage     \* what reading beyond Maze_Reg yields

scanVars == <<beam, open, glyph, garbage>>
-----------------------------------------------------------------------------
(* genMaze: the bitmap and its words.                                      *)

CellPixels(x, y) ==
    {<<y * Pitch + py + Top, x * Pitch + px>> : py, px \in 0..pathWidth - 1}

\* The pixels cleared for a passage.
Strip(q) ==
    IF q[3] = "S"
    THEN {<<q[2] * Pitch + pathWidth + Top, q[1] * Pitch + p>> : p \in 0..pathWidth - 1}
    ELSE {<<q[2] * Pitch + p + Top, q[1] * Pitch + pathWidth>> : p \in 0..pathWidth - 1}

Rooms == UNION {CellPixels(x, y) : x \in 0..mazeWidth - 1, y \in 0..mazeHeight - 1}
PassageAt == [p \in Pixels |-> {q \in Passages : p \in Strip(q)}]

\* Where the two scores are, above the maze.
Digits == (2..17) \X (60..67 \cup 90..97)

\* maze_screen_buffer: 1 is a wall.
maze_screen_buffer(p) ==
    IF p[1] < Top - 1
    THEN IF p \in Digits THEN glyph ELSE 0
    ELSE IF p \in Rooms \/ PassageAt[p] \cap open /= {} THEN 0 ELSE 1

\* MUTANT: the first pixel goes to the lowest bit.
Place_LowFirst(a) ==
    <<a[1] \div WordsPerRow, (a[1] % WordsPerRow) * WordBits + a[2]>>

\* An address is <<word, bit>>.  The pixels of a word are shifted in, so the
\* first one ends up in the highest bit.
Place(a) ==
    <<a[1] \div WordsPerRow,
      (a[1] % WordsPerRow) * WordBits + WordBits - 1 - a[2]>>

InReg(a) == a[1] \in 0..Words - 1
Maze_Reg(a) == IF InReg(a) THEN maze_screen_buffer(Place(a)) ELSE garbage
-----------------------------------------------------------------------------
(* The hardware: what it reads when the beam is at pixel p.                *)

Byte_ADDR(p) == p[2] + p[1] * Cols
Word_ADDR(p) == Byte_ADDR(p) \div WordBits
Bit(p) == WordBits - 1 - (Byte_ADDR(p) % WordBits)

\* MUTANT: a row is a word shorter.
UpAddr_Short(p) == <<Word_ADDR(p) - (WordsPerRow - 1), Bit(p)>>

UpAddr(p)   == <<Word_ADDR(p) - WordsPerRow, Bit(p)>>
DownAddr(p) == <<Word_ADDR(p) + WordsPerRow, Bit(p)>>

\* The neighbours in the row.  Bits are counted modulo the word: at its ends,
\* but for two words, the neighbour is taken from the other end of the word.
LeftAddr(p) ==
    IF Byte_ADDR(p) = WordBits - 1 THEN <<Word_ADDR(p) - 1, 0>>
    ELSE <<Word_ADDR(p), (Bit(p) + 1) % WordBits>>
RightAddr(p) ==
    IF Byte_ADDR(p) = 0 THEN <<Word_ADDR(p) + 1, WordBits - 1>>
    ELSE <<Word_ADDR(p), (Bit(p) + WordBits - 1) % WordBits>>

currentMaze == Maze_Reg(<<Word_ADDR(beam), Bit(beam)>>)
MazeUp    == IF Word_ADDR(beam) = 0 THEN 1 ELSE Maze_Reg(UpAddr(beam))
MazeDown  == IF Word_ADDR(beam) = Words - 1 THEN 1 ELSE Maze_Reg(DownAddr(beam))
MazeLeft  == Maze_Reg(LeftAddr(beam))
MazeRight == Maze_Reg(RightAddr(beam))

\* What collisionWall is told: the wall runs along the row, or along the column.
AlongRow    == MazeLeft = 1 \/ MazeRight = 1
AlongColumn == MazeUp = 1 \/ MazeDown = 1
-----------------------------------------------------------------------------
(* The scan.                                                               *)

Neighbours(p) == {<<p[1] - 1, p[2]>>, <<p[1] + 1, p[2]>>,
                  <<p[1], p[2] - 1>>, <<p[1], p[2] + 1>>}

\* The passages on which a reading at p, or its correctness, depends.
Relevant(p) ==
    UNION {PassageAt[r] : r \in Pixels \cap
        (Neighbours(p) \cup {p}
         \cup {Place(a) : a \in {b \in {LeftAddr(p), RightAddr(p)} : InReg(b)}})}

See(p) ==
    /\ beam' = p
    /\ open' \in {o \in SUBSET Relevant(p) : NoSquare(o)}
    /\ glyph' \in (IF p \in Digits THEN {0, 1} ELSE {0})
    /\ garbage' \in (IF p[1] \in {0, Rows - 1} THEN {0, 1} ELSE {0})

ScanInit ==
    /\ beam = <<0, 0>>
    /\ open = {} /\ glyph = 0
    /\ garbage \in {0, 1}

Along   == beam[2] < Cols - 1 /\ See(<<beam[1], beam[2] + 1>>)
NewLine == beam[2] = Cols - 1 /\ beam[1] < Rows - 1 /\ See(<<beam[1] + 1, 0>>)
NewFrame == beam = <<Rows - 1, Cols - 1>> /\ See(<<0, 0>>)

ScanNext == Along \/ NewLine \/ NewFrame
ScanSpec == ScanInit /\ [][ScanNext]_scanVars
-----------------------------------------------------------------------------
(* Properties.                                                             *)

\* Where the walls of the maze are, seen from a pixel: between any two cells
\* that no passage joins, at every corner, and along the upper, lower and
\* right edge.  There is none on the left edge.
Wall(p) ==
    LET row == p[1] - Top
        cell == <<p[2] \div Pitch, row \div Pitch>>
        east == p[2] % Pitch = pathWidth
        south == row % Pitch = pathWidth
    IN  IF row < 0 THEN row = -1
        ELSE /\ east \/ south
             /\ east /\ ~south => <<cell[1], cell[2], "E">> \notin open
             /\ south /\ ~east => <<cell[1], cell[2], "S">> \notin open

\* The picture is the maze: drawing, packing, writing and addressing fit
\* together (mazes.c:112-301, vga_text_avl_interface.sv:361-364).
PicturesTheMaze == beam[1] >= Top - 1 => (currentMaze = 1 <=> Wall(beam))

\* Where collisionWall uses the neighbours: everywhere but on the screen's
\* edge, where its border rules come first (collisionWall.sv:153-180).
Inner(p) == p[1] \in Top - 1..Rows - 2 /\ p[2] \in 1..Cols - 2

\* A wall's direction is read right at every pixel of every wall, although at
\* the ends of a word a neighbour comes from the word's other end: walls are
\* so placed that the other neighbour decides (vga_text_avl_interface.sv:366-400).
\* And each pixel has a direction, or collisionWall would let things through
\* (collisionWall.sv:181-245): a lone corner would need the loop no maze has.
DirectionRight ==
    Inner(beam) /\ currentMaze = 1 =>
        /\ AlongRow <=> (Wall(<<beam[1], beam[2] - 1>>) \/ Wall(<<beam[1], beam[2] + 1>>))
        /\ AlongColumn <=> (Wall(<<beam[1] - 1, beam[2]>>) \/ Wall(<<beam[1] + 1, beam[2]>>))
        /\ AlongRow \/ AlongColumn
=============================================================================
