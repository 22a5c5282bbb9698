------------------------------ MODULE MazeGen ------------------------------
(***************************************************************************)
(* genMaze (mazes.c): a maze is carved by a depth-first walk over the grid *)
(* of cells.  The walk keeps its way back on a stack (paired_stack.c) and  *)
(* steps to a random unvisited neighbour, or back when there is none.      *)
(* One action is one iteration of the while loop.  The stack is created    *)
(* with capacity of one place per cell, and paired_stack.c then doubles the *)
(* capacity it tests for while it allocates room for the original one.     *)
(***************************************************************************)
EXTENDS MazeGrid, Sequences, FiniteSets

VARIABLES
    maze,           \* m_maze: the bits of each cell
    stack,          \* m_stack, the top last
    visitedCells

vars == <<maze, stack, visitedCells>>

Area == mazeWidth * mazeHeight
Dirs  == {"N", "E", "S", "W"}
Bits  == Dirs \cup {"VISITED"}

\* The neighbour of cell c in direction d, and the way back.
Step(c, d) == CASE d = "N" -> <<c[1], c[2] - 1>>
                [] d = "E" -> <<c[1] + 1, c[2]>>
                [] d = "S" -> <<c[1], c[2] + 1>>
                [] d = "W" -> <<c[1] - 1, c[2]>>
Opposite(d) == CASE d = "N" -> "S" [] d = "E" -> "W"
                 [] d = "S" -> "N" [] d = "W" -> "E"

\* MUTANT: every cell is pushed twice.
Ppush_Twice(s, c) == s \o <<c, c>>

\* The stack: what was allocated, what PisFull believes, and Ppush, Ppop and
\* Ppeek with their answers on a full and on an empty stack.
Allocated  == Area
PisFull(s) == Len(s) = 2 * Allocated
Ppush(s, c) == IF PisFull(s) THEN s ELSE Append(s, c)
Ppop(s)  == IF s = <<>> THEN s ELSE SubSeq(s, 1, Len(s) - 1)
Ppeek(s) == IF s = <<>> THEN <<0, 0>> ELSE s[Len(s)]

Visited == {c \in Cells : "VISITED" \in maze[c]}

\* MUTANT: the last column is x = mazeWidth.
neighbors_TooWide(c) ==
    {d \in Dirs : /\ Step(c, d) \in (0..mazeWidth) \X (0..mazeHeight - 1)
                  /\ Step(c, d) \notin Visited}

\* The directions pushed on the neighbors stack for cell c.
neighbors(c) == {d \in Dirs : Step(c, d) \in Cells \ Visited}

\* MUTANT: off by one.
Done_Late == visitedCells > Area

Done == visitedCells >= Area

TypeOK ==
    /\ maze \in [Cells -> SUBSET Bits]
    /\ stack \in Seq(Cells)
    /\ visitedCells \in 1..Area

\* The walk starts in a random cell c.
Started(c) == [x \in Cells |-> IF x = c THEN {"VISITED"} ELSE {}]

Init ==
    \E c \in Cells :
        /\ maze = Started(c)
        /\ stack = <<c>>
        /\ visitedCells = 1
-----------------------------------------------------------------------------
\* MUTANT: the passage is carved from the far side only.
Carve_Behind(d) ==
    LET here == Ppeek(stack)
        next == Step(here, d)
    IN  /\ ~Done
        /\ d \in neighbors(here)
        /\ maze' = [maze EXCEPT ![next] = @ \cup {"VISITED", Opposite(d)}]
        /\ stack' = Ppush(stack, next)
        /\ visitedCells' = visitedCells + 1

\* Break through to a random unvisited neighbour of the cell on top.
Carve(d) ==
    LET here == Ppeek(stack)
        next == Step(here, d)
    IN  /\ ~Done
        /\ d \in neighbors(here)
        /\ maze' = [maze EXCEPT ![here] = @ \cup {d},
                                ![next] = @ \cup {"VISITED", Opposite(d)}]
        /\ stack' = Ppush(stack, next)
        /\ visitedCells' = visitedCells + 1

\* A dead end.
Backtrack ==
    /\ ~Done
    /\ neighbors(Ppeek(stack)) = {}
    /\ stack' = Ppop(stack)
    /\ UNCHANGED <<maze, visitedCells>>

\* The maze is handed over; the next round calls genMaze again, with a maze
\* and a stack of its own.
NextCall ==
    /\ Done
    /\ \E c \in Cells :
        /\ maze' = Started(c)
        /\ stack' = <<c>>
        /\ visitedCells' = 1

Walk == Backtrack \/ \E d \in Dirs : Carve(d)

Next == Walk \/ NextCall

Spec == Init /\ [][Next]_vars

\* The processor executes the loop.
FairSpec == Spec /\ WF_vars(Walk)
-----------------------------------------------------------------------------
(* Properties.                                                             *)

\* The walk never runs out of way back before every cell is carved: Ppeek
\* never answers with the cell <<0, 0>> it invents for an empty stack
\* (mazes.c:70-107, paired_stack.c:48-53).
NeverLost == ~Done => stack /= <<>>

\* The walk stays within its stack at both ends: it never outgrows the
\* allocation, although the test in Ppush would let it, and never peeks below
\* the bottom (paired_stack.c:14-53).
StackFits == Len(stack) <= Allocated /\ NeverLost

\* The loop counter counts the carved cells (mazes.c:65, 103).
CounterIsExact == visitedCells = Cardinality(Visited)

\* Every wall is seen alike from both sides: a passage of a cell leads to a
\* carved cell that has the passage back.  The hardware sees only the south
\* and east bits, which genMaze draws (mazes.c:264-280).
PassagesMatch ==
    \A c \in Cells, d \in Dirs : d \in maze[c] =>
        /\ Step(c, d) \in Visited
        /\ Opposite(d) \in maze[Step(c, d)]

\* All carved cells hang together, so in the finished maze the tanks can reach
\* each other: no part of them is closed off.
Connected ==
    \A part \in SUBSET Visited : part /= {} /\ part /= Visited =>
        \E c \in part, d \in Dirs :
            d \in maze[c] /\ Step(c, d) \in Visited \ part

\* The maze has no loop: one passage less than carved cells.
Doors == {p \in Cells \X {"S", "E"} : p[2] \in maze[p[1]]}
NoLoop == Cardinality(Doors) = visitedCells - 1

\* At every moment the carved cells and their passages form a tree, alike from
\* both sides, so the finished maze has exactly one way between any two cells
\* (mazes.c:70-107).
SpanningTree == CounterIsExact /\ PassagesMatch /\ Connected /\ NoLoop

\* genMaze returns.
Terminates == []<>Done
=============================================================================
