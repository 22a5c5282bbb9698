------------------------------ MODULE MazeGrid ------------------------------
(***************************************************************************)
(* The grid of cells that genMaze carves a maze into and draws.            *)
(***************************************************************************)
EXTENDS Integers

CONSTANTS mazeWidth, mazeHeight     \* cells (8 x 5)

ASSUME GridAssumption == mazeWidth \in Nat \ {0} /\ mazeHeight \in Nat \ {0}

\* A cell is a struct pair, written <<first, second>>.
Cells == (0..mazeWidth - 1) \X (0..mazeHeight - 1)

\* The passages a maze can have: east or south of a cell, to another cell.
\* MazeGen!PassagesMatch: the N and W bits say the same from the other side.
Passages == {q \in (0..mazeWidth - 1) \X (0..mazeHeight - 1) \X {"E", "S"} :
                /\ q[3] = "E" => q[1] < mazeWidth - 1
                /\ q[3] = "S" => q[2] < mazeHeight - 1}

\* Four cells around a corner are never all joined: a maze has no loop.
NoSquare(o) ==
    \A q \in o : ~ {q, <<q[1], q[2], "E">>, <<q[1], q[2], "S">>,
                    <<q[1] + 1, q[2], "S">>, <<q[1], q[2] + 1, "E">>} \subseteq o
=============================================================================
