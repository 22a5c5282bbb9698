------------------------------ MODULE MCMotion ------------------------------
EXTENDS Motion

\* Tank 1, in the middle of the cell in the upper left corner.
MCSpawn == <<320, 960>>

\* Mazes of 2 x 2 cells: a wall to the right of the tank's cell, or below it.
Passages2x2 == {<<0, 0, "E">>, <<0, 1, "E">>, <<0, 0, "S">>, <<1, 0, "S">>}
MCMazes == {Passages2x2 \ {<<0, 0, d>>} : d \in {"E", "S"}}
=============================================================================
