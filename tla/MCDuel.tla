------------------------------- MODULE MCDuel -------------------------------
EXTENDS Duel

\* Mazes of 2 x 2 cells: a wall to the right of the first tank's cell, or below.
Passages2x2 == {<<0, 0, "E">>, <<0, 1, "E">>, <<0, 0, "S">>, <<1, 0, "S">>}
MCMazes == {Passages2x2 \ {<<0, 0, d>>} : d \in {"E", "S"}}

\* Two neighbouring cells, the closest two tanks can start.
MCSpawns == <<<<320, 960>>, <<960, 960>>>>

\* Any two of four keys.
MCInputs == [{1, 2} -> {"up", "down", "right", "shoot"}]

\* No leftover flag, or those of the second and the third bullet.
MCPowerUp == {<<FALSE, FALSE, FALSE>>, <<FALSE, TRUE, TRUE>>}
=============================================================================
