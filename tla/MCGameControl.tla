--------------------------- MODULE MCGameControl ---------------------------
(***************************************************************************)
(* GameControl for TLC.  MaxScore is the program's own 3, so a match has   *)
(* its full length; one frame tick fits in the maze_ready window and the   *)
(* first hit of a round needs two frames.                                  *)
(***************************************************************************)
EXTENDS GameControl
=============================================================================
