------------------------------ MODULE MCTeleop ------------------------------
(***************************************************************************)
(* Two children, and two pages (a reload): the first presses e-stop after  *)
(* having driven, the second only watches.                                 *)
(***************************************************************************)
EXTENDS Teleop

TwoPages == {1, 2}
TwoKids == {1, 2}
NoScript == <<<<>>, <<>>>>
TheScript == <<<<"follow", "estop">>, <<>>>>
=============================================================================
