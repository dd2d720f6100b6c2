------------------------------- MODULE MCTui -------------------------------
(***************************************************************************)
(* Instances of Tui for TLC: what the groups list.                         *)
(***************************************************************************)
EXTENDS Tui

OneTwo == <<1, 2>>
One == <<1>>
=============================================================================
