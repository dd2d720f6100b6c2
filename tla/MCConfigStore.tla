---------------------------- MODULE MCConfigStore ---------------------------
(***************************************************************************)
(* Small instances of ConfigStore for TLC.                                 *)
(***************************************************************************)
EXTENDS ConfigStore, TLC

CONSTANTS p1, p2, t1, t2

Symmetry == Permutations({p1, p2}) \cup Permutations({t1, t2})
=============================================================================
