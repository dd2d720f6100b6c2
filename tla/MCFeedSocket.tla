---------------------------- MODULE MCFeedSocket ----------------------------
(***************************************************************************)
(* Small instances of FeedSocket for TLC.                                  *)
(***************************************************************************)
EXTENDS FeedSocket, TLC

CONSTANTS p1, p2

Symmetry == Permutations({p1, p2})
=============================================================================
