----------------------------- MODULE MCFeedLink -----------------------------
(***************************************************************************)
(* Small instances of FeedLink for TLC.                                    *)
(***************************************************************************)
EXTENDS FeedLink, TLC

CONSTANTS t1, n1, n2, n3, k1, k2

Symmetry == Permutations({n1, n2, n3}) \cup Permutations({k1, k2})
=============================================================================
