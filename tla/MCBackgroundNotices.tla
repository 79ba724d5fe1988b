------------------------ MODULE MCBackgroundNotices ------------------------
(***************************************************************************)
(* An instance of BackgroundNotices for TLC: the sources are symmetric.    *)
(***************************************************************************)
EXTENDS BackgroundNotices, TLC

Symmetry == Permutations(Sources)
=============================================================================
