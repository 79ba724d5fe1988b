--------------------------- MODULE MCFlagPipeline ---------------------------
(***************************************************************************)
(* Instances of FlagPipeline for TLC.                                      *)
(***************************************************************************)
EXTENDS FlagPipeline, TLC

\* Templates and workers are interchangeable.
Symmetry == Permutations(Hashes) \cup Permutations(Workers)
=============================================================================
