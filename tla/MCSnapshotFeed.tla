--------------------------- MODULE MCSnapshotFeed ---------------------------
(***************************************************************************)
(* SnapshotFeed on small instances.  The template of a line matters only   *)
(* for equality, so permuting the templates is a symmetry of the safety    *)
(* properties.                                                             *)
(***************************************************************************)
EXTENDS SnapshotFeed, TLC

Symmetry == Permutations(Hashes)
=============================================================================
