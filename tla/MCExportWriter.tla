--------------------------- MODULE MCExportWriter ---------------------------
(***************************************************************************)
(* Instances of ExportWriter for TLC.                                      *)
(***************************************************************************)
EXTENDS ExportWriter, TLC

\* Records are told apart only by their keys: permuting them changes nothing.
Symmetry == Permutations(Keys)
=============================================================================
