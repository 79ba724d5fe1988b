--------------------------- MODULE MCModelBackend ---------------------------
(***************************************************************************)
(* An instance of ModelBackend for TLC.                                    *)
(***************************************************************************)
EXTENDS ModelBackend, TLC
=============================================================================
