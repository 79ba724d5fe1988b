---------------------------- MODULE MCCoalescer ----------------------------
(***************************************************************************)
(* An instance of Coalescer for TLC.                                       *)
(***************************************************************************)
EXTENDS Coalescer
=============================================================================
