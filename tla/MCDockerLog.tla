----------------------------- MODULE MCDockerLog -----------------------------
(***************************************************************************)
(* DockerLog on small instances.                                           *)
(***************************************************************************)
EXTENDS DockerLog
=============================================================================
