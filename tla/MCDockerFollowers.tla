-------------------------- MODULE MCDockerFollowers --------------------------
(***************************************************************************)
(* DockerFollowers on small instances.                                     *)
(***************************************************************************)
EXTENDS DockerFollowers
=============================================================================
