-------------------------- MODULE MCProjectCleanup --------------------------
(* Instances of ProjectCleanup for TLC. *)
EXTENDS ProjectCleanup
=============================================================================
