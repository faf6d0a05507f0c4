---------------------------- MODULE MCVideoFrames ----------------------------
(* VideoFrames on small instances: see the configurations. *)
EXTENDS VideoFrames
=============================================================================
