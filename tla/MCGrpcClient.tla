----------------------------- MODULE MCGrpcClient -----------------------------
(* GrpcClient on small instances: see the configurations. *)
EXTENDS GrpcClient
=============================================================================
