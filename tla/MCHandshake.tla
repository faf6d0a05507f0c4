----------------------------- MODULE MCHandshake -----------------------------
(* Handshake on small instances: see the configurations. *)
EXTENDS Handshake
=============================================================================
