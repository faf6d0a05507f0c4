----------------------------- MODULE MCSendPath -----------------------------
(* SendPath on small instances: see the configurations. *)
EXTENDS SendPath
=============================================================================
