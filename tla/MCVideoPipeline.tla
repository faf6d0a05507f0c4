--------------------------- MODULE MCVideoPipeline ---------------------------
(* VideoPipeline on small instances: see the configurations. *)
EXTENDS VideoPipeline
=============================================================================
