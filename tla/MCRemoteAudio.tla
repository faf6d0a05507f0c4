---------------------------- MODULE MCRemoteAudio ----------------------------
(* RemoteAudio on small instances: see the configurations. *)
EXTENDS RemoteAudio
=============================================================================
