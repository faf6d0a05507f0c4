---------------------------- MODULE MCPeerStreams ----------------------------
(* PeerStreams on small instances: see the configurations. *)
EXTENDS PeerStreams
=============================================================================
