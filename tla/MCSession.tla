------------------------------ MODULE MCSession ------------------------------
(* Session on small instances: see the configurations. *)
EXTENDS Session, TLC

PeerSymmetry == Permutations(Peers)
=============================================================================
