----------------------------- MODULE MCRelayHub ------------------------------
(* Three connections make a room, fill it, leave it and take each other's place. *)
EXTENDS RelayHub, TLC

\* Connections are interchangeable; sound for the safety properties of RelayHub.cfg.
Symmetry == Permutations(Peer)
=============================================================================
