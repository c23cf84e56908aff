---------------------------- MODULE MCPeerData ----------------------------
(***************************************************************************)
(* PeerData with interchangeable units, for TLC.                           *)
(***************************************************************************)
EXTENDS PeerData, TLC

Symmetric == Permutations(Units)
=============================================================================
