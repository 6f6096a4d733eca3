---------------------------- MODULE MCPeerSession ----------------------------
(* Instance of PeerSession for TLC. *)
EXTENDS PeerSession
=============================================================================
