------------------------------ MODULE MCPeerReg ------------------------------
(* PeerReg with a known and an unknown address.                            *)
EXTENDS PeerReg
=============================================================================
