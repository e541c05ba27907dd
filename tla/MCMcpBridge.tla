----------------------------- MODULE MCMcpBridge -----------------------------
(* Instances of McpBridge for TLC. *)
EXTENDS McpBridge, TLC

CONSTANTS p1, p2, p3

OnePeer == {p1}
TwoPeers == {p1, p2}
ThreePeers == {p1, p2, p3}

PeerSymmetry == Permutations(Peers)
=============================================================================
