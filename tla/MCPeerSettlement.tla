-------------------------- MODULE MCPeerSettlement --------------------------
(***************************************************************************)
(* Two nodes and a few requests.                                           *)
(***************************************************************************)
EXTENDS PeerSettlement, TLC

CONSTANTS r1, r2, r3, r4

OneClient == {NodeA}
BothClients == {NodeA, NodeB}
TwoRequests == {r1, r2}
ThreeRequests == {r1, r2, r3}
FourRequests == {r1, r2, r3, r4}
Goroutines == Permutations(Requests)
=============================================================================
