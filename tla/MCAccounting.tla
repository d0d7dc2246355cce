---------------------------- MODULE MCAccounting ----------------------------
(***************************************************************************)
(* Accounting for one peer: peers share no accounting state.               *)
(***************************************************************************)
EXTENDS Accounting, TLC

CONSTANTS p1, r1, r2, d1

MCPeers == {p1}
MCRequests == {r1, r2}
MCDebits == {d1}
Goroutines == Permutations(MCRequests)
=============================================================================
