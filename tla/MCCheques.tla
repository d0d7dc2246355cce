----------------------------- MODULE MCCheques -----------------------------
(***************************************************************************)
(* Two beneficiaries; the first is known under two overlays.               *)
(***************************************************************************)
EXTENDS Cheques, TLC

CONSTANTS p1, p2, p3, b1, b2

MCPeers == {p1, p2, p3}
MCBeneficiaries == {b1, b2}
MCKnown == {p1, p3}
MCEthereumAddress == p1 :> b1 @@ p2 :> b1 @@ p3 :> b2
=============================================================================
