---------------------------- MODULE MCChequebook ----------------------------
(***************************************************************************)
(* Payments with a chequebook, and the node that deploys it, starts and    *)
(* stops, side by side. A behaviour chooses one of them and runs it alone: *)
(* one run explores the union of their state graphs, each with the values  *)
(* of the configuration.                                                   *)
(***************************************************************************)
EXTENDS MCCheques, Node

VARIABLE part  \* the component that runs

-----------------------------------------------------------------------------
MCInit ==
  /\ part \in {"cheques", "node"}
  /\ Init /\ NodeInit

MCNext ==
  \/ /\ part = "cheques" /\ Next
     /\ UNCHANGED <<part, nodeVars>>
  \/ /\ part = "node" /\ NodeNext
     /\ UNCHANGED <<part, vars>>

mcVars == <<part, vars, nodeVars>>

MCSpec == MCInit /\ [][MCNext]_mcVars
=============================================================================
