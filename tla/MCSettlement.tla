---------------------------- MODULE MCSettlement ----------------------------
(***************************************************************************)
(* Two nodes and a few requests, in two scenarios: in "mutual" both nodes  *)
(* serve each other and settle with refreshments and cheques, at one time; *)
(* in "refreshment" one node serves the other across two connections, and  *)
(* the clock runs.                                                         *)
(***************************************************************************)
EXTENDS MCPeerSettlement

VARIABLE scenario
Refreshment == INSTANCE PeerSettlement WITH
                 Clients <- OneClient, Originations <- {FALSE}, Price <- 4,
                 SwapEnabled <- FALSE, MaxClock <- 12, MaxSessions <- 2

MCInit ==
  \/ scenario = "mutual" /\ Init
  \/ scenario = "refreshment" /\ Refreshment!Init

MCNext ==
  /\ \/ scenario = "mutual" /\ Next
     \/ scenario = "refreshment" /\ Refreshment!Next
  /\ UNCHANGED scenario

MCSpec == MCInit /\ [][MCNext]_<<scenario, vars>>

\* HonestWithinThreshold of the scenario: a node that keeps to Reserve stays
\* within the threshold in the books of the other node, apart from what is
\* still to be booked there and the requests it gave up.
HonestStaysWithin ==
  IF scenario = "mutual" THEN HonestWithinThreshold ELSE Refreshment!HonestWithinThreshold
=============================================================================
