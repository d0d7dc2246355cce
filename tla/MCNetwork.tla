----------------------------- MODULE MCNetwork ------------------------------
(***************************************************************************)
(* The components that talk to other nodes, side by side. A behaviour      *)
(* chooses one of them and runs it alone: one run explores the union of    *)
(* their state graphs, each with its values here or in the configuration.  *)
(***************************************************************************)
EXTENDS Kademlia, PushSync, Connections, RollCall

VARIABLE part  \* the component that runs

VARIABLES type, sent, stream, broken, got, readErr
wirePart == <<type, sent, stream, broken, got, readErr>>
W == INSTANCE Wire WITH
       Uints <- {0, 300}, Lengths <- {0, 1}, MaxSize <- 24

-----------------------------------------------------------------------------
MCInit ==
  /\ part \in {"kademlia", "rollcall", "pushsync", "connections", "wire"}
  /\ Init /\ RollInit /\ PushInit /\ ConnInit /\ W!Init

MCNext ==
  \/ /\ part = "kademlia" /\ Next
     /\ UNCHANGED <<part, rollVars, pushVars, connVars, wirePart>>
  \/ /\ part = "rollcall" /\ RollNext
     /\ UNCHANGED <<part, kadVars, pushVars, connVars, wirePart>>
  \/ /\ part = "pushsync" /\ PushNext
     /\ UNCHANGED <<part, kadVars, rollVars, connVars, wirePart>>
  \/ /\ part = "connections" /\ ConnNext
     /\ UNCHANGED <<part, kadVars, rollVars, pushVars, wirePart>>
  \/ /\ part = "wire" /\ W!Next
     /\ UNCHANGED <<part, kadVars, rollVars, pushVars, connVars>>

mcVars == <<part, kadVars, rollVars, pushVars, connVars, wirePart>>

MCSpec == MCInit /\ [][MCNext]_mcVars
-----------------------------------------------------------------------------
\* Messages are read as they were written, and in order (protobuf).
ReadIsWritten == part = "wire" => W!ReadIsWritten
=============================================================================
