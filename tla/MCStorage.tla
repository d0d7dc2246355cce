----------------------------- MODULE MCStorage ------------------------------
(***************************************************************************)
(* The components that hold the node's data, side by side. A behaviour     *)
(* chooses one of them and runs it alone: one run explores the union of    *)
(* their state graphs, each with the values given here.                    *)
(***************************************************************************)
EXTENDS MCLocalStore, Stamps, BatchStore

VARIABLE part  \* the component that runs

VARIABLES encrypted, fed, buffer, wrote, levels, full, store, upload, root,
          off
filePart == <<encrypted, fed, buffer, wrote, levels, full, store, upload,
              root, off>>
F == INSTANCE Content WITH
       ChunkSize <- 4, HashSize <- 1, MaxLevel <- 4, MaxLength <- 38,
       Sizes <- {0, 1, 3, 4, 7, 20, 38}

-----------------------------------------------------------------------------
MCInit ==
  /\ part \in {"localstore", "batchstore", "stamps", "content"}
  /\ Init /\ BatchInit /\ StampsInit /\ F!Init

MCNext ==
  \/ /\ part = "localstore" /\ Next
     /\ UNCHANGED <<part, batchVars, stampVars, filePart>>
  \/ /\ part = "batchstore" /\ BatchNext
     /\ UNCHANGED <<part, vars, stampVars, filePart>>
  \/ /\ part = "stamps" /\ StampsNext
     /\ UNCHANGED <<part, vars, batchVars, filePart>>
  \/ /\ part = "content" /\ F!Next
     /\ UNCHANGED <<part, vars, batchVars, stampVars>>

mcVars == <<part, vars, batchVars, stampVars, filePart>>

MCSpec == MCInit /\ [][MCNext]_mcVars
-----------------------------------------------------------------------------
\* The joiner reads back exactly what the feeder was given (file pipeline).
JoinsWhatWasSplit == part = "content" => F!JoinsWhatWasSplit
=============================================================================
