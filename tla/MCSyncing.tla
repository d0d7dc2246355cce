----------------------------- MODULE MCSyncing ------------------------------
(***************************************************************************)
(* An upload and its push to the network, the pull of a bin from a peer,   *)
(* and the hashing of chunks, side by side. A behaviour chooses one of     *)
(* them and runs it alone, under the fairness of that one.                 *)
(***************************************************************************)
EXTENDS Puller

VARIABLE part  \* the component that runs

VARIABLES written, counting, split, pushIndex, upStored, tag, saved, keeps,
          snap, since, triggered, inflight, retries, synced, failures, starts
upPart == <<written, counting, split, pushIndex, upStored, tag, saved, keeps,
            snap, since, triggered, inflight, retries, synced, failures,
            starts>>
U == INSTANCE Upload WITH
       Input <- <<1, 2, 1>>, Jobs <- 2, RetryCount <- 2, MaxFailures <- 1,
       MaxRestarts <- 1, stored <- upStored

VARIABLES phase, span, size, pos, buffer, left, right, toggled, routines,
          answer, chunks
bmtPart == <<phase, span, size, pos, buffer, left, right, toggled, routines,
             answer, chunks>>
H == INSTANCE Bmt WITH
       SegmentCount <- 8, Writes <- {3, 5}, Spans <- {7}, MaxChunks <- 2

-----------------------------------------------------------------------------
MCInit ==
  /\ part \in {"puller", "upload", "bmt"}
  /\ Init /\ U!Init /\ H!Init

MCNext ==
  \/ /\ part = "puller" /\ Next
     /\ UNCHANGED <<part, upPart, bmtPart>>
  \/ /\ part = "upload" /\ U!Next
     /\ UNCHANGED <<part, pullVars, bmtPart>>
  \/ /\ part = "bmt" /\ H!Next
     /\ UNCHANGED <<part, pullVars, upPart>>

mcVars == <<part, pullVars, upPart, bmtPart>>

\* The fairness of the part that runs, as its module states it.
MCFairness ==
  /\ WF_upPart(part = "upload" /\ U!SubscribePush)
  /\ WF_upPart(part = "upload" /\ U!TakeChunk)
  /\ WF_upPart(part = "upload" /\ \E c \in U!Chunk : U!Job(c))
  /\ WF_pullVars(part = "puller" /\ Manage)
  /\ WF_pullVars(part = "puller" /\ GetCursors)
  /\ WF_pullVars(part = "puller" /\ \E i \in Slots : Work(i))
  /\ WF_pullVars(part = "puller" /\ \E i \in Slots : Abandoned(i))
  /\ WF_bmtPart(part = "bmt" /\ H!RoutineStep)
  /\ WF_bmtPart(part = "bmt" /\ H!Receive)

MCSpec == MCInit /\ [][MCNext]_mcVars /\ MCFairness
-----------------------------------------------------------------------------
\* A chunk of the push index is synced in the end (pusher).
EveryChunkSynced == part = "upload" => U!EveryChunkSynced
\* The concurrent hasher implements the reference hasher (bmt).
ImplementsReference == H!ImplementsReference
=============================================================================
