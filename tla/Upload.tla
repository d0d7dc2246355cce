------------------------------- MODULE Upload -------------------------------
(***************************************************************************)
(* An upload on its way into the network: the pipeline's store writer, the *)
(* tag that counts its chunks (pkg/tags), the push index and the           *)
(* subscription to it (pkg/localstore), and the pusher with its concurrent *)
(* jobs (pkg/pusher).  What becomes of one push is a choice here; pushsync *)
(* is modelled in PushSync.  Chunks are numbered in the order of the index.*)
(***************************************************************************)
EXTENDS Integers, SequencesExt

CONSTANTS
  Input,        \* the chunks the upload splits into; equal content repeats
  Jobs,         \* concurrentJobs
  RetryCount,   \* shallow receipts after which a chunk counts as synced
  MaxFailures, MaxRestarts   \* bounds: failed pushes, restarts

VARIABLES
  written,      \* chunks of the input handed to the store
  counting,     \* the store writer has still to count its last chunk, and if it was seen
  split,        \* DoneSplit was called
  pushIndex, stored,   \* the local store: chunks to push, and all chunks
  tag, saved,   \* the tag in memory and in the state store
  keeps,        \* the tag in memory has a state store to save to
  snap, since,  \* the subscription: items left of an iteration, and its last item
  triggered,    \* a put has signalled the subscription
  inflight,     \* chunks being pushed
  retries,      \* shallow receipts per chunk
  synced,       \* jobs that have set their chunk synced and not yet counted it
  failures, starts

upVars == <<written, counting, split, pushIndex, stored, tag, saved, keeps, snap, since,
            triggered, inflight, retries, synced, failures, starts>>
uploadVars == <<written, counting, split>>
tagVars == <<tag, saved, keeps>>
subVars == <<snap, since, triggered>>
jobVars == <<inflight, retries, synced>>

Chunk == ToSet(Input)
NoTag == [total |-> -1, split |-> 0, stored |-> 0, seen |-> 0, sent |-> 0, synced |-> 0]

Init ==
  /\ written = 0 /\ counting = <<>> /\ split = FALSE
  /\ pushIndex = {} /\ stored = {}
  /\ tag = [NoTag EXCEPT !.total = 0] /\ saved = NoTag /\ keeps = TRUE
  /\ snap = {} /\ since = 0 /\ triggered = FALSE
  /\ inflight = {} /\ retries = [c \in Chunk |-> 0] /\ synced = {}
  /\ failures = 0 /\ starts = 0

-----------------------------------------------------------------------------
\* A put signals the subscriptions; one signal is remembered.
TriggerPushSubscriptions == triggered' = TRUE

\* IncN of one of the tag's counters.
IncN(t, state, n) == [t EXCEPT ![state] = @ + n]

\* saveTag: a tag that was loaded from the state store is not written back.
SaveTag(t) == IF keeps THEN t ELSE saved

\* ChainWrite: the chunk is counted as split and put; a put of a new chunk
\* enters it into the push index and triggers the subscriptions.
ChainWrite ==
  LET c == Input[written + 1] IN
  /\ written < Len(Input) /\ counting = <<>> /\ starts = 0
  /\ written' = written + 1 /\ counting' = <<c \in stored>>
  /\ tag' = IncN(tag, "split", 1)
  /\ stored' = stored \cup {c}
  /\ pushIndex' = IF c \in stored THEN pushIndex ELSE pushIndex \cup {c}
  /\ TriggerPushSubscriptions
  /\ UNCHANGED <<split, saved, keeps, snap, since, jobVars, failures, starts>>

\* The store writer counts the chunk as stored, and as seen.
CountStored ==
  /\ counting # <<>> /\ counting' = <<>>
  /\ tag' = IncN(IncN(tag, "stored", 1), "seen", IF counting[1] THEN 1 ELSE 0)
  /\ UNCHANGED <<written, split, pushIndex, stored, saved, keeps, subVars, jobVars, failures,
                 starts>>

\* DoneSplit: the total is what was split.
DoneSplit ==
  /\ written = Len(Input) /\ counting = <<>> /\ ~split /\ starts = 0 /\ split' = TRUE
  /\ tag' = [tag EXCEPT !.total = tag.split] /\ saved' = SaveTag(tag')
  /\ UNCHANGED <<written, counting, pushIndex, stored, keeps, subVars, jobVars, failures, starts>>

-----------------------------------------------------------------------------
\* Mutant: the timer only goes on behind the last item.
SubscribeBehind ==
  /\ snap = {} /\ pushIndex # {}
  /\ snap' = {c \in pushIndex : c > since} /\ triggered' = FALSE
  /\ UNCHANGED <<uploadVars, pushIndex, stored, tagVars, since, jobVars, failures, starts>>

\* The timer of the worker: when the subscription has nothing to deliver, a new
\* one starts from the beginning of the index.
SubscribePush ==
  /\ snap = {} /\ pushIndex # {}
  /\ since' = 0 /\ snap' = pushIndex /\ triggered' = FALSE
  /\ UNCHANGED <<uploadVars, pushIndex, stored, tagVars, jobVars, failures, starts>>

\* The edge detector turns any number of signals into one.
FallingEdge == triggered /\ triggered' = FALSE

\* A trigger lets the subscription go on behind the last item it delivered.
Iterate ==
  /\ FallingEdge /\ snap = {}
  /\ snap' = {c \in pushIndex : c > since}
  /\ UNCHANGED <<uploadVars, pushIndex, stored, tagVars, since, jobVars, failures, starts>>

\* The worker takes the next item of the iteration, which reads the index as it
\* was when it started; a chunk that is being pushed is left alone.
TakeChunk ==
  LET c == Min(snap) IN
  /\ snap # {} /\ Cardinality(inflight) < Jobs
  /\ snap' = snap \ {c} /\ since' = c
  /\ inflight' = inflight \cup {c}
  /\ UNCHANGED <<uploadVars, pushIndex, stored, tagVars, triggered, retries, synced, failures,
                 starts>>

\* The job ends, its entry is removed.
Finish(c) == inflight' = inflight \ {c}

\* The push fails: the chunk stays in the index.
FailPush(c) ==
  /\ c \in inflight \ synced /\ failures < MaxFailures /\ failures' = failures + 1
  /\ Finish(c)
  /\ UNCHANGED <<uploadVars, pushIndex, stored, tagVars, subVars, retries, synced, starts>>

\* A receipt of a node outside the neighbourhood fails the push, until there were
\* too many of them.
ShallowReceipt(c) ==
  /\ c \in inflight \ synced /\ retries[c] + 1 < RetryCount
  /\ retries' = [retries EXCEPT ![c] = @ + 1] /\ Finish(c)
  /\ UNCHANGED <<uploadVars, pushIndex, stored, tagVars, subVars, synced, failures, starts>>

\* ModeSetSync: the chunk leaves the push index.
SetSync(c) ==
  /\ c \in inflight \ synced
  /\ pushIndex' = pushIndex \ {c} /\ synced' = synced \cup {c}
  /\ UNCHANGED <<uploadVars, stored, tagVars, subVars, inflight, retries, failures, starts>>

\* Get: the tag is in memory, or was found in the state store.
GetTag == tag # NoTag

\* The tag counts the chunk, also as sent when this node is the closest one, and
\* is saved once everything is synced.  Without the tag the job just ends.
IncSynced(c) ==
  /\ c \in synced /\ synced' = synced \ {c} /\ Finish(c)
  /\ retries' = [retries EXCEPT ![c] = 0]
  /\ IF ~GetTag THEN UNCHANGED tagVars
     ELSE /\ \E self \in {0, 1} : tag' = IncN(IncN(tag, "synced", 1), "sent", self)
          /\ saved' = IF tag'.synced >= tag'.total - tag'.seen
                      THEN SaveTag([tag' EXCEPT !.sent = tag.sent]) ELSE saved
          /\ UNCHANGED keeps
  /\ UNCHANGED <<uploadVars, pushIndex, stored, subVars, failures, starts>>

-----------------------------------------------------------------------------
\* getTagFromStore: the tag as it was saved, with nothing to save it to.
LoadTag(t) == tag' = t /\ keeps' = FALSE

\* Close: the tags in memory are saved.
CloseTags == saved' = SaveTag(tag)

\* The node ends, saving its tags or not, and starts again; the tag is loaded
\* from the state store when it is needed.
Restart ==
  /\ starts < MaxRestarts /\ starts' = starts + 1
  /\ CloseTags \/ UNCHANGED saved
  /\ LoadTag(saved')
  /\ counting' = <<>>
  /\ inflight' = {} /\ synced' = {} /\ retries' = [c \in Chunk |-> 0]
  /\ snap' = {} /\ since' = 0 /\ triggered' = FALSE
  /\ UNCHANGED <<written, split, pushIndex, stored, failures>>

Job(c) == FailPush(c) \/ ShallowReceipt(c) \/ SetSync(c) \/ IncSynced(c)
Next ==
  \/ ChainWrite \/ CountStored \/ DoneSplit \/ SubscribePush \/ Iterate \/ TakeChunk \/ Restart
  \/ \E c \in Chunk : FailPush(c)
  \/ \E c \in Chunk : ShallowReceipt(c)
  \/ \E c \in Chunk : SetSync(c)
  \/ \E c \in Chunk : IncSynced(c)

\* The worker's loop and its timer go on, and a push has a result.
Fairness ==
  /\ WF_upVars(SubscribePush) /\ WF_upVars(TakeChunk)
  /\ WF_upVars(\E c \in Chunk : Job(c))
Spec == Init /\ [][Next]_upVars /\ Fairness
-----------------------------------------------------------------------------
(***************************************************************************)
(* Again and again the push index is empty: every chunk of the upload is   *)
(* synced in the end, whatever the other jobs do, after failed pushes,     *)
(* shallow receipts and restarts of the node.                              *)
(***************************************************************************)
EveryChunkSynced == []<>(pushIndex = {})
=============================================================================
