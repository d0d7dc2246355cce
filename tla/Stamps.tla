------------------------------- MODULE Stamps -------------------------------
(***************************************************************************)
(* The node's own batches: buying one (pkg/postage/postagecontract), the   *)
(* stamp issuers of the postage service (pkg/postage), the stamps of       *)
(* concurrent uploads, and the check of a stamp by a peer.  An issuer is   *)
(* added by the request that bought the batch and by the event of its      *)
(* creation, in either order, and again when a resynchronisation replays   *)
(* the event.  Issuers are stored when the node is closed, not before.     *)
(***************************************************************************)
EXTENDS Naturals, Sequences

CONSTANTS
  Owned,           \* batches the node may buy
  Bucket,          \* collision buckets
  Slots,           \* 2^(depth - bucketDepth)
  BlockThreshold,  \* blocks after creation before an issuer is usable
  MaxHeight,       \* bound: blocks of the chain
  MaxLives         \* bound: starts of the node

ASSUME StampsAssumption == Slots \in Nat /\ BlockThreshold \in Nat

VARIABLES
  height, created, \* the chain: height, and the block each batch was created in
  csBlock,         \* chain state block of the node's batch store
  request,         \* state of the purchase of each batch
  issuers,         \* the service's list of issuers
  saved,           \* the issuers in the state store
  sessions,        \* issuers held by uploads: positions in the list
  issued,          \* how often each stamp index was used since issuers were lost
  lives

stampVars == <<height, created, csBlock, request, issuers, saved, sessions, issued, lives>>

NewStampIssuer(b, block) ==
  [batch |-> b, block |-> block, buckets |-> [k \in Bucket |-> 0]]

StampsInit ==
  /\ height = 0 /\ created = [b \in Owned |-> 0] /\ csBlock = 0
  /\ request = [b \in Owned |-> "none"]
  /\ issuers = <<>> /\ saved = <<>> /\ sessions = {} /\ lives = 1
  /\ issued = [s \in Owned \X Bucket \X (0..Slots) |-> 0]

\* Mutant: a second issuer of a batch takes the place of the first.
AddLast(st) ==
  IF \E i \in DOMAIN issuers : issuers[i].batch = st.batch
  THEN issuers' = [i \in DOMAIN issuers |-> IF issuers[i].batch = st.batch THEN st ELSE issuers[i]]
  ELSE issuers' = Append(issuers, st)

\* The first issuer of a batch stays.
Add(st) ==
  IF \E i \in DOMAIN issuers : issuers[i].batch = st.batch
  THEN UNCHANGED issuers ELSE issuers' = Append(issuers, st)

-----------------------------------------------------------------------------
\* CreateBatch: checks of depth and balance and the approval come first, any
\* of them may fail; then the transaction that creates the batch is sent.
CreateBatch(b) ==
  /\ request[b] = "none" /\ created[b] = 0
  /\ request' = [request EXCEPT ![b] = "sent"]
  /\ UNCHANGED <<height, created, csBlock, issuers, saved, sessions, issued, lives>>

\* A block is mined (external); it may include a transaction that was sent.
MineBlock ==
  /\ height < MaxHeight /\ height' = height + 1
  /\ \/ UNCHANGED created
     \/ \E b \in Owned : /\ request[b] # "none" /\ created[b] = 0
                        /\ created' = [created EXCEPT ![b] = height']
  /\ UNCHANGED <<csBlock, request, issuers, saved, sessions, issued, lives>>

\* The receipt arrives, with the event of the creation.
Receipt(b) ==
  /\ request[b] = "sent" /\ created[b] # 0
  /\ request' = [request EXCEPT ![b] = "done"]
  /\ Add(NewStampIssuer(b, created[b]))
  /\ UNCHANGED <<height, created, csBlock, saved, sessions, issued, lives>>

\* The request ends without its receipt: the caller went away or waited too long.
Abandon(b) ==
  /\ request[b] = "sent" /\ request' = [request EXCEPT ![b] = "done"]
  /\ UNCHANGED <<height, created, csBlock, issuers, saved, sessions, issued, lives>>

\* The batch service reaches the next block, and its batch creation listener
\* hears of the node's batches in it.
Handle ==
  /\ csBlock < height /\ csBlock' = csBlock + 1
  /\ \/ \E b \in Owned : created[b] = csBlock' /\ Add(NewStampIssuer(b, csBlock'))
     \/ (\A b \in Owned : created[b] # csBlock') /\ UNCHANGED issuers
  /\ UNCHANGED <<height, created, request, saved, sessions, issued, lives>>

-----------------------------------------------------------------------------
IssuerUsable(st) == csBlock >= st.block /\ csBlock - st.block >= BlockThreshold

\* An upload asks for the issuer of a batch and keeps it for its stampers.
GetStampIssuer(i) ==
  /\ i \in DOMAIN issuers \ sessions /\ IssuerUsable(issuers[i])
  /\ sessions' = sessions \cup {i}
  /\ UNCHANGED <<height, created, csBlock, request, issuers, saved, issued, lives>>

BucketFull(i, k) == issuers[i].buckets[k] = Slots

\* The counter of the chunk's bucket moves on.
Inc(i, k) == ~BucketFull(i, k) /\ issuers' = [issuers EXCEPT ![i].buckets[k] = @ + 1]

\* Stamp: the counter before it moved on becomes the index.
Stamp(i, k) ==
  /\ i \in sessions /\ Inc(i, k)
  /\ issued' = [issued EXCEPT ![<<issuers[i].batch, k, issuers[i].buckets[k]>>] = @ + 1]
  /\ UNCHANGED <<height, created, csBlock, request, saved, sessions, lives>>

\* A peer's check of a stamp: it knows the batch, and the index is in range.
Valid(b, index, peerBlock) == created[b] # 0 /\ created[b] <= peerBlock /\ index < Slots

-----------------------------------------------------------------------------
\* Close stores every issuer under its position; NewService reads them back.
\* The batch service may have been reset meanwhile, and replays the chain.
NewService ==
  \E n \in {0, csBlock} :
    /\ lives < MaxLives /\ lives' = lives + 1
    /\ issuers' = saved' /\ sessions' = {} /\ csBlock' = n
    /\ request' = [b \in Owned |-> IF request[b] = "none" THEN "none" ELSE "done"]
    /\ UNCHANGED <<height, created>>

Close == saved' = issuers /\ UNCHANGED issued /\ NewService

\* The process ends without Close: counters since the last Close are lost.
Crash ==
  /\ UNCHANGED saved /\ issued' = [s \in DOMAIN issued |-> 0]
  /\ NewService

StampsNext ==
  \/ MineBlock \/ Handle \/ Close \/ Crash
  \/ \E b \in Owned : CreateBatch(b) \/ Receipt(b) \/ Abandon(b)
  \/ \E i \in DOMAIN issuers : GetStampIssuer(i) \/ \E k \in Bucket : Stamp(i, k)

StampsSpec == StampsInit /\ [][StampsNext]_stampVars
-----------------------------------------------------------------------------
(***************************************************************************)
(* As long as the node is closed properly, no stamp index is issued twice, *)
(* whichever of the two paths added the issuer and however often events    *)
(* are replayed; and every stamp is valid for a peer that is at most       *)
(* BlockThreshold blocks behind the head.                                  *)
(***************************************************************************)
StampsUniqueAndValid ==
  \A b \in Owned, k \in Bucket, n \in 0..Slots :
    issued[<<b, k, n>>] > 0 =>
      /\ issued[<<b, k, n>>] = 1
      /\ height >= BlockThreshold /\ Valid(b, n, height - BlockThreshold)
=============================================================================
