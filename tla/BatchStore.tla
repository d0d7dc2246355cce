----------------------------- MODULE BatchStore -----------------------------
(***************************************************************************)
(* The view a node keeps of the postage contract: the chain syncer         *)
(* (pkg/syncer) feeds blocks and events to the batch service               *)
(* (pkg/postage/batchservice), which updates the batch store               *)
(* (pkg/postage/batchstore) and its reserve state.  A crash may come       *)
(* between any two steps; a flag kept while a page is applied makes the    *)
(* next start discard everything and sync again.                           *)
(***************************************************************************)
EXTENDS Integers, Sequences, SequencesExt

CONSTANTS
  BatchIds,        \* batch ids, numbers: the order of ids breaks ties of value
  Value, Depth, Price,   \* normalised balances, depths and prices of events
  Capacity,        \* chunks in the reserve
  DefaultDepth,    \* initial radius
  SwarmMaxPO,      \* swarm.MaxPO
  TailSize, BlockPage,   \* the syncer stays behind the head and pages
  MaxBlock,        \* bound: height of the chain
  MaxQueue         \* bound: length of the unreserve queue

ASSUME BatchStoreAssumption ==
  /\ Value \subseteq Nat /\ Depth \subseteq Nat /\ Price \subseteq Nat
  /\ TailSize \in Nat /\ BlockPage \in Nat

VARIABLES
  chain,    \* the contract: per block its event and its state afterwards
  batches,  \* persisted: value and depth of the batches known
  prs, pcs, \* persisted: reserve state and chain state
  unreserveQueue,  \* persisted
  dirtyDB,  \* persisted: a page is being applied
  rs, cs,   \* the reserve state and the chain state in memory
  from,     \* next block to sync
  pc, to    \* the syncer: what it does next, the last block of its page

batchVars == <<chain, batches, prs, pcs, unreserveQueue, dirtyDB, rs, cs, from, pc, to>>

Absent == [value |-> 0, depth |-> 0]
NoState == [none |-> TRUE]

NewChainState(block) == [block |-> block, total |-> 0, price |-> 0]
NewReserveState == [radius |-> DefaultDepth, storage |-> 0, available |-> Capacity,
                    inner |-> 0, outer |-> 0]

\* Exponents are uint8 and the result is int64: 2^64 and beyond are 0.
Exp2(e) == LET w == e % 256 IN
           IF w > 63 THEN 0 ELSE IF w = 63 THEN -(2^63) ELSE 2^w

Tier(r, v) ==
  IF v < r.inner \/ r.inner = 0 THEN "unreserved"
  ELSE IF v < r.outer THEN "inner" ELSE "outer"

Size(r, depth, tier) ==
  LET half == Exp2(depth - r.radius - 1)
  IN  IF tier = "inner" THEN half ELSE IF tier = "outer" THEN 2 * half ELSE 0

Radius(r, tier) ==
  IF tier = "unreserved" THEN SwarmMaxPO
  ELSE IF tier = "inner" THEN r.radius ELSE r.radius - 1

\* setLimits: a value below every other one lowers the inner limit.
LowestSoFar(r, v) == Tier(r, v) = "unreserved" /\ (r.inner = 0 \/ r.inner > v)
SetLimits(r, v) ==
  IF ~LowestSoFar(r, v) THEN r
  ELSE [r EXCEPT !.inner = v, !.outer = IF r.outer = r.inner THEN v ELSE @]
NewTier(r, v) ==
  IF ~LowestSoFar(r, v) THEN Tier(r, v)
  ELSE IF r.outer = r.inner THEN "outer" ELSE "inner"

\* The radius a stored batch is served with (Get).
BatchRadius(r, v) == IF r.storage < r.radius THEN r.storage ELSE Radius(r, Tier(r, v))

-----------------------------------------------------------------------------
Genesis == [total |-> 0, price |-> 0, bal |-> [b \in BatchIds |-> Absent]]
ContractAt(n) == IF n = 0 THEN Genesis ELSE chain[n].after
Live(st, b) == st.bal[b].value > st.total
EventAt(n) == chain[n].event

BatchInit ==
  /\ chain = <<>>
  /\ batches = [b \in BatchIds |-> Absent] /\ prs = NoState /\ pcs = NoState
  /\ unreserveQueue = <<>> /\ dirtyDB = FALSE
  /\ rs = NewReserveState /\ cs = NewChainState(0) /\ from = 1
  /\ pc = "idle" /\ to = 0

(***************************************************************************)
(* The postage stamp contract (external): a block adds the price to the    *)
(* total out payment and carries at most one event.  Batches are created   *)
(* once, topped up and diluted only while they have a balance.  What is    *)
(* mined while the syncer applies a page is not read before the next one.  *)
(***************************************************************************)
Mine ==
  LET st == ContractAt(Len(chain))
      at == [st EXCEPT !.total = @ + st.price]
      Block(event, after) == chain' = Append(chain, [event |-> event, after |-> after])
  IN
  /\ pc = "idle" /\ Len(chain) < MaxBlock
  /\ \/ Block([type |-> "none"], at)
     \/ \E p \in Price \ {st.price} :
          Block([type |-> "price", price |-> p], [at EXCEPT !.price = p])
     \/ \E b \in BatchIds, v \in Value, d \in Depth :
          /\ v > at.total
          /\ \/ at.bal[b] = Absent
             \/ Live(at, b) /\ v > at.bal[b].value /\ d = at.bal[b].depth
             \/ Live(at, b) /\ v < at.bal[b].value /\ d > at.bal[b].depth
          /\ Block([type |-> IF at.bal[b] = Absent THEN "created" ELSE "changed",
                    batch |-> b, value |-> v, depth |-> d],
                   [at EXCEPT !.bal[b] = [value |-> v, depth |-> d]])
  /\ UNCHANGED <<batches, prs, pcs, unreserveQueue, dirtyDB, rs, cs, from, pc, to>>

-----------------------------------------------------------------------------
\* evictExpired: what the batches valued below the new inner limit give back,
\* the new limits, and the batches without a balance, which are deleted.
Until(r, total) == IF r.inner > 0 /\ total >= r.inner THEN total + 1 ELSE r.inner
Evicted(r, total) ==
  {b \in BatchIds : batches[b] # Absent /\ batches[b].value < Until(r, total)}
GivenBack(r, b) ==
  LET v == batches[b].value
      multiplier == IF v < r.inner THEN 0 ELSE IF v < r.outer THEN 1 ELSE 2
  IN  multiplier * Exp2(BatchRadius(r, v) - r.radius - 1)
EvictExpired(r, total) ==
  LET until == Until(r, total)
      evicted == Evicted(r, total)
  IN  /\ rs' = [r EXCEPT !.available = @ + SumFunction([b \in evicted |-> GivenBack(r, b)]),
                         !.inner = until, !.outer = Max({@, until})]
      /\ batches' = [b \in BatchIds |->
           IF b \in evicted /\ batches[b].value <= total THEN Absent ELSE batches[b]]

PutChainState(c) ==
  /\ cs' = c
  /\ EvictExpired(rs, c.total)
  /\ prs' = rs' /\ pcs' = c

UpdateBlockNumber(n) ==
  IF n = cs.block THEN UNCHANGED <<cs, rs, prs, pcs, batches>>
  ELSE PutChainState([cs EXCEPT !.block = n, !.total = @ + (n - cs.block) * cs.price])

\* Mutant: capacity is evicted one chunk late.
EvictLate(r) == IF r.available < -1 THEN "evictOuter" ELSE "events"
\* evictOuter has nothing to do while the capacity is not negative.
AfterUpdate(r) == IF r.available < 0 THEN "evictOuter" ELSE "events"

\* Put and update: the reserve state in memory changes; only evictOuter
\* stores it, and only when it had something to evict.
Change(oldv, newv, oldDepth, newDepth) ==
  LET lim == SetLimits(rs, newv) IN
  Size(lim, oldDepth, Tier(rs, oldv)) - Size(lim, newDepth, NewTier(rs, newv))

\* The unreserve queue: a batch and the radius it is kept within.
Enqueue(q, b, radius) == Append(q, [batch |-> b, radius |-> radius])

Update(b, oldDepth, oldv, newv, newDepth) ==
  LET lim == SetLimits(rs, newv) IN
  /\ rs' = [lim EXCEPT !.available = @ + Change(oldv, newv, oldDepth, newDepth)]
  /\ unreserveQueue' = Enqueue(unreserveQueue, b, Radius(lim, NewTier(rs, newv)))
  /\ pc' = AfterUpdate(rs')

PutBatch(b, old, v, d) ==
  /\ batches' = [batches EXCEPT ![b] = [value |-> v, depth |-> d]]
  /\ Update(b, old.depth, old.value, v, d)
  /\ UNCHANGED <<prs, pcs, cs>>

\* One pass of evictOuter over the batches by value, from the outer limit up
\* to the one that makes the capacity positive and its equals.
EvictOuter ==
  LET Candidate == {b \in BatchIds : batches[b] # Absent /\ batches[b].value >= rs.outer}
      Half(b) == Exp2(batches[b].depth - rs.radius - 1)
      Below(b) == {c \in Candidate : batches[c].value < batches[b].value}
      out == {b \in Candidate :
                rs.available + SumFunction([c \in Below(b) |-> Half(c)]) < 0}
      available == rs.available + SumFunction([b \in out |-> Half(b)])
      Before(b, c) == \/ batches[b].value < batches[c].value
                      \/ batches[b].value = batches[c].value /\ b < c
      order == SetToSortSeq(out, Before)
      outer == Max({rs.outer} \cup {batches[b].value : b \in out}) + 1
  IN
  /\ pc = "evictOuter"
  /\ unreserveQueue' = FoldLeft(LAMBDA q, b : Enqueue(q, b, rs.radius), unreserveQueue, order)
  /\ IF available < 0
     THEN /\ rs' = [rs EXCEPT !.available = available, !.radius = @ + 1, !.outer = rs.inner]
          /\ UNCHANGED <<prs, pc>>
     ELSE /\ rs' = [rs EXCEPT !.available = available, !.outer = outer]
          /\ prs' = rs' /\ pc' = "events"
  /\ UNCHANGED <<chain, batches, pcs, dirtyDB, cs, from, to>>

-----------------------------------------------------------------------------
\* The flag in the state store that a page is being applied.
TransactionStart == dirtyDB' = TRUE
TransactionEnd == dirtyDB' = FALSE

\* The syncer reads a page of blocks and opens a transaction.
SyncPage ==
  LET height == Len(chain) - TailSize IN
  /\ pc = "idle" /\ height >= from
  /\ to' = IF height - from > BlockPage THEN from + BlockPage ELSE height
  /\ TransactionStart /\ pc' = "events"
  /\ UNCHANGED <<chain, batches, prs, pcs, unreserveQueue, rs, cs, from>>

Pending == {n \in from..to : EventAt(n).type # "none"}

\* The next event of the page: the block number first, then the event.
SyncBlock ==
  /\ pc = "events" /\ Pending # {}
  /\ UpdateBlockNumber(Min(Pending))
  /\ from' = Min(Pending) /\ pc' = "event"
  /\ UNCHANGED <<chain, unreserveQueue, dirtyDB, to>>

\* A new batch has no value yet and its depth from the start.
Create(e) == PutBatch(e.batch, [value |-> 0, depth |-> e.depth], e.value, e.depth)

\* TopUp and UpdateDepth: an unknown batch is an error.
Known(e) == batches[e.batch] # Absent
ChangeBatch(e) == Known(e) /\ PutBatch(e.batch, batches[e.batch], e.value, e.depth)

UpdatePrice(e) ==
  PutChainState([cs EXCEPT !.price = e.price]) /\ pc' = "events" /\ UNCHANGED unreserveQueue

\* An event that fails shuts the node down, with the page open.
ProcessEvent ==
  LET e == EventAt(from) IN
  /\ pc = "event" /\ (e.type = "price" \/ Len(unreserveQueue) < MaxQueue)
  /\ CASE e.type = "price" -> UpdatePrice(e)
       [] e.type = "created" -> Create(e)
       [] e.type = "changed" /\ Known(e) -> ChangeBatch(e)
       [] OTHER -> pc' = "stopped" /\ UNCHANGED <<unreserveQueue, rs, cs, prs, pcs, batches>>
  /\ from' = from + 1
  /\ UNCHANGED <<chain, dirtyDB, to>>

EndPage ==
  /\ pc = "events" /\ Pending = {}
  /\ UpdateBlockNumber(to)
  /\ TransactionEnd /\ from' = to + 1 /\ pc' = "idle"
  /\ UNCHANGED <<chain, unreserveQueue, to>>

\* The localstore takes an item off the unreserve queue.
Unreserve ==
  /\ unreserveQueue # <<>>
  /\ LET radius == Head(unreserveQueue).radius IN
       IF rs.storage + 1 < radius
       THEN rs' = [rs EXCEPT !.storage = radius - 1] /\ prs' = rs'
       ELSE UNCHANGED <<rs, prs>>
  /\ unreserveQueue' = Tail(unreserveQueue)
  /\ UNCHANGED <<chain, batches, pcs, dirtyDB, cs, from, pc, to>>

\* New of the store reads the states, or starts with the defaults.
ReadStates ==
  /\ rs' = IF prs = NoState THEN NewReserveState ELSE prs
  /\ cs' = IF pcs = NoState THEN NewChainState(0) ELSE pcs

\* Reset deletes everything under the prefix of the store.
Reset ==
  /\ batches' = [b \in BatchIds |-> Absent]
  /\ prs' = NoState /\ pcs' = NoState /\ unreserveQueue' = <<>>
  /\ rs' = NewReserveState /\ cs' = NewChainState(0)

\* The page starts at the block after the chain state (Sync).
StartSync == from' = cs'.block + 1 /\ pc' = "idle" /\ to' = 0

\* Mutant: a dirty store is not reset.
KeepDirty ==
  /\ ReadStates /\ StartSync /\ dirtyDB' = FALSE
  /\ UNCHANGED <<chain, batches, prs, pcs, unreserveQueue>>

\* The process ends, at any point, and starts again: New of the service resets
\* a store that was left dirty.
RestartService ==
  /\ IF dirtyDB THEN Reset ELSE ReadStates /\ UNCHANGED <<batches, prs, pcs, unreserveQueue>>
  /\ dirtyDB' = FALSE /\ StartSync
  /\ UNCHANGED chain

BatchNext ==
  \/ Mine \/ SyncPage \/ SyncBlock \/ ProcessEvent \/ EvictOuter \/ EndPage
  \/ Unreserve \/ RestartService

BatchSpec == BatchInit /\ [][BatchNext]_batchVars
-----------------------------------------------------------------------------
(***************************************************************************)
(* Between pages the node's view is the contract's: the chain state is     *)
(* that of the block reached, every batch with a balance is known with its *)
(* value and depth, and no unknown batch is.  Events are applied exactly   *)
(* once, whatever crashes and resynchronisations came before, and none     *)
(* stops the syncer because it names a batch the node does not know.       *)
(***************************************************************************)
ViewOfChain ==
  /\ pc # "stopped"
  /\ pc = "idle" =>
    LET st == ContractAt(cs.block) IN
    /\ cs.block = from - 1
    /\ cs.total = st.total /\ cs.price = st.price
    /\ \A b \in BatchIds :
         /\ Live(st, b) => batches[b] = st.bal[b]
         /\ batches[b] # Absent => batches[b] = st.bal[b]

(***************************************************************************)
(* Rule 3 of the reserve: outside evictOuter the reserve is never promised *)
(* beyond its capacity, and the limits of the tiers are ordered.           *)
(***************************************************************************)
WithinCapacity ==
  pc # "evictOuter" => rs.available >= 0 /\ rs.inner <= rs.outer

(***************************************************************************)
(* PutChainState purges expired batches: between pages no batch is stored  *)
(* whose value the total out payment has reached.                          *)
(***************************************************************************)
ExpiredPurged ==
  pc = "idle" => \A b \in BatchIds : batches[b] # Absent => batches[b].value > cs.total
=============================================================================
