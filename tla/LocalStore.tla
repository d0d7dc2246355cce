----------------------------- MODULE LocalStore -----------------------------
(***************************************************************************)
(* The chunk database of a node (pkg/localstore): its indexes, the write   *)
(* modes of Put and Set, the deferred access-time update of Get, the       *)
(* garbage collector and the eviction of the reserve.                      *)
(*                                                                         *)
(* The persisted state is one record, db, because leveldb applies a write  *)
(* batch atomically.  An operation reads the stored state d and collects   *)
(* its writes in w: reads never see the writes of the same batch, and the  *)
(* two counters are written as absolute values computed from d.            *)
(***************************************************************************)
EXTENDS Integers, FiniteSets, Sequences, FiniteSetsExt

CONSTANTS
  Chunk,            \* chunk addresses; each carries one postage stamp
  Batch,            \* postage batches
  None,             \* no chunk
  BatchOf, SlotOf,  \* the batch and the (batch, index) slot of a chunk's stamp
  StampTime,        \* the timestamp of a chunk's stamp
  Immutable,        \* the immutable batches
  PO,               \* proximity order of a chunk to the node's address
  MaxPO,            \* swarm.MaxPO, the farthest bin
  CacheCapacity, GCTarget, GCBatchSize,
  ReserveCapacity, EvictionTarget,
  UInt64,           \* the modulus of the stored counters
  MaxSerial,        \* bound: number of timestamps handed out
  MaxPending,       \* bound: access updates waiting for the lock
  MaxPin,           \* bound: the pin counter
  PutInput,         \* the calls of Put: mode, and chunks with their radius
  SetInput,         \* the calls of Set: mode and chunk
  GetInput,         \* the chunks read in request mode
  Unreserves,       \* the sequences the unreserve queue may hold at first
  Expiring          \* the batches that may expire

VARIABLES
  db,         \* the persisted indexes and counters
  serial,     \* clock behind now() and the bin ids
  gcTrigger, evTrigger,     \* the two one-slot trigger channels
  gcpc, candidates, dirty,  \* the collector: phase, candidates, dirtyAddresses
  pending,    \* access updates of Get waiting for batchMu
  queue,      \* the unreserve queue of the batch store
  evict       \* the eviction of an expired batch, which takes no lock

vars == <<db, serial, gcTrigger, evTrigger, gcpc, candidates, dirty, pending,
          queue, evict>>

Slot == {SlotOf[c] : c \in Chunk}
Wrap(n) == n % UInt64
NoRadius == -1

\* An entry of the gc index: its key is access time, bin id and address; idx
\* says whether the value holds the stamp's index.
GCEntry(c, ts, id, idx) == [c |-> c, ts |-> ts, id |-> id, idx |-> idx]
InGC(d, c, ts, id) == \E g \in d.gc : g.c = c /\ g.ts = ts /\ g.id = id
DropGC(gc, c, ts, id) == {g \in gc : ~(g.c = c /\ g.ts = ts /\ g.id = id)}
GCBefore(g, h) == g.ts < h.ts \/ (g.ts = h.ts /\ g.id < h.id)

EmptyDB == [data    |-> [c \in Chunk |-> 0],   \* bin id, 0 when absent
            access  |-> [c \in Chunk |-> 0],   \* access time, 0 when absent
            gc      |-> {},
            pin     |-> [c \in Chunk |-> 0],
            pull    |-> {}, push |-> {},       \* pairs of bin id and address
            pchunks |-> {},
            pindex  |-> [s \in Slot |-> None],
            radius  |-> [b \in Batch |-> NoRadius],
            gcSize  |-> 0, reserveSize |-> 0]

Idle == [pc |-> "idle"]
Done == [pc |-> "done"]   \* bound: one batch expires

Init ==
  /\ db = EmptyDB /\ serial = 0
  /\ gcTrigger = FALSE /\ evTrigger = FALSE
  /\ gcpc = "idle" /\ candidates = {} /\ dirty = {}
  /\ pending = {} /\ queue \in Unreserves /\ evict = Idle

-----------------------------------------------------------------------------
(* Helpers on a batch: w.db is the state after the writes so far.          *)

Begin(d) == [db |-> d, dgc |-> 0, ev |-> evTrigger, ok |-> TRUE, tick |-> serial]
Fail(w) == [w EXCEPT !.ok = FALSE]
Tick(w) == [w EXCEPT !.tick = @ + 1]

\* A counter never goes below zero: a larger decrement leaves it unchanged.
Changed(size, change) ==
  IF change < 0 /\ -change > size THEN size ELSE Wrap(size + change)

IncReserveSize(d, w, change) ==
  LET size == Changed(d.reserveSize, change)
      noop == change < 0 /\ -change > d.reserveSize
  IN  IF noop THEN w
      ELSE [w EXCEPT !.db.reserveSize = size, !.ev = @ \/ size >= ReserveCapacity]

SetPin(d, w, c) ==
  LET cached == d.pin[c] = 0 /\ d.access[c] # 0
  IN  IF cached /\ d.data[c] = 0 THEN Fail(w)
      ELSE [w EXCEPT !.db.pin[c] = d.pin[c] + 1,
                     !.db.gc = IF cached THEN DropGC(@, c, d.access[c], d.data[c]) ELSE @,
                     !.dgc = IF cached THEN @ - 1 ELSE @]

SetRemove(d, w, c) ==
  IF d.data[c] = 0 THEN Fail(w)
  ELSE LET cached == InGC(d, c, d.access[c], d.data[c])
       IN  [w EXCEPT !.db.data[c] = 0, !.db.access[c] = 0,
                     !.db.pull = @ \ {<<d.data[c], c>>},
                     !.db.pchunks = @ \ {c},
                     !.db.pin[c] = IF cached THEN @ ELSE 0,
                     !.db.gc = IF cached THEN DropGC(@, c, d.access[c], d.data[c]) ELSE @,
                     !.dgc = IF cached THEN @ - 1 ELSE @]

WithinRadius(c, radius) == PO[c] >= radius

\* Mutant: a chunk outside the radius is not handed to the collector.
PreserveOnly(d, w, c, radius, ts, id, forcePin, forceCache) ==
  IF ~forceCache /\ (WithinRadius(c, radius) \/ forcePin)
  THEN SetPin(d, IF forcePin THEN w ELSE IncReserveSize(d, w, 1), c)
  ELSE w

\* c has access time ts and bin id id in this batch.
PreserveOrCache(d, w, c, radius, ts, id, forcePin, forceCache) ==
  IF ~forceCache /\ (WithinRadius(c, radius) \/ forcePin)
  THEN SetPin(d, IF forcePin THEN w ELSE IncReserveSize(d, w, 1), c)
  ELSE IF d.pin[c] > 0 \/ InGC(d, c, ts, id) THEN w
  ELSE [w EXCEPT !.db.gc = @ \cup {GCEntry(c, ts, id, TRUE)}, !.dgc = @ + 1]

\* The chunk was validated long ago: its item carries no radius.
SetSync(d, w, c) ==
  IF d.data[c] = 0 THEN w
  ELSE LET id    == d.data[c]
           stamp == d.access[c] = 0
           ts    == IF stamp THEN w.tick + 1 ELSE d.access[c]
           v     == [w EXCEPT !.db.push = @ \ {<<id, c>>},
                              !.db.access[c] = ts,
                              !.tick = IF stamp THEN @ + 1 ELSE @]
       IN  PreserveOrCache(d, v, c, 0, ts, id, FALSE, FALSE)

\* The outcome for one chunk: the counter, or the pin and the gc entry.
SetUnpin(d, w, c) ==
  LET id    == d.data[c]
      stamp == d.access[c] = 0
      ts    == IF stamp THEN w.tick + 1 ELSE d.access[c]
  IN  CASE d.pin[c] = 0 -> Fail(w)
        [] d.pin[c] > 1 -> [w EXCEPT !.db.pin[c] = d.pin[c] - 1]
        [] d.pin[c] = 1 /\ id = 0 -> Fail([w EXCEPT !.db.pin[c] = 0])
        [] d.pin[c] = 1 /\ id # 0 /\ <<id, c>> \in d.push -> [w EXCEPT !.db.pin[c] = 0]
        [] OTHER -> [w EXCEPT !.db.pin[c] = 0, !.db.access[c] = ts,
                              !.tick = IF stamp THEN @ + 1 ELSE @,
                              !.db.gc = @ \cup {GCEntry(c, ts, id, FALSE)},
                              !.dgc = @ + 1]

-----------------------------------------------------------------------------
(* Put: p is a chunk with the radius its stamp was validated with.         *)

Later(prev, c) == StampTime[c] > StampTime[prev]

\* Write the indexes every mode writes, under a fresh bin id.
Store(w, c, pull, push) ==
  LET id == w.tick + 1
      v  == [Tick(w) EXCEPT !.db.data[c] = id, !.db.pchunks = @ \cup {c},
                            !.db.pindex[SlotOf[c]] = c]
  IN  [v EXCEPT !.db.pull = IF pull THEN @ \cup {<<id, c>>} ELSE @,
                !.db.push = IF push THEN @ \cup {<<id, c>>} ELSE @]

Touch(w, c) == [w EXCEPT !.db.access[c] = w.tick]

\* The chunk holding the stamp slot of c: whether c must give way to it, and
\* its removal.  keepChange: putRequest is the only mode that counts the gc
\* entry removed; putUpload leaves the reserve size alone.
Refused(d, c) ==
  LET prev == d.pindex[SlotOf[c]]
  IN  prev # None /\ BatchOf[c] \notin Immutable /\ ~Later(prev, c)
Overwrites(d, c) == d.pindex[SlotOf[c]] # None /\ BatchOf[c] \in Immutable
Replace(d, w, c, keepChange, unreserve) ==
  LET prev   == d.pindex[SlotOf[c]]
      radius == d.radius[BatchOf[c]]
      v      == SetRemove(d, w, prev)
      u      == IF keepChange THEN v ELSE [v EXCEPT !.dgc = w.dgc]
  IN  IF prev = None THEN w
      ELSE IF unreserve /\ radius # NoRadius /\ PO[c] >= radius /\ u.ok
           THEN IncReserveSize(d, u, -1) ELSE u

PutRequest(d, w, p, forcePin, forceCache) ==
  LET v == Touch(Store(Replace(d, w, p.c, TRUE, TRUE), p.c, ~forceCache, FALSE), p.c)
  IN  PreserveOrCache(d, v, p.c, p.radius, v.tick, v.tick, forcePin, forceCache)

PutUpload(d, w, p) == Store(Replace(d, w, p.c, FALSE, FALSE), p.c, TRUE, TRUE)

PutSync(d, w, p) ==
  LET v == Touch(Store(Replace(d, w, p.c, FALSE, TRUE), p.c, TRUE, FALSE), p.c)
  IN  PreserveOrCache(d, v, p.c, p.radius, v.tick, v.tick, FALSE, FALSE)

PutOne(d, w, mode, p) ==
  LET skip  == d.data[p.c] # 0 \/ Refused(d, p.c)
      wrote == CASE skip -> w
                 [] ~skip /\ Overwrites(d, p.c) -> Fail(w)
                 [] OTHER -> CASE mode = "Sync" -> PutSync(d, w, p)
                               [] mode \in {"Upload", "UploadPin"} -> PutUpload(d, w, p)
                               [] OTHER -> PutRequest(d, w, p, mode = "RequestPin",
                                                      mode = "RequestCache")
  IN  IF mode = "UploadPin" /\ wrote.ok THEN SetPin(d, wrote, p.c) ELSE wrote

\* The end of put and set: the gc size, then the atomic write.  A failed
\* operation writes nothing; a trigger it sent stays sent.
Commit(w, touched) ==
  LET d    == w.db
      size == Changed(db.gcSize, w.dgc)
  IN  /\ db' = IF w.ok THEN [d EXCEPT !.gcSize = size] ELSE db
      /\ serial' = IF w.ok THEN w.tick ELSE serial
      /\ w.tick <= MaxSerial /\ \A c \in Chunk : d.pin[c] <= MaxPin
      /\ evTrigger' = w.ev
      /\ gcTrigger' = (gcTrigger \/ (w.ok /\ w.dgc # 0 /\ size # db.gcSize
                                          /\ size >= CacheCapacity))
      /\ dirty' = IF gcpc = "idle" THEN dirty ELSE dirty \cup touched

Put(mode, ps) ==
  /\ Len(ps) = 1 /\ mode \notin {"RequestPin", "UploadPin"} => db.data[ps[1].c] = 0
  /\ LET w == PutOne(db, Begin(db), mode, ps[1])
     IN  Commit(IF Len(ps) = 1 \/ ~w.ok THEN w ELSE PutOne(db, w, mode, ps[2]),
                {ps[i].c : i \in DOMAIN ps})
  /\ UNCHANGED <<gcpc, candidates, pending, queue, evict>>

Set(mode, c) ==
  /\ LET w == Begin(db)
     IN  Commit(CASE mode = "Sync" -> SetSync(db, w, c)
                  [] mode = "Remove" -> SetRemove(db, w, c)
                  [] mode = "Pin" -> SetPin(db, w, c)
                  [] OTHER -> SetUnpin(db, w, c), {c})
  /\ UNCHANGED <<gcpc, candidates, pending, queue, evict>>

-----------------------------------------------------------------------------
(* Get in request mode returns the chunk and updates its access time later, *)
(* in a goroutine that takes the lock; the bin id it uses is the one read.  *)

Get(c) ==
  /\ db.data[c] # 0
  /\ Cardinality(pending) < MaxPending
  /\ pending' = pending \cup {[c |-> c, id |-> db.data[c]]}
  /\ UNCHANGED <<db, serial, gcTrigger, evTrigger, gcpc, candidates, dirty, queue,
                 evict>>

UpdateGC(i) ==
  LET ts == db.access[i.c]
      in == InGC(db, i.c, ts, i.id)
  IN  /\ pending' = pending \ {i}
      /\ dirty' = IF gcpc = "idle" THEN dirty ELSE dirty \cup {i.c}
      /\ IF ts = 0 THEN UNCHANGED <<db, serial>>
         ELSE /\ serial < MaxSerial
              /\ serial' = serial + 1
              /\ db' = [db EXCEPT !.access[i.c] = serial + 1,
                          !.gc = IF in THEN DropGC(@, i.c, ts, i.id)
                                            \cup {GCEntry(i.c, serial + 1, i.id, TRUE)}
                                 ELSE @]
      /\ UNCHANGED <<gcTrigger, evTrigger, gcpc, candidates, queue, evict>>

-----------------------------------------------------------------------------
(* Garbage collection: the candidates are read without the lock and deleted *)
(* under it, the ones touched in between excepted.                          *)

StartGC ==
  /\ gcTrigger /\ gcpc = "idle"
  /\ gcTrigger' = FALSE
  /\ gcpc' = IF db.gcSize = GCTarget THEN "idle" ELSE "iterate"
  /\ dirty' = {}
  /\ UNCHANGED <<db, serial, evTrigger, candidates, pending, queue, evict>>

Oldest(gc, n) == {g \in gc : Cardinality({h \in gc : GCBefore(h, g)}) < n}

IterateGC ==
  LET excess == IF db.gcSize > GCTarget THEN db.gcSize - GCTarget ELSE 0
  IN  /\ gcpc = "iterate"
      /\ gcpc' = "collect"
      /\ candidates' = Oldest(db.gc, Min({excess, GCBatchSize}))
      /\ UNCHANGED <<db, serial, gcTrigger, evTrigger, dirty, pending, queue, evict>>

\* Mutant: collects also what was touched since.
AllCandidates == candidates

CleanCandidates == {g \in candidates : g.c \notin dirty}

CollectGarbage ==
  LET gone    == CleanCandidates
      chunks  == {g.c : g \in gone}
      slots   == {SlotOf[g.c] : g \in {h \in gone : h.idx}}
      newSize == Wrap(db.gcSize - Cardinality(gone))
  IN  /\ gcpc = "collect"
      /\ db' = [db EXCEPT
           !.data    = [c \in Chunk |-> IF c \in chunks THEN 0 ELSE @[c]],
           !.access  = [c \in Chunk |-> IF c \in chunks THEN 0 ELSE @[c]],
           !.pull    = @ \ {<<g.id, g.c>> : g \in gone},
           !.gc      = {g \in @ : ~\E h \in gone : h.c = g.c /\ h.ts = g.ts /\ h.id = g.id},
           !.pchunks = @ \ chunks,
           !.pindex  = [s \in Slot |-> IF s \in slots THEN None ELSE @[s]],
           !.gcSize  = newSize]
      /\ gcpc' = "idle" /\ candidates' = {} /\ dirty' = {}
      /\ gcTrigger' = (gcTrigger \/ newSize > GCTarget)
      /\ UNCHANGED <<serial, evTrigger, pending, queue, evict>>

-----------------------------------------------------------------------------
(* The reserve: unpinning the chunks of a batch in the bins below a radius. *)

InBin(d, b, bin) == {c \in d.pchunks : BatchOf[c] = b /\ PO[c] = bin}

\* The batch written for a set of bins, from the state d it was read in: pin
\* counters, access times, gc entries and the gc size.  Chunks that are not
\* pinned or have no data are not counted; a chunk to be pushed gets no entry.
UnreserveBins(d, tick, b, bins) ==
  LET pinned == {c \in UNION {InBin(d, b, bin) : bin \in bins} : d.pin[c] > 0}
      cached == {c \in pinned : d.pin[c] = 1 /\ d.data[c] # 0 /\ <<d.data[c], c>> \notin d.push}
      stamp  == {c \in cached : d.access[c] = 0}
      ts     == [c \in cached |-> IF c \in stamp THEN tick + 1 ELSE d.access[c]]
  IN  [pin    |-> [c \in pinned |-> d.pin[c] - 1],
       access |-> [c \in stamp |-> ts[c]],
       gc     |-> {GCEntry(c, ts[c], d.data[c], FALSE) : c \in cached},
       dgc    |-> Cardinality(cached),
       gcSize |-> Changed(d.gcSize, Cardinality(cached)),
       n      |-> Cardinality({c \in pinned : d.pin[c] > 1 \/ d.data[c] # 0}),
       tick   |-> IF stamp = {} THEN tick ELSE tick + 1]

\* Apply it to the state e: the values are absolute, the gc size included.
WriteBins(e, u) ==
  [e EXCEPT !.pin = [c \in Chunk |-> IF c \in DOMAIN u.pin THEN u.pin[c] ELSE @[c]],
            !.access = [c \in Chunk |-> IF c \in DOMAIN u.access THEN u.access[c] ELSE @[c]],
            !.gc = @ \cup u.gc,
            !.gcSize = IF u.dgc = 0 THEN @ ELSE u.gcSize]

FirstBin(d, b, r) == IF d.radius[b] = NoRadius THEN r ELSE d.radius[b]

\* UnreserveBatch under the lock: nothing can be seen between its bins.
UnreserveBatch(acc, b, r) ==
  LET u == UnreserveBins(acc.d, acc.tick, b, FirstBin(acc.d, b, r)..(r - 1))
      e == [WriteBins(acc.d, u) EXCEPT !.radius[b] = r,
                                       !.reserveSize = Changed(@, -u.n)]
  IN  [acc EXCEPT !.d = e, !.tick = u.tick, !.total = @ + u.n, !.used = @ + 1,
                  !.gct = @ \/ e.gcSize >= CacheCapacity]

\* The eviction worker takes entries until the reserve is at its target.
EvictReserve ==
  LET start == [d |-> db, tick |-> serial, total |-> 0, used |-> 0, gct |-> gcTrigger]
      met(a) == Wrap(db.reserveSize - a.total) <= EvictionTarget
      run[i \in 0..Len(queue)] ==
        IF i = 0 THEN start
        ELSE LET a == run[i - 1]
             IN  IF a.used > 0 /\ met(a) THEN a ELSE UnreserveBatch(a, queue[i].b, queue[i].r)
      end == IF db.reserveSize = EvictionTarget THEN start ELSE run[Len(queue)]
  IN  /\ evTrigger
      /\ end.tick <= MaxSerial
      /\ db' = end.d /\ serial' = end.tick /\ gcTrigger' = end.gct
      /\ queue' = SubSeq(queue, end.used + 1, Len(queue))
      /\ evTrigger' = (end.used > 0 /\ ~met(end))
      /\ UNCHANGED <<gcpc, candidates, dirty, pending, evict>>

\* The chain worker evicts an expired batch in all bins.  It does not hold
\* batchMu: a bin is read in one step and written in the next.
StartEvict(b) ==
  /\ evict = Idle
  /\ LET first == FirstBin(db, b, MaxPO + 1)
     IN  evict' = [pc |-> IF first > MaxPO THEN "count" ELSE "read",
                   b |-> b, bin |-> first, n |-> 0]
  /\ UNCHANGED <<db, serial, gcTrigger, evTrigger, gcpc, candidates, dirty, pending,
                 queue>>

ReadBin ==
  /\ evict.pc = "read"
  /\ LET u == UnreserveBins(db, serial, evict.b, {evict.bin})
     IN  /\ u.tick <= MaxSerial
         /\ serial' = u.tick
         /\ gcTrigger' = (gcTrigger \/ (u.dgc # 0 /\ u.gcSize >= CacheCapacity))
         /\ evict' = [pc |-> "write", b |-> evict.b, bin |-> evict.bin, n |-> evict.n, u |-> u]
  /\ UNCHANGED <<db, evTrigger, gcpc, candidates, dirty, pending, queue>>

EvictBin ==
  /\ evict.pc = "write"
  /\ db' = [WriteBins(db, evict.u) EXCEPT
              !.radius[evict.b] = IF evict.bin = MaxPO THEN NoRadius ELSE evict.bin]
  /\ evict' = [pc |-> IF evict.bin = MaxPO THEN "count" ELSE "read", b |-> evict.b,
               bin |-> evict.bin + 1, n |-> evict.n + evict.u.n]
  /\ UNCHANGED <<serial, gcTrigger, evTrigger, gcpc, candidates, dirty, pending, queue>>

FinishEvict ==
  /\ evict.pc = "count"
  /\ db' = [db EXCEPT !.reserveSize = Changed(@, -evict.n)]
  /\ evTrigger' = (evTrigger \/ (evict.n > 0 /\ evict.n <= db.reserveSize
                                 /\ db'.reserveSize >= ReserveCapacity))
  /\ gcTrigger' = (gcTrigger \/ db.gcSize >= CacheCapacity)
  /\ evict' = Done
  /\ UNCHANGED <<serial, gcpc, candidates, dirty, pending, queue>>

\* A crash keeps what was written and loses everything else.
Restart ==
  /\ gcTrigger' = FALSE /\ evTrigger' = FALSE /\ gcpc' = "idle"
  /\ candidates' = {} /\ dirty' = {} /\ pending' = {}
  /\ evict' = IF evict = Done THEN Done ELSE Idle
  /\ UNCHANGED <<db, serial, queue>>

-----------------------------------------------------------------------------
Next ==
  \/ \E i \in PutInput : Put(i.mode, i.chunks)
  \/ \E i \in SetInput : Set(i.mode, i.c)
  \/ \E c \in GetInput : Get(c)
  \/ \E i \in pending : UpdateGC(i)
  \/ StartGC \/ IterateGC \/ CollectGarbage
  \/ EvictReserve
  \/ \E b \in Expiring : StartEvict(b)
  \/ ReadBin \/ EvictBin \/ FinishEvict
  \/ Restart

Spec == Init /\ [][Next]_vars

-----------------------------------------------------------------------------
\* Every index entry about a stored chunk is about its present version: the
\* pull entries and access times of removed, replaced or collected chunks are
\* gone, and a chunk is listed under its batch exactly while it is stored.
IndexesAgree ==
  /\ \A e \in db.pull : db.data[e[2]] = e[1]
  /\ \A c \in Chunk : db.access[c] # 0 => db.data[c] # 0
  /\ db.pchunks = {c \in Chunk : db.data[c] # 0}

\* No chunk occupies the disk for good: a stored chunk is pinned, or the
\* collector can reach it, or it waits in the push index.
NothingLeaks ==
  \A c \in Chunk : db.data[c] # 0 =>
     \/ db.pin[c] > 0
     \/ \E g \in db.gc : g.c = c
     \/ <<db.data[c], c>> \in db.push

\* setPin "sets the chunk to be excluded from garbage collection": no pinned
\* chunk is in the index the collector works from.
PinnedNotCollectable == \A g \in db.gc : db.pin[g.c] = 0
=============================================================================
