------------------------------- MODULE Puller -------------------------------
(***************************************************************************)
(* Pull syncing of one bin from one peer: the puller (pkg/puller) with the *)
(* historical and the live worker of the bin, the pullsync protocol        *)
(* (pkg/pullsync) between the node and the peer, the peer's subscription   *)
(* to its pull index, and the stored intervals (pkg/intervalstore).        *)
(*                                                                         *)
(* A chunk of the bin is its bin id at the peer: ids grow and are never    *)
(* used twice, and a chunk the peer collects leaves its index.             *)
(***************************************************************************)
EXTENDS Integers, FiniteSets, Sequences, FiniteSetsExt

CONSTANTS
  MaxID,        \* bound: the bin ids the peer hands out
  MaxPage,      \* maxPage, the chunks in an offer
  PO, Bin,      \* the proximity order of the peer and the bin that is synced
  Depths,       \* the neighbourhood depths that may occur
  Unverified,   \* the ids whose stamp does not verify at this node
  Slots,        \* bound: goroutines of workers at one time
  MaxEvents     \* bound: topology changes, failed streams, collections and crashes

VARIABLES
  index, last,         \* the peer: ids in its pull index, the last id given
  connected, depth, signal,
  syncing, binCancel,  \* the peer is in syncPeers; the slots of the bin's workers
  cursors,             \* cached cursor of the bin, -1 when not known
  asking,              \* syncPeer waits for the cursors, with the depth it read
  intervals,           \* the stored ranges, ordered
  stored,              \* chunks this node has had
  worker,
  failed,              \* a worker of the bin met an error
  events

pullVars == <<index, last, connected, depth, signal, syncing, binCancel, cursors,
              asking, intervals, stored, worker, failed, events>>

Inf == MaxID + 1    \* MaxUint64
NoWorker == [pc |-> "none"]

Init ==
  /\ index = {} /\ last = 0
  /\ connected = TRUE /\ depth = Min(Depths) /\ signal = TRUE
  /\ syncing = FALSE /\ binCancel = {} /\ cursors = -1 /\ asking = -1
  /\ intervals = <<>> /\ stored = {}
  /\ worker = [i \in Slots |-> NoWorker]
  /\ failed = FALSE /\ events = 0

-----------------------------------------------------------------------------
(* Intervals: the ranges are pairs, both ends included.                    *)

Inc(n) == IF n = Inf THEN 0 ELSE n + 1

\* The loop of add over the ranges; it stops behind the first range that
\* begins after the new one.
Scan(ranges, start, end, check) ==
  LET Touches(s, r) == \/ s <= r[1] /\ check >= r[1]
                       \/ s <= r[2] + 1 /\ check >= r[2]
      Ends(s, r) == (s <= r[2] /\ check >= r[2]) \/ (s <= r[1] /\ check >= r[1])
      step[j \in 0..Len(ranges)] ==
        IF j = 0 THEN [start |-> start, end |-> end, min |-> 0, max |-> 0, at |-> 1, stop |-> FALSE]
        ELSE LET a == step[j - 1]
                 r == ranges[j]
                 first == a.min = 0 /\ Touches(a.start, r)
                 s == IF first /\ r[1] < a.start THEN r[1] ELSE a.start
                 e == IF Ends(s, r) /\ r[2] > a.end THEN r[2] ELSE a.end
                 stop == Inc(e) <= r[1]
             IN  IF a.stop THEN a
                 ELSE [start |-> s, end |-> e, min |-> IF first THEN j ELSE a.min,
                       max |-> IF Ends(s, r) THEN j ELSE a.max,
                       at |-> IF stop THEN j ELSE j + 1, stop |-> stop]
  IN  step[Len(ranges)]

Add(ranges, start, end) ==
  LET s == IF start < 1 THEN 1 ELSE start
      a == Scan(ranges, s, end, IF end = Inf THEN end ELSE end + 1)
      From(rs) == IF a.min = 0 THEN rs ELSE [rs EXCEPT ![a.min][1] = a.start]
      To(rs) == IF a.max = 0 THEN rs ELSE [rs EXCEPT ![a.max][2] = a.end]
      joined == To(From(ranges))
  IN  CASE end < 1 -> ranges
        [] end >= 1 /\ a.min = 0 /\ a.max = 0 ->
             SubSeq(ranges, 1, a.at - 1) \o <<<<a.start, a.end>>>> \o SubSeq(ranges, a.at, Len(ranges))
        [] end >= 1 /\ a.min # 0 /\ a.max # 0 /\ a.min # a.max ->
             SubSeq(joined, 1, a.min - 1)
               \o SubSeq([joined EXCEPT ![a.max][1] = a.start], a.max, Len(joined))
        [] OTHER -> joined

\* Mutant: what lies between two ranges is not asked for.
NextAfterLast(ranges) == IF ranges = <<>> THEN 1 ELSE ranges[Len(ranges)][2] + 1

\* Next(0): the first id that is not in the ranges.
NextMissing(ranges) ==
  IF ranges = <<>> \/ ranges[1][1] # 1 THEN 1 ELSE ranges[1][2] + 1

Covered(ranges) == UNION {ranges[i][1]..ranges[i][2] : i \in DOMAIN ranges}

-----------------------------------------------------------------------------
(* The peer's localstore.                                                  *)

Event == events < MaxEvents /\ events' = events + 1

PeerStores ==
  /\ last < MaxID
  /\ last' = last + 1 /\ index' = index \cup {last + 1}
  /\ UNCHANGED <<connected, depth, signal, syncing, binCancel, cursors, asking, intervals,
                 stored, worker, failed, events>>

PeerCollects ==
  /\ Event
  /\ \E id \in index : index' = index \ {id}
  /\ UNCHANGED <<last, connected, depth, signal, syncing, binCancel, cursors, asking,
                 intervals, stored, worker, failed>>

LastPullSubscriptionBinID == Max(index \cup {0})
Cursors == LastPullSubscriptionBinID

\* The descriptors SubscribePull sends for [since, until], in order, and
\* whether it then closes the channel: it has met an id at or above until.
Descriptors(since, until) == {id \in index : id >= since /\ id <= until}
Closes(until) == \E id \in index : id >= until

\* IntervalChunks: the limit ends the page, the closed channel completes the
\* interval, or the timer that runs since the last chunk ends it.
IntervalChunks(since, until) ==
  LET all == Descriptors(since, until)
      Prefix(n) == {id \in all : Cardinality({k \in all : k < id}) < n}
      byTimer == {[page |-> Prefix(n), top |-> Max(Prefix(n))] :
                    n \in 1..Min({Cardinality(all), MaxPage})}
      complete == Closes(until) /\ Cardinality(all) < MaxPage
  IN  byTimer \cup (IF complete THEN {[page |-> all, top |-> until]} ELSE {})

-----------------------------------------------------------------------------
(* The topology and the puller's reaction to it.                           *)

TopologyChange ==
  /\ Event
  /\ \/ connected' = ~connected /\ UNCHANGED depth
     \/ \E d \in Depths \ {depth} : depth' = d /\ UNCHANGED connected
  /\ signal' = TRUE
  /\ UNCHANGED <<index, last, syncing, binCancel, cursors, asking, intervals,
                 stored, worker, failed>>

\* The context of the bin's workers is cancelled (gone, cancelBins).
CancelBin == [i \in Slots |-> IF i \in binCancel /\ worker[i] # NoWorker
                              THEN [worker[i] EXCEPT !.on = FALSE] ELSE worker[i]]
IsBinSyncing == binCancel # {}

NewWorker(kind, cur) ==
  [pc |-> "loop", on |-> TRUE, kind |-> kind, cur |-> cur, from |-> cur + 1, top |-> 0,
   want |-> {}, copy |-> <<>>]

\* A historical worker when there is history, and a live one.
SyncPeerBin(cur) ==
  LET free == {i \in Slots : worker[i] = NoWorker}
      kinds == IF cur > 0 THEN <<"live", "hist">> ELSE <<"live">>
      Ith(n) == CHOOSE i \in free : Cardinality({k \in free : k < i}) = n - 1
      start == {Ith(n) : n \in 1..Len(kinds)}
  IN
  /\ Cardinality(free) >= Len(kinds)
  /\ binCancel' = start /\ failed' = FALSE
  /\ worker' = [i \in Slots |->
       IF i \in start
       THEN NewWorker(kinds[CHOOSE n \in 1..Len(kinds) : Ith(n) = i], cur) ELSE worker[i]]

Wanted(d) == Bin # 0 /\ Bin >= d

\* disconnectPeer, for a peer that is gone or outside the depth.
DisconnectPeer ==
  /\ syncing' = FALSE /\ binCancel' = {} /\ worker' = CancelBin
  /\ UNCHANGED <<cursors, asking, failed>>

RecalcPeer(d) ==
  /\ UNCHANGED <<syncing, cursors, asking>>
  /\ CASE Wanted(d) /\ ~IsBinSyncing -> SyncPeerBin(cursors)
       [] Wanted(d) /\ IsBinSyncing -> UNCHANGED <<binCancel, worker, failed>>
       [] OTHER -> binCancel' = {} /\ worker' = CancelBin /\ UNCHANGED failed

\* syncPeer, up to the point where it may have to ask for the cursors.
SyncPeer(d) ==
  /\ syncing' = TRUE
  /\ IF cursors = -1 THEN asking' = d /\ UNCHANGED <<binCancel, worker, failed>>
     ELSE /\ UNCHANGED asking
          /\ IF Wanted(d) THEN SyncPeerBin(cursors) ELSE UNCHANGED <<binCancel, worker, failed>>
  /\ UNCHANGED cursors

Manage ==
  /\ signal /\ asking = -1
  /\ signal' = FALSE
  /\ IF connected /\ PO >= depth
     THEN IF syncing THEN RecalcPeer(depth) ELSE SyncPeer(depth)
     ELSE DisconnectPeer
  /\ UNCHANGED <<index, last, connected, depth, intervals, stored, events>>

GetCursors ==
  /\ asking # -1 /\ connected
  /\ cursors' = Cursors
  /\ IF Wanted(asking) THEN SyncPeerBin(cursors') ELSE UNCHANGED <<binCancel, worker, failed>>
  /\ asking' = -1
  /\ UNCHANGED <<index, last, connected, depth, signal, syncing, intervals,
                 stored, events>>

\* No answer, or one with the wrong number of cursors, which is not used.
NoCursors ==
  /\ asking # -1
  /\ IF connected THEN Event ELSE UNCHANGED events
  /\ asking' = -1 /\ syncing' = FALSE
  /\ UNCHANGED <<index, last, connected, depth, signal, binCancel, cursors,
                 intervals, stored, worker, failed>>

-----------------------------------------------------------------------------
(* The workers.  An error ends the goroutine; the bin stays in binCancel.  *)

Keep == UNCHANGED <<index, last, connected, depth, signal, syncing, binCancel, cursors, asking>>

Exit(i) == worker' = [worker EXCEPT ![i] = NoWorker]
Fails(i) == Exit(i) /\ failed' = (failed \/ i \in binCancel)
Goes(i, w) == worker' = [worker EXCEPT ![i] = w]

UpTo(w) == IF w.kind = "hist" THEN w.cur ELSE Inf

\* The peer's side: an offer, and the chunks that are wanted from it, all of
\* which are read before the first is sent.
MakeOffer(w) == IntervalChunks(w.from, UpTo(w))
ProcessWant(w) == w.want \subseteq index

\* The head of the loop: the context, then what to ask for.
HistSyncWorker(i) ==
  LET w == worker[i]
      s == NextMissing(intervals)
  IN
  /\ w.pc = "loop" /\ w.kind = "hist"
  /\ IF ~w.on \/ s > w.cur THEN Exit(i)
     ELSE Goes(i, [w EXCEPT !.pc = "ask", !.from = s])
  /\ UNCHANGED <<intervals, stored, failed, events>> /\ Keep

LiveSyncWorker(i) ==
  LET w == worker[i] IN
  /\ w.pc = "loop" /\ w.kind = "live"
  /\ IF ~w.on THEN Exit(i) ELSE Goes(i, [w EXCEPT !.pc = "ask"])
  /\ UNCHANGED <<intervals, stored, failed, events>> /\ Keep

\* SyncInterval up to the want message: without anything to want it returns.
Offer(i) ==
  LET w == worker[i] IN
  /\ w.pc = "ask" /\ w.on /\ connected
  /\ \E o \in MakeOffer(w) :
       Goes(i, [w EXCEPT !.top = o.top, !.want = o.page \ stored,
                         !.pc = IF o.page \ stored = {} THEN "add" ELSE "deliver"])
  /\ UNCHANGED <<intervals, stored, failed, events>> /\ Keep

\* Mutant: an interval whose delivery broke off is recorded.
SealPartial(i, received) ==
  LET w == worker[i]
      valid == received \ Unverified
  IN
  /\ stored' = stored \cup valid
  /\ Goes(i, [w EXCEPT !.pc = "add", !.want = {}])
  /\ UNCHANGED failed

\* What was received is put; the interval counts when all of it came and the
\* last chunk verified, whose error would be the one the loop ends with.
EndDelivery(i, received) ==
  LET w == worker[i]
      ok == received = w.want /\ Max(received) \notin Unverified
  IN
  /\ stored' = stored \cup (received \ Unverified)
  /\ IF ok THEN Goes(i, [w EXCEPT !.pc = "add", !.want = {}]) /\ UNCHANGED failed
     ELSE Fails(i)

Deliver(i) ==
  LET w == worker[i] IN
  /\ w.pc = "deliver" /\ w.on /\ connected
  /\ IF ProcessWant(w) THEN EndDelivery(i, w.want)
     ELSE Fails(i) /\ UNCHANGED stored
  /\ UNCHANGED <<intervals, events>> /\ Keep

\* The stream breaks or the context ends, after some of the deliveries.
Breaks(i) ==
  LET w == worker[i] IN
  /\ w.pc \in {"ask", "deliver"}
  /\ IF w.on /\ connected THEN Event ELSE UNCHANGED events
  /\ IF w.pc = "ask" THEN Fails(i) /\ UNCHANGED stored
     ELSE \E n \in 0..(Cardinality(w.want) - 1) :
            LET part == {id \in w.want : Cardinality({k \in w.want : k < id}) < n} IN
            IF n = 0 \/ ~ProcessWant(w)
            THEN Fails(i) /\ UNCHANGED stored
            ELSE EndDelivery(i, part)
  /\ UNCHANGED intervals /\ Keep

\* addPeerInterval reads the stored ranges ...
ReadIntervals(i) ==
  LET w == worker[i] IN
  /\ w.pc = "add"
  /\ Goes(i, [w EXCEPT !.pc = "write", !.copy = intervals])
  /\ UNCHANGED <<intervals, stored, failed, events>> /\ Keep

\* ... and stores them with the new one.
WriteIntervals(i) ==
  LET w == worker[i] IN
  /\ w.pc = "write"
  /\ intervals' = Add(w.copy, w.from, w.top)
  /\ Goes(i, [w EXCEPT !.pc = "loop", !.copy = <<>>, !.top = 0,
                       !.from = IF w.kind = "live" THEN w.top + 1 ELSE 0])
  /\ UNCHANGED <<stored, failed, events>> /\ Keep

\* The process ends and starts again; the intervals are in the state store.
Crash ==
  /\ Event
  /\ worker' = [i \in Slots |-> NoWorker]
  /\ syncing' = FALSE /\ binCancel' = {} /\ cursors' = -1 /\ asking' = -1 /\ signal' = TRUE
  /\ failed' = FALSE
  /\ UNCHANGED <<index, last, connected, depth, intervals, stored>>

Work(i) ==
  \/ HistSyncWorker(i) \/ LiveSyncWorker(i) \/ Offer(i) \/ Deliver(i)
  \/ ReadIntervals(i) \/ WriteIntervals(i)

Next ==
  \/ PeerStores \/ PeerCollects \/ TopologyChange
  \/ Manage \/ GetCursors \/ NoCursors
  \/ \E i \in Slots : Work(i) \/ Breaks(i)
  \/ Crash

\* A cancelled worker's call returns.
Abandoned(i) == worker[i] # NoWorker /\ ~worker[i].on /\ Breaks(i)

\* Some worker runs while one can, and a connected peer answers.
Fairness ==
  /\ WF_pullVars(Manage) /\ WF_pullVars(GetCursors)
  /\ WF_pullVars(\E i \in Slots : Work(i)) /\ WF_pullVars(\E i \in Slots : Abandoned(i))

Spec == Init /\ [][Next]_pullVars /\ Fairness
-----------------------------------------------------------------------------
(***************************************************************************)
(* A bin id is recorded as synced only when its chunk was stored here, or  *)
(* its stamp did not verify, or the peer did not have it any more.  The    *)
(* workers of a bin overwrite each other's ranges, deliveries break off    *)
(* and peers come and go: what that loses is only work.                    *)
(***************************************************************************)
SyncedIsStored ==
  \A id \in Covered(intervals) : id <= last /\ (id \in index => id \in stored \cup Unverified)

(***************************************************************************)
(* The history of a bin arrives: once the cursor is known, every chunk up  *)
(* to it that the peer keeps is stored here, unless its stamp does not     *)
(* verify, the peer or the bin is dropped, or a worker of the bin meets an *)
(* error (it is not started again while the peer stays).  The workers lose *)
(* each other's ranges, and the historical one then asks again.            *)
(***************************************************************************)
HistoryArrives ==
  (syncing /\ cursors > 0 /\ IsBinSyncing)
    ~> \/ {id \in index : id <= cursors} \subseteq stored \cup Unverified
       \/ failed \/ ~syncing \/ ~IsBinSyncing
=============================================================================
