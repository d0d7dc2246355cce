------------------------------ MODULE PushSync ------------------------------
(***************************************************************************)
(* Push syncing (pkg/pushsync) of one chunk through a network of nodes:    *)
(* the originator and the forwarders hand the chunk to the closest peer,   *)
(* the closest node stores it, replicates it to neighbours and signs the   *)
(* receipt that travels back.  A node is named by its distance from the    *)
(* chunk, so a smaller number is closer.                                   *)
(***************************************************************************)
EXTENDS Naturals, FiniteSetsExt

CONSTANTS
  Nodes,        \* the nodes, named by distance
  Origin,       \* the originator
  OriginFull,   \* the originator is a full node
  First,        \* the first peer in the originator's shallowest bin
  Links,        \* pairs of connected nodes
  NeighborhoodDepth, \* nodes at most this far have the chunk within their depth
  MaxPeers,     \* attempts of the originator
  MaxFails,     \* bound: failures of any kind
  MaxPushes     \* bound: calls of PushChunkToClosest

VARIABLES
  reqs,         \* the calls of pushToClosest: by node and upstream
  repl,         \* replications on their way: from a storer to a neighbour
  has,          \* nodes that have stored the chunk
  skipList,     \* each node: peers to skip for a while
  listed,       \* nodes whose skip list has an entry for this chunk
  receipts,     \* signers of the receipts the originator accepted
  fails, pushes

pushVars == <<reqs, repl, has, skipList, listed, receipts, fails, pushes>>

Me == 0                          \* the upstream of the originator's own call
Pair == {p \in Nodes \X (Nodes \cup {Me}) : p[1] # p[2]}
Idle == [st |-> "idle", tries |-> 0, skip |-> {}, peer |-> Me, signer |-> Me]
Running(tries) == [Idle EXCEPT !.st = "run", !.tries = tries]
Signed(n) == [Idle EXCEPT !.st = "done", !.signer = n]
Failed == [Idle EXCEPT !.st = "failed"]

\* The full nodes connected: kademlia does not have the light ones.
Full(n) == n # Origin \/ OriginFull
PeersOf(n) == {p \in Nodes : {n, p} \in Links /\ Full(p)}

ASSUME PushSyncAssumption ==
  /\ Nodes \subseteq Nat \ {0} /\ Origin \in Nodes
  /\ \A n \in Nodes : {n} \notin Links
  /\ First \in PeersOf(Origin) /\ MaxPeers \in Nat

WithinDepth(n) == n <= NeighborhoodDepth
Down(x) == <<reqs[x].peer, x[1]>>

PushInit ==
  /\ reqs = [x \in Pair |-> Idle] /\ repl = {} /\ has = {Origin}
  /\ skipList = [n \in Nodes |-> {}] /\ listed = {} /\ receipts = {}
  /\ fails = 0 /\ pushes = 0

Fault == fails < MaxFails /\ fails' = fails + 1

-----------------------------------------------------------------------------
\* PushChunkToClosest: the pusher calls, again when the last call has failed.
PushChunkToClosest ==
  LET x == <<Origin, Me>> IN
  /\ pushes < MaxPushes /\ pushes' = pushes + 1
  /\ reqs[x].st \in {"idle", "failed"} /\ reqs' = [reqs EXCEPT ![x] = Running(MaxPeers)]
  /\ UNCHANGED <<repl, has, skipList, listed, receipts, fails>>

\* ClosestPeer: full nodes take themselves into account.  A node that does not
\* starts from its first peer, even when that is to be skipped.
Candidates(x) == (PeersOf(x[1]) \ reqs[x].skip) \cup (IF Full(x[1]) THEN {} ELSE {First})
WantSelf(x) == Full(x[1]) /\ \A p \in Candidates(x) : x[1] < p
HasNext(x) ==
  reqs[x].st = "run" /\ reqs[x].tries > 0 /\ ~WantSelf(x) /\ Candidates(x) # {}

ShouldSkip(n, p) == p \in skipList[n]

\* A peer of the skip list is passed over, as is one that accounting refuses.
SkipPeer(x) ==
  LET p == Min(Candidates(x)) IN
  /\ HasNext(x)
  /\ IF ShouldSkip(x[1], p) THEN UNCHANGED fails ELSE Fault
  /\ reqs' = [reqs EXCEPT ![x].skip = @ \cup {p}]
  /\ UNCHANGED <<repl, has, skipList, listed, receipts, pushes>>

\* What the handler of p does with a delivery of n, and whether it stores the
\* chunk.  A full node that is closer replicates: within depth the chunk is stored
\* and the receipt signed at once.  Otherwise the chunk is forwarded; a forwarder
\* within depth stores it first, unless that fails.
Handler(p, n) ==
  IF Full(n) /\ n < p
  THEN {[req |-> IF WithinDepth(p) THEN Signed(p) ELSE Failed, stores |-> WithinDepth(p)]}
  ELSE {[req |-> Running(1), stores |-> s] : s \in {FALSE, WithinDepth(p)}}

\* pushPeer past accounting: an attempt.
Sent(x, p) == [reqs[x] EXCEPT !.st = "wait", !.tries = @ - 1, !.skip = @ \cup {p}, !.peer = p]

\* The chunk is sent to the closest peer.
PushPeer(x) ==
  LET p == Min(Candidates(x))  d == <<p, x[1]>> IN
  /\ HasNext(x) /\ ~ShouldSkip(x[1], p) /\ reqs[d].st \notin {"run", "wait"}
  /\ \E h \in Handler(p, x[1]) :
       /\ has' = IF h.stores THEN has \cup {p} ELSE has
       /\ reqs' = [reqs EXCEPT ![d] = h.req, ![x] = Sent(x, p)]
  /\ UNCHANGED <<repl, skipList, listed, receipts, fails, pushes>>

\* Mutant: the closest node signs although its earlier attempt to store failed.
SignOnly(x) == UNCHANGED <<has, fails>> /\ reqs' = [reqs EXCEPT ![x] = Signed(x[1])]

\* The closest node stores the chunk if it has not done so, and signs.
StoreAndSign(x) ==
  \/ has' = has \cup {x[1]} /\ UNCHANGED fails /\ reqs' = [reqs EXCEPT ![x] = Signed(x[1])]
  \/ UNCHANGED has /\ Fault /\ reqs' = [reqs EXCEPT ![x] = Failed]

\* ErrWantSelf: outside its depth the node gives up; else it replicates to farther
\* neighbours other than its upstream.  The originator's call ends there.
ClosestIsSelf(x) ==
  /\ reqs[x].st = "run" /\ reqs[x].tries > 0 /\ WantSelf(x)
  /\ IF WithinDepth(x[1])
     THEN /\ repl' = repl \cup {<<x[1], p>> : p \in {q \in PeersOf(x[1]) : WithinDepth(q) /\ q # x[2] /\ x[1] < q}}
          /\ IF x[2] = Me
             THEN reqs' = [reqs EXCEPT ![x] = [Idle EXCEPT !.st = "self"]] /\ UNCHANGED <<has, fails>>
             ELSE StoreAndSign(x)
     ELSE /\ UNCHANGED <<repl, has, fails>> /\ reqs' = [reqs EXCEPT ![x] = Failed]
  /\ UNCHANGED <<skipList, listed, receipts, pushes>>

\* pushToNeighbour and the neighbour's handler.
PushToNeighbour(r) ==
  /\ r \in repl /\ repl' = repl \ {r}
  /\ \/ has' = has \cup {r[2]} /\ UNCHANGED fails
     \/ UNCHANGED has /\ Fault
  /\ UNCHANGED <<reqs, skipList, listed, receipts, pushes>>

-----------------------------------------------------------------------------
\* The receipt arrives: a forwarder passes it on, the originator takes it.
Receive(x) ==
  /\ reqs[x].st = "wait" /\ reqs[Down(x)].st = "done"
  /\ reqs' = [reqs EXCEPT ![x] = Signed(reqs[Down(x)].signer), ![Down(x)] = Idle]
  /\ receipts' = IF x[2] = Me THEN receipts \cup {reqs[Down(x)].signer} ELSE receipts
  /\ listed' = listed \ {x[1]}
  /\ UNCHANGED <<repl, has, skipList, fails, pushes>>

\* Add: one peer per chunk.
ListPeer(n, p) ==
  /\ skipList' = IF n \in listed THEN skipList ELSE [skipList EXCEPT ![n] = @ \cup {p}]
  /\ listed' = listed \cup {n}

\* An attempt failed, or was not answered in time: the peer is skipped for a
\* while.  The peer's handler may still be at work.
Retry(x) ==
  /\ reqs[x].st = "wait"
  /\ \/ /\ reqs[Down(x)].st = "failed" /\ UNCHANGED fails
        /\ reqs' = [reqs EXCEPT ![x].st = "run", ![Down(x)] = Idle]
     \/ /\ reqs[Down(x)].st \in {"run", "wait", "done"} /\ Fault
        /\ reqs' = [reqs EXCEPT ![x].st = "run"]
  /\ ListPeer(x[1], reqs[x].peer)
  /\ UNCHANGED <<repl, has, receipts, pushes>>

\* No try is left, or the attempts are used up on a peer that is skipped each time,
\* or the time of the handler is over.
GiveUp(x) ==
  /\ \/ /\ reqs[x].st = "run" /\ UNCHANGED fails
        /\ reqs[x].tries = 0 \/ (~WantSelf(x) /\ Candidates(x) \subseteq reqs[x].skip)
     \/ reqs[x].st \in {"run", "wait"} /\ Fault
  /\ reqs' = [reqs EXCEPT ![x] = Failed]
  /\ UNCHANGED <<repl, has, skipList, listed, receipts, pushes>>

PruneExpired(n) ==
  /\ skipList[n] # {} /\ skipList' = [skipList EXCEPT ![n] = {}]
  /\ UNCHANGED <<reqs, repl, has, listed, receipts, fails, pushes>>

PushNext ==
  \/ PushChunkToClosest
  \/ \E x \in Pair : SkipPeer(x) \/ PushPeer(x) \/ ClosestIsSelf(x) \/ Receive(x) \/ Retry(x) \/ GiveUp(x)
  \/ \E r \in repl : PushToNeighbour(r)
  \/ \E n \in Nodes : PruneExpired(n)

PushSpec == PushInit /\ [][PushNext]_pushVars
-----------------------------------------------------------------------------
(***************************************************************************)
(* A receipt is signed by a node that has stored the chunk and is no       *)
(* farther from it than any full node the receipt passes, whatever         *)
(* failed, timed out or was tried again on the way; the receipts the       *)
(* originator accepted are such receipts.                                  *)
(***************************************************************************)
ReceiptMeansStored ==
  /\ receipts \subseteq has
  /\ \A x \in Pair : reqs[x].st = "done" /\ Full(x[1]) =>
       reqs[x].signer \in has /\ reqs[x].signer <= x[1]
=============================================================================
