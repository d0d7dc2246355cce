------------------------------ MODULE Kademlia ------------------------------
(***************************************************************************)
(* The routing table of a node (pkg/topology/kademlia and pslice): known   *)
(* and connected peers by bin, the neighbourhood depth, and which peers    *)
(* the manage loop dials.  Connection handlers run concurrently: each      *)
(* changes the connected peers first and takes depthMu to recalculate the  *)
(* depth later, and the calculation reads the peers four times.  An        *)
(* address is a number of Bits bits; the node's own is 0.                  *)
(***************************************************************************)
EXTENDS Integers, Sequences, FiniteSetsExt

CONSTANTS
  Peers,           \* addresses of peers
  Bits,            \* bits of an address, and so the number of bins
  Radii,           \* storage radii the batch store sets
  Bootnode,        \* bootnode mode
  QuickSaturation, \* quickSaturationPeers
  OverSaturation,  \* overSaturationPeers
  Watermark,       \* nnLowWatermark
  SuffixLength,    \* bitSuffixLength
  MaxTasks,        \* bound: handlers at work at a time, one per peer and kind
  MaxEvents        \* bound: peers learnt, connected, lost and dialled

ASSUME KademliaAssumption ==
  /\ Bits \in Nat \ {0} /\ Radii \subseteq Nat
  /\ QuickSaturation \in Nat \ {0} /\ Watermark \in Nat \ {0}
  /\ IsFiniteSet(Peers) /\ Peers \cup {0} \subseteq 0 .. 2^Bits - 1

VARIABLES
  connected, known, \* the peers of the two slices
  depth, radius,
  announcing,       \* handlers that gossip about a peer before they add it
  dirty,            \* handlers that changed the peers and have yet to recalculate
  calc,             \* the calculation of the depth that holds depthMu
  tableEvents

kadVars == <<connected, known, depth, radius, announcing, dirty, calc, tableEvents>>

-----------------------------------------------------------------------------
\* Addresses.
Base == 0
Bin == 0 .. Bits - 1
Bit(a, i) == (a \div 2^(Bits - 1 - i)) % 2
Addr == 0 .. 2^Bits - 1
CommonBits(a, b) == {i \in Bin : \A j \in 0 .. i : Bit(a, j) = Bit(b, j)}
Proximities == [a \in Addr |-> [b \in Addr |-> Cardinality(CommonBits(a, b))]]
Proximity(a, b) == Proximities[a][b]
ExtendedProximity(a, b) == Proximities[a][b]
Closer(addr, a, b) == a # b /\ LET i == Proximity(a, b) IN Bit(a, i) = Bit(addr, i)

\* The slice of peers, in bins by proximity to the node.
Pos == [p \in Addr |-> IF Proximity(Base, p) >= Bits THEN Bits - 1 ELSE Proximity(Base, p)]
Po(p) == Pos[p]
BinPeers(peers, bin) == {p \in peers : Po(p) = bin}
EmptyBins(peers) == {i \in Bin : BinPeers(peers, i) = {}}

Insert(peers, p) == peers \cup {p}
Remove(peers, p) == peers \ {p}

\* Add: the first address that is already there ends it.
AddAll(peers, addrs) ==
  LET Stop == {i \in DOMAIN addrs : \/ addrs[i] \in peers
                                    \/ \E j \in 1 .. i - 1 : addrs[j] = addrs[i]}
      n == IF Stop = {} THEN Len(addrs) ELSE Min(Stop) - 1
  IN peers \cup {addrs[i] : i \in 1 .. n}

\* generateCommonBinPrefixes: the node's address with the bit of the bin flipped,
\* every suffix of SuffixLength bits behind it, and zeros (the node is 0).
CommonBinPrefixes(bin) ==
  {2^(Bits - 1 - bin) + s * 2^(Bits - 1 - bin - SuffixLength) : s \in 0 .. 2^SuffixLength - 1}

\* closestPeer
ClosestOf(peers, addr) == CHOOSE p \in peers : \A q \in peers \ {p} : Closer(addr, p, q)
\* A pseudo address of the bin has a peer nearby.
Covered(peers, addr, bin) == ExtendedProximity(ClosestOf(peers, addr), addr) >= bin + SuffixLength + 1

-----------------------------------------------------------------------------
\* recalcDepth, in its four reads of the peers.
Few(peers) == Cardinality(peers) <= Watermark
ShallowestEmpty(peers) == IF EmptyBins(peers) = {} THEN Bits ELSE Min(EmptyBins(peers))
\* From the shallowest bin on: the first bin with less than QuickSaturation peers
\* that has a deeper peer, or the deepest bin with peers; empty bins are passed over.
ShallowestUnsaturated(peers) ==
  LET Thin == {i \in Bin : /\ i = 0 \/ BinPeers(peers, i) # {}
                           /\ Cardinality(BinPeers(peers, i)) < QuickSaturation
                           /\ \E p \in peers : Po(p) > i}
  IN IF Thin # {} THEN Min(Thin)
     ELSE IF peers = {} THEN 0 ELSE Max({Po(p) : p \in peers})
\* From the deepest bin on: the bin of the Watermark-th peer.
Candidate(peers) ==
  LET Deep == {i \in Bin : Cardinality({p \in peers : Po(p) >= i}) >= Watermark}
  IN IF Deep = {} THEN 0 ELSE Max(Deep)
Depth(empty, unsaturated, candidate, r) ==
  Min({unsaturated, candidate, r} \cup (IF empty < Bits THEN {empty} ELSE {}))
\* The same from one set of peers, with no radius.
PotentialDepth ==
  [peers \in SUBSET Peers |->
     IF Few(peers) THEN 0
     ELSE Depth(ShallowestEmpty(peers), ShallowestUnsaturated(peers), Candidate(peers), Bits)]

\* binSaturated: the second result.
OverSaturated(bin) ==
  /\ bin < PotentialDepth[known] /\ Cardinality(BinPeers(connected, bin)) >= OverSaturation

Free == [by |-> <<>>, at |-> "free", radius |-> 0, empty |-> 0, unsaturated |-> 0]
Calculation(t, r) == [Free EXCEPT !.by = t, !.at = "length", !.radius = r]
Init ==
  /\ connected = {} /\ known = {} /\ depth = 0 /\ radius = 0
  /\ announcing = {} /\ dirty = {} /\ calc = Free /\ tableEvents = 0

CanStart ==
  /\ Cardinality(announcing) + Cardinality(dirty) < MaxTasks
  /\ tableEvents < MaxEvents /\ tableEvents' = tableEvents + 1

-----------------------------------------------------------------------------
\* AddPeers
AddPeers(addrs) ==
  /\ tableEvents < MaxEvents /\ tableEvents' = tableEvents + 1
  /\ known' = AddAll(known, addrs) /\ known' # known
  /\ UNCHANGED <<connected, depth, radius, announcing, dirty, calc>>

\* Disconnected: the peer leaves the slice; its handler has yet to recalculate.
Leave(p) == connected' = Remove(connected, p) /\ dirty' = dirty \cup {<<"out", p>>}
Disconnected(p) ==
  /\ CanStart /\ p \in connected /\ <<"out", p>> \notin dirty /\ Leave(p)
  /\ UNCHANGED <<known, depth, radius, announcing, calc>>

\* Connected: an oversaturated bin refuses the peer, unless the connection is
\* forced; a bootnode disconnects a random peer of the bin (randomPeer) first.
Connected(p, force) ==
  /\ CanStart /\ p \notin connected /\ <<"in", p>> \notin announcing \cup dirty
  /\ announcing' = announcing \cup {<<"in", p>>}
  /\ \/ (~OverSaturated(Po(p)) \/ (force /\ ~Bootnode)) /\ UNCHANGED <<connected, dirty>>
     \/ OverSaturated(Po(p)) /\ Bootnode /\ \E q \in BinPeers(connected, Po(p)) : <<"out", q>> \notin dirty /\ Leave(q)
  /\ UNCHANGED <<known, depth, radius, calc>>

\* connectNeighbours: a known peer that is not connected, no shallower than the
\* depth, of a bin that may still grow.
ConnectNeighbours ==
  {p \in known \ connected : Po(p) >= depth /\ Cardinality(BinPeers(connected, Po(p))) < OverSaturation - 1}

\* connectBalanced: in the bins shallower than the depth, the known peer closest to
\* a pseudo address that no connected peer is near to.
ConnectBalanced ==
  IF connected = {} THEN {}
  ELSE {p \in known \ connected : \E bin \in 0 .. depth - 1 : \E a \in CommonBinPrefixes(bin) :
          /\ ~Covered(connected, a, bin) /\ p = ClosestOf(known, a) /\ Covered(known, a, bin)}

\* An attempt of the manage loop has connected and gossips.
Dial(p) ==
  /\ CanStart /\ p \in ConnectNeighbours \cup ConnectBalanced
  /\ <<"dial", p>> \notin announcing \cup dirty
  /\ announcing' = announcing \cup {<<"dial", p>>}
  /\ UNCHANGED <<connected, known, depth, radius, dirty, calc>>
\* An attempt finds that the peer is to be forgotten.
Prune(p) ==
  /\ p \in ConnectNeighbours \cup ConnectBalanced
  /\ tableEvents < MaxEvents /\ tableEvents' = tableEvents + 1
  /\ known' = Remove(known, p) /\ UNCHANGED <<connected, depth, radius, announcing, dirty, calc>>

\* Announce fails: the handler gives up.
AnnounceFails(t) ==
  /\ t \in announcing /\ announcing' = announcing \ {t}
  /\ UNCHANGED <<connected, known, depth, radius, dirty, calc, tableEvents>>
\* The peer is added.
Announced(t) ==
  /\ t \in announcing /\ announcing' = announcing \ {t} /\ dirty' = dirty \cup {t}
  /\ connected' = Insert(connected, t[2])
  /\ known' = IF t[1] = "in" THEN Insert(known, t[2]) ELSE known
  /\ UNCHANGED <<depth, radius, calc, tableEvents>>

-----------------------------------------------------------------------------
\* Mutant: SetRadius sets the radius before it takes depthMu.
SetRadiusUnlocked(r) ==
  /\ r # radius /\ radius' = r
  /\ IF calc = Free THEN calc' = Calculation(<<"radius", 0>>, r) ELSE UNCHANGED calc
  /\ UNCHANGED <<connected, known, depth, announcing, dirty, tableEvents>>

\* SetRadius keeps depthMu for the assignment and the calculation.
SetRadius(r) ==
  /\ calc = Free /\ r # radius /\ radius' = r
  /\ calc' = Calculation(<<"radius", 0>>, r)
  /\ UNCHANGED <<connected, known, depth, announcing, dirty, tableEvents>>

\* A handler takes depthMu.
Lock(t) ==
  /\ t \in dirty /\ calc = Free /\ calc' = Calculation(t, radius)
  /\ UNCHANGED <<connected, known, depth, radius, announcing, dirty, tableEvents>>

\* The calculation ends: the depth is set and the lock released.
SetDepth(d) == depth' = d /\ calc' = Free /\ dirty' = dirty \ {calc.by}

ReadLength ==
  /\ calc.at = "length"
  /\ IF Few(connected) THEN SetDepth(0)
     ELSE calc' = [calc EXCEPT !.at = "empty"] /\ UNCHANGED <<depth, dirty>>
  /\ UNCHANGED <<connected, known, radius, announcing, tableEvents>>
ReadEmpty ==
  /\ calc.at = "empty"
  /\ calc' = [calc EXCEPT !.at = "unsaturated", !.empty = ShallowestEmpty(connected)]
  /\ UNCHANGED <<connected, known, depth, radius, announcing, dirty, tableEvents>>
ReadUnsaturated ==
  /\ calc.at = "unsaturated"
  /\ calc' = [calc EXCEPT !.at = "candidate", !.unsaturated = ShallowestUnsaturated(connected)]
  /\ UNCHANGED <<connected, known, depth, radius, announcing, dirty, tableEvents>>
ReadCandidate ==
  /\ calc.at = "candidate"
  /\ SetDepth(Depth(calc.empty, calc.unsaturated, Candidate(connected), calc.radius))
  /\ UNCHANGED <<connected, known, radius, announcing, tableEvents>>

Next ==
  \/ \E p \in Peers : Disconnected(p) \/ Dial(p) \/ Prune(p) \/ \E force \in BOOLEAN : Connected(p, force)
  \/ \E p, q \in Peers : AddPeers(<<p, q>>)
  \/ \E t \in announcing : AnnounceFails(t) \/ Announced(t)
  \/ \E r \in Radii : SetRadius(r)
  \/ \E t \in dirty : Lock(t)
  \/ ReadLength \/ ReadEmpty \/ ReadUnsaturated \/ ReadCandidate

Spec == Init /\ [][Next]_kadVars
-----------------------------------------------------------------------------
\* A depth that the connected peers and the radius allow: every shallower bin has
\* QuickSaturation peers, and Watermark peers are at least as deep.
Allowed(d) ==
  /\ d <= radius /\ \A i \in 0 .. d - 1 : Cardinality(BinPeers(connected, i)) >= QuickSaturation
  /\ d = 0 \/ Cardinality({p \in connected : Po(p) >= d}) >= Watermark

(***************************************************************************)
(* Whatever handlers overlapped, and although a calculation may see        *)
(* different peers in its four reads: when no handler is left between its  *)
(* change of the peers and the end of its calculation, the depth is the    *)
(* greatest that the connected peers and the radius allow.                 *)
(***************************************************************************)
DepthIsGreatestAllowed ==
  dirty = {} /\ calc = Free => depth = Max({d \in 0 .. Bits : Allowed(d)})
=============================================================================
