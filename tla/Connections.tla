----------------------------- MODULE Connections -----------------------------
(***************************************************************************)
(* The life of the connections with one full node: the libp2p service with *)
(* its peer registry, handshakes, blocklist and breaker, and kademlia,     *)
(* which dials, is told of inbound peers and of disconnects.  Handlers of  *)
(* inbound connections, the dial, the callbacks of the network and the     *)
(* calls of Disconnect interleave; each may find that the connection it    *)
(* works on is gone.                                                       *)
(***************************************************************************)
EXTENDS Naturals, FiniteSets

CONSTANTS
  Conn,        \* the numbers of the connections that are made
  BreakAfter,  \* the limit of the breaker
  MaxFaults    \* bound: failures, losses and calls from elsewhere

VARIABLES
  up, dialed,  \* the connections that are open, and those this node made
  fallen,      \* callbacks of closed connections still to come: registry, handshake
  present,     \* the registry has the peer
  conns,       \* the connections the registry holds of it
  late,        \* calls of notifier.Disconnected still to come
  received,    \* receivedHandshakes has the peer
  blocked,     \* the blocklist has the peer
  hand,        \* each connection's inbound handler
  dial,        \* the outbound attempt
  kad, heard,  \* kademlia: the peer is connected, known
  book,        \* the address book has the peer
  waiting,     \* waitNext holds the next attempt back
  failed,      \* consecutive failures the breaker has counted
  absent,      \* a call of ClosestPeer has seen the registry without the peer
  addedBy,     \* who added the peer to kademlia last
  used, faults

regVars == <<present, conns>>
netVars == <<up, dialed, fallen, used>>
kadState == <<kad, heard, book, waiting, absent, addedBy>>
connVars == <<netVars, regVars, late, received, blocked, hand, dial, kadState, failed, faults>>

NoDial == [at |-> "idle", on |-> 0, boot |-> FALSE]
ConnInit ==
  /\ up = {} /\ dialed = {} /\ fallen = {} /\ used = {}
  /\ present = FALSE /\ conns = {} /\ late = 0 /\ received = FALSE /\ blocked = FALSE
  /\ hand = [c \in Conn |-> "none"] /\ dial = NoDial
  /\ kad = FALSE /\ heard = FALSE /\ book = FALSE /\ waiting = FALSE /\ absent = FALSE
  /\ addedBy = "none" /\ failed = 0 /\ faults = 0

ConnFault == faults < MaxFaults /\ faults' = faults + 1

-----------------------------------------------------------------------------
\* The network.
\* Connections are numbered as they are made.
Open(c) == c = Cardinality(used) + 1 /\ used' = used \cup {c} /\ up' = up \cup {c}
Callbacks(cs) == cs \X {"registry", "handshake"}
\* ClosePeer: every connection with the peer is closed.
ClosePeer == up' = {} /\ fallen' = fallen \cup Callbacks(up) /\ UNCHANGED <<dialed, used>>

RemoteDials(c) ==
  /\ Open(c) /\ hand' = [hand EXCEPT ![c] = "handle"]
  /\ UNCHANGED <<dialed, fallen, regVars, late, received, blocked, dial, kadState, failed, faults>>
Lost(c) ==
  /\ c \in up /\ ConnFault /\ up' = up \ {c} /\ fallen' = fallen \cup Callbacks({c})
  /\ UNCHANGED <<dialed, used, regVars, late, received, blocked, hand, dial, kadState, failed>>

\* The registry's callback: only the last of the connections takes the peer away,
\* and the notifier is told after the lock is released.
RegistryDisconnected(c) ==
  /\ <<c, "registry">> \in fallen /\ fallen' = fallen \ {<<c, "registry">>}
  /\ IF c \in conns
     THEN /\ conns' = conns \ {c}
          /\ IF conns = {c} THEN present' = FALSE /\ late' = late + 1 ELSE UNCHANGED <<present, late>>
     ELSE UNCHANGED <<regVars, late>>
  /\ UNCHANGED <<up, dialed, used, received, blocked, hand, dial, kadState, failed, faults>>
HandshakeDisconnected(c) ==
  /\ <<c, "handshake">> \in fallen /\ fallen' = fallen \ {<<c, "handshake">>} /\ received' = FALSE
  /\ UNCHANGED <<up, dialed, used, regVars, late, blocked, hand, dial, kadState, failed, faults>>

\* addIfNotExists: the connection is kept even if the peer is there already.
AddIfNotExists(c) == conns' = conns \cup {c} /\ present' = TRUE
IsConnected == present /\ conns \cap dialed # {}

\* Disconnect: the registry forgets the peer; a peer it did not have has no peer id to
\* close the connections of.  The notifier is told in any case.
Disconnect ==
  /\ present' = FALSE /\ conns' = {} /\ late' = late + 1
  /\ IF present THEN ClosePeer ELSE UNCHANGED netVars

\* notifier.Disconnected
KadDisconnected == kad' = FALSE /\ waiting' = TRUE /\ addedBy' = "none"
NotifyDisconnected ==
  /\ late > 0 /\ late' = late - 1 /\ KadDisconnected
  /\ UNCHANGED <<netVars, regVars, received, blocked, hand, dial, heard, book, absent, failed, faults>>

\* A protocol handler or another service asks to disconnect or to block the peer.
DisconnectPeer ==
  /\ ConnFault /\ Disconnect /\ UNCHANGED <<received, blocked, hand, dial, kadState, failed>>
Blocklist ==
  /\ ConnFault /\ blocked' = TRUE /\ Disconnect /\ UNCHANGED <<received, hand, dial, kadState, failed>>
BlocklistExpires ==
  /\ blocked /\ blocked' = FALSE
  /\ UNCHANGED <<netVars, regVars, late, received, hand, dial, kadState, failed, faults>>

-----------------------------------------------------------------------------
\* handleIncoming, step by step.
At(c, pc) == hand[c] = pc
Goto(c, pc) == hand' = [hand EXCEPT ![c] = pc]
Refuse(c) == Goto(c, "none") /\ ClosePeer
\* A stream fails when its connection is gone, or otherwise.
Broken(c) == IF c \in up THEN ConnFault ELSE UNCHANGED faults

\* Handle: one handshake of a peer, until one of its connections has gone.
Handle(c) ==
  /\ At(c, "handle")
  /\ \/ received /\ Refuse(c) /\ UNCHANGED <<received, faults>>
     \/ ~received /\ received' = TRUE /\ Broken(c) /\ Refuse(c)
     \/ ~received /\ received' = TRUE /\ c \in up /\ Goto(c, "check") /\ UNCHANGED <<netVars, faults>>
  /\ UNCHANGED <<regVars, late, blocked, dial, kadState, failed>>

\* The blocklist, and Pick.
CheckBlocklist(c) ==
  /\ At(c, "check")
  /\ IF blocked THEN Refuse(c) /\ UNCHANGED faults
     ELSE \/ Goto(c, "add") /\ UNCHANGED <<netVars, faults>>
          \/ ConnFault /\ Refuse(c)
  /\ UNCHANGED <<regVars, late, received, blocked, dial, kadState, failed>>

Register(c) ==
  /\ At(c, "add") /\ AddIfNotExists(c) /\ Goto(c, IF present THEN "exists" ELSE "close")
  /\ UNCHANGED <<netVars, late, received, blocked, dial, kadState, failed, faults>>

\* FullClose of the handshake stream.
FullClose(c) ==
  /\ hand[c] \in {"exists", "close"}
  /\ \/ Broken(c) /\ Disconnect /\ Goto(c, "none")
     \/ /\ c \in up /\ Goto(c, IF At(c, "close") THEN "in" ELSE "none")
        /\ UNCHANGED <<netVars, regVars, late, faults>>
  /\ UNCHANGED <<received, blocked, dial, kadState, failed>>

\* The address book and the protocols' ConnectIn.
ConnectIn(c) ==
  /\ At(c, "in") /\ book' = TRUE
  /\ \/ ConnFault /\ Disconnect /\ Goto(c, "none")
     \/ Goto(c, "notify") /\ UNCHANGED <<netVars, regVars, late, faults>>
  /\ UNCHANGED <<received, blocked, dial, kad, heard, waiting, absent, addedBy, failed>>

\* connected, once Announce has sent the peers.
KadConnected(who) ==
  /\ heard' = TRUE /\ kad' = TRUE /\ waiting' = FALSE /\ addedBy' = who /\ UNCHANGED <<book, absent>>
NotifyConnected(c) ==
  /\ At(c, "notify")
  /\ \/ Broken(c) /\ Disconnect /\ Goto(c, "none") /\ UNCHANGED kadState
     \/ Goto(c, "exist?") /\ KadConnected("in") /\ UNCHANGED <<netVars, regVars, late, faults>>
  /\ UNCHANGED <<received, blocked, dial, failed>>

\* Mutant: the handler does not look whether the peer is still there.
NoLastCheck(c) ==
  /\ At(c, "exist?") /\ Goto(c, "none")
  /\ UNCHANGED <<netVars, regVars, late, received, blocked, dial, kadState, failed, faults>>

\* The last check: the peer may have gone in the meantime.
CheckExists(c) ==
  /\ At(c, "exist?") /\ Goto(c, "none")
  /\ IF present THEN UNCHANGED <<netVars, regVars, late>> ELSE Disconnect
  /\ UNCHANGED <<received, blocked, dial, kadState, failed, faults>>

-----------------------------------------------------------------------------
\* Kademlia's attempt to connect.
GotoDial(pc) == dial' = [dial EXCEPT !.at = pc]
GotoHandshake(c) == dial' = [at |-> "handshake", on |-> c, boot |-> dial.boot]

\* connectNeighbours and connAttempt: one attempt at a time.
Attempt ==
  /\ dial = NoDial /\ heard /\ ~kad /\ ~waiting
  /\ IF book THEN GotoDial("start") /\ UNCHANGED heard ELSE heard' = FALSE /\ UNCHANGED dial
  /\ UNCHANGED <<netVars, regVars, late, received, blocked, hand, kad, book, waiting, absent, addedBy, failed, faults>>
\* connectBootNodes, when no peer is connected.
ConnectBootNode ==
  /\ dial = NoDial /\ ~kad /\ ConnFault /\ dial' = [at |-> "start", on |-> 0, boot |-> TRUE]
  /\ UNCHANGED <<netVars, regVars, late, received, blocked, hand, kadState, failed>>

\* connect fails: the peer is forgotten at the first failure, and a backoff of the
\* breaker may only have it wait.
PrunePeer == heard' = FALSE /\ book' = FALSE /\ waiting' = FALSE /\ UNCHANGED <<kad, absent, addedBy>>
ConnectFails(backoff) ==
  /\ dial' = NoDial
  /\ \/ ~dial.boot /\ PrunePeer
     \/ dial.boot /\ UNCHANGED kadState
     \/ ~dial.boot /\ backoff /\ waiting' = TRUE /\ UNCHANGED <<kad, heard, book, absent, addedBy>>

\* Connect: already connected, held back by the breaker, or dialled.
Breaker == failed >= BreakAfter
Connect ==
  /\ dial.at = "start"
  /\ \/ IsConnected /\ dial.boot /\ dial' = NoDial /\ UNCHANGED <<netVars, kadState, failed, faults>>
     \/ IsConnected /\ ~dial.boot /\ GotoDial("add") /\ UNCHANGED <<netVars, kadState, failed, faults>>
     \/ ~IsConnected /\ Breaker /\ ConnectFails(TRUE) /\ UNCHANGED <<netVars, failed, faults>>
     \/ ~IsConnected /\ ~Breaker /\ up = {} /\ ConnFault /\ failed' = failed + 1 /\ ConnectFails(FALSE) /\ UNCHANGED netVars
     \/ /\ ~IsConnected /\ ~Breaker /\ UNCHANGED <<kadState, faults>> /\ failed' = 0
        /\ \/ \E c \in up : GotoHandshake(c) /\ UNCHANGED netVars
           \/ up = {} /\ \E c \in Conn : /\ Open(c) /\ dialed' = dialed \cup {c} /\ UNCHANGED fallen
                                         /\ GotoHandshake(c)
  /\ UNCHANGED <<regVars, late, received, blocked, hand>>
\* The breaker opens again after its backoff.
BackoffOver ==
  /\ Breaker /\ failed' = 0
  /\ UNCHANGED <<netVars, regVars, late, received, blocked, hand, dial, kadState, faults>>

\* Handshake, then the blocklist.
Handshake ==
  /\ dial.at = "handshake"
  /\ \/ (blocked \/ dial.on \notin up) /\ ClosePeer /\ ConnectFails(FALSE) /\ UNCHANGED faults
     \/ ~blocked /\ dial.on \in up /\ ConnFault /\ ClosePeer /\ ConnectFails(FALSE)
     \/ ~blocked /\ dial.on \in up /\ GotoDial("register") /\ UNCHANGED <<netVars, kadState, faults>>
  /\ UNCHANGED <<regVars, late, received, blocked, hand, failed>>
DialRegister ==
  /\ dial.at = "register" /\ AddIfNotExists(dial.on) /\ GotoDial(IF present THEN "exists" ELSE "close")
  /\ UNCHANGED <<netVars, late, received, blocked, hand, kadState, failed, faults>>
DialFullClose ==
  /\ dial.at \in {"exists", "close"}
  /\ \/ Broken(dial.on) /\ Disconnect /\ ConnectFails(FALSE)
     \/ /\ dial.on \in up /\ GotoDial(IF dial.at = "close" THEN "out" ELSE "announce")
        /\ UNCHANGED <<netVars, regVars, late, kadState, faults>>
  /\ UNCHANGED <<received, blocked, hand, failed>>
\* The address book, ConnectOut, and the last check of Connect.
ConnectOut ==
  /\ dial.at = "out"
  /\ \/ ConnFault /\ Disconnect /\ ConnectFails(FALSE)
     \/ ~present /\ Disconnect /\ ConnectFails(FALSE) /\ UNCHANGED faults
     \/ /\ present /\ GotoDial("announce") /\ book' = TRUE
        /\ UNCHANGED <<netVars, regVars, late, kad, heard, waiting, absent, addedBy, faults>>
  /\ UNCHANGED <<received, blocked, hand, failed>>
\* Announce: kademlia disconnects a peer it cannot send to.
AnnounceDialed ==
  /\ dial.at = "announce"
  /\ \/ Broken(dial.on) /\ Disconnect /\ dial' = NoDial
     \/ GotoDial("add") /\ UNCHANGED <<netVars, regVars, late, faults>>
  /\ UNCHANGED <<received, blocked, hand, kadState, failed>>
\* connectedPeers.Add, with no further look at the registry.
AddDialed ==
  /\ dial.at = "add" /\ dial' = NoDial
  /\ IF dial.boot THEN KadConnected("out")
     ELSE kad' = TRUE /\ waiting' = TRUE /\ addedBy' = "out" /\ UNCHANGED <<heard, book, absent>>
  /\ UNCHANGED <<netVars, regVars, late, received, blocked, hand, failed, faults>>

-----------------------------------------------------------------------------
\* hive: another node tells of the peer.
PeersHandler ==
  /\ ~heard /\ book' = TRUE /\ heard' = TRUE
  /\ UNCHANGED <<netVars, regVars, late, received, blocked, hand, dial, kad, waiting, absent, addedBy, failed, faults>>
WaitOver ==
  /\ waiting /\ waiting' = FALSE
  /\ UNCHANGED <<netVars, regVars, late, received, blocked, hand, dial, kad, heard, book, absent, addedBy, failed, faults>>

\* ClosestPeer reads the registry and later disconnects the peers it lacked.
ClosestPeer ==
  /\ kad /\ ~present /\ ~absent /\ absent' = TRUE
  /\ UNCHANGED <<netVars, regVars, late, received, blocked, hand, dial, kad, heard, book, waiting, addedBy, failed, faults>>
DropAbsent ==
  /\ absent /\ absent' = FALSE
  /\ IF kad THEN KadDisconnected ELSE UNCHANGED <<kad, waiting, addedBy>>
  /\ UNCHANGED <<netVars, regVars, late, received, blocked, hand, dial, heard, book, failed, faults>>

ConnNext ==
  \/ \E c \in Conn :
       \/ RemoteDials(c) \/ Lost(c) \/ RegistryDisconnected(c) \/ HandshakeDisconnected(c)
       \/ Handle(c) \/ CheckBlocklist(c) \/ Register(c) \/ FullClose(c) \/ ConnectIn(c)
       \/ NotifyConnected(c) \/ CheckExists(c)
  \/ NotifyDisconnected \/ DisconnectPeer \/ Blocklist \/ BlocklistExpires
  \/ Attempt \/ ConnectBootNode \/ Connect \/ BackoffOver \/ Handshake \/ DialRegister
  \/ DialFullClose \/ ConnectOut \/ AnnounceDialed \/ AddDialed
  \/ PeersHandler \/ WaitOver \/ ClosestPeer \/ DropAbsent

ConnSpec == ConnInit /\ [][ConnNext]_connVars
-----------------------------------------------------------------------------
\* Nothing is under way.
Quiet == fallen = {} /\ late = 0 /\ dial = NoDial /\ \A c \in Conn : hand[c] = "none"

(***************************************************************************)
(* The registry holds no connection that has gone, once its callback has   *)
(* come; and an inbound handler never leaves a peer in kademlia that the   *)
(* registry does not have, however losses, disconnects and other           *)
(* connections of the peer fall between its steps.  (A dial may: it adds   *)
(* the peer without a last look.)                                          *)
(***************************************************************************)
InboundLeavesNoGhost ==
  Quiet => /\ present => conns # {} /\ conns \subseteq up
           /\ kad /\ ~present => addedBy = "out"
=============================================================================
