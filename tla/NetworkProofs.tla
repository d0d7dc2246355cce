--------------------------- MODULE NetworkProofs ---------------------------
(***************************************************************************)
(* Proofs about the components that talk to other nodes: the depth that    *)
(* kademlia calculates (DepthIsGreatestAllowed), the receipts of push sync *)
(* (ReceiptMeansStored) and the peers that inbound connections leave       *)
(* behind (InboundLeavesNoGhost), for any peers, networks, connections and *)
(* numbers of faults.                                                      *)
(***************************************************************************)
EXTENDS Kademlia, PushSync, Connections, FiniteSetTheorems, NaturalsInduction,
        WellFoundedInduction, TLAPS

\* Most leaves are first-order; the ones with arithmetic cite SMT.
USE Zenon

-----------------------------------------------------------------------------
(* Connections.                                                            *)

HandStep == {"none", "handle", "check", "add", "exists", "close", "in", "notify", "exist?"}
DialStep == {"idle", "start", "handshake", "register", "exists", "close", "out", "announce", "add"}

RegistryOK ==
  /\ present \in BOOLEAN
  /\ up \subseteq Conn /\ conns \subseteq Conn
  /\ hand \in [Conn -> HandStep]

DialOK ==
  /\ dial \in [at : DialStep, on : Conn \cup {0}, boot : BOOLEAN]
  /\ dial.at \in {"handshake", "register"} => dial.on \in Conn

ConnTypeOK == late \in Nat /\ RegistryOK /\ DialOK

\* Connections are numbered from one, and a handler works on one that was made.
Numbered ==
  /\ \E k \in Nat : used = 1..k
  /\ \A c \in Conn : hand[c] # "none" => c \in used

\* A connection in the registry is open, or its callback is still to come, or
\* the step that put it there is about to notice that it has gone.
Held(c) ==
  \/ c \in up
  \/ <<c, "registry">> \in fallen
  \/ hand[c] \in {"exists", "close"}
  \/ dial.at \in {"exists", "close"} /\ dial.on = c

\* A ghost that an inbound handler left is about to be noticed.
Noticed == late > 0 \/ \E c \in Conn : hand[c] = "exist?"

GhostInv ==
  /\ present <=> conns # {}
  /\ \A c \in conns : Held(c)
  /\ kad /\ ~present /\ addedBy # "out" => Noticed

ConnInv == ConnTypeOK /\ Numbered /\ GhostInv

-----------------------------------------------------------------------------
LEMMA ConnStart == ConnInit => ConnInv
<1> SUFFICES ASSUME ConnInit PROVE ConnInv
  OBVIOUS
<1>1. RegistryOK
  BY DEF ConnInit, RegistryOK, HandStep
<1>5. DialOK
  BY SMT DEF ConnInit, DialOK, DialStep, NoDial
<1>6. ConnTypeOK
  BY <1>1, <1>5, SMT DEF ConnInit, ConnTypeOK
<1>2. used = 1..0
  BY SMT DEF ConnInit
<1>3. Numbered
  BY <1>2, SMT DEF ConnInit, Numbered
<1>4. GhostInv
  BY DEF ConnInit, GhostInv
<1> QED  BY <1>6, <1>3, <1>4 DEF ConnInv

\* A new connection gets the next number.
LEMMA OpenNew ==
  ASSUME Numbered, NEW c, Open(c)
  PROVE  c \notin used /\ \E k \in Nat : used' = 1..k
<1>1. PICK k \in Nat : used = 1..k
  BY DEF Numbered
<1>2. Cardinality(used) = k
  BY <1>1, FS_Interval, SMT
<1>3. c = k + 1 /\ used' = used \cup {c}
  BY <1>2 DEF Open
<1>4. c \notin used /\ used' = 1..(k + 1)
  BY <1>1, <1>3, SMT
<1> QED  BY <1>4, SMT

\* The moves of the dial.
LEMMA DialEnds == dial' = NoDial => DialOK'
  BY SMT DEF NoDial, DialOK, DialStep

LEMMA DialGoes ==
  ASSUME DialOK, NEW s \in DialStep \ {"handshake"}, s = "register" => dial.on \in Conn, GotoDial(s)
  PROVE  DialOK'
  BY SMT DEF GotoDial, DialOK, DialStep

LEMMA DialTakes ==
  ASSUME DialOK, NEW c \in Conn, GotoHandshake(c)
  PROVE  DialOK'
  BY SMT DEF GotoHandshake, DialOK, DialStep


\* The calls of the notifier that are late are counted.
LEMMA LateKept ==
  ASSUME ConnInv, ConnNext PROVE late' \in Nat
<1>1. ASSUME NEW c \in Conn, RemoteDials(c) PROVE late' \in Nat
  BY <1>1, SMT DEF ConnInv, ConnTypeOK, regVars, kadState, Open, RemoteDials
<1>2. ASSUME NEW c \in Conn, Lost(c) PROVE late' \in Nat
  BY <1>2, SMT DEF ConnInv, ConnTypeOK, regVars, kadState, ConnFault, Callbacks, Lost
<1>3. ASSUME NEW c \in Conn, RegistryDisconnected(c) PROVE late' \in Nat
  BY <1>3, SMT DEF ConnInv, ConnTypeOK, regVars, kadState, RegistryDisconnected
<1>4. ASSUME NEW c \in Conn, HandshakeDisconnected(c) PROVE late' \in Nat
  BY <1>4, SMT DEF ConnInv, ConnTypeOK, regVars, kadState, HandshakeDisconnected
<1>5. ASSUME NEW c \in Conn, Handle(c) PROVE late' \in Nat
  BY <1>5, SMT DEF ConnInv, ConnTypeOK, regVars, netVars, kadState, ConnFault, Callbacks, ClosePeer,
      At, Goto, Refuse, Broken, Handle
<1>6. ASSUME NEW c \in Conn, CheckBlocklist(c) PROVE late' \in Nat
  BY <1>6, SMT DEF ConnInv, ConnTypeOK, regVars, netVars, kadState, ConnFault, Callbacks, ClosePeer,
      At, Goto, Refuse, CheckBlocklist
<1>7. ASSUME NEW c \in Conn, Register(c) PROVE late' \in Nat
  BY <1>7, SMT DEF ConnInv, ConnTypeOK, netVars, kadState, AddIfNotExists, At, Goto, Register
<1>8. ASSUME NEW c \in Conn, FullClose(c) PROVE late' \in Nat
  BY <1>8, SMT DEF ConnInv, ConnTypeOK, regVars, netVars, kadState, ConnFault, Callbacks, ClosePeer,
      Disconnect, At, Goto, Broken, FullClose
<1>9. ASSUME NEW c \in Conn, ConnectIn(c) PROVE late' \in Nat
  BY <1>9, SMT DEF ConnInv, ConnTypeOK, regVars, netVars, ConnFault, Callbacks, ClosePeer,
      Disconnect, At, Goto, ConnectIn
<1>10. ASSUME NEW c \in Conn, NotifyConnected(c) PROVE late' \in Nat
  BY <1>10, SMT DEF ConnInv, ConnTypeOK, regVars, netVars, kadState, ConnFault, Callbacks, ClosePeer,
      Disconnect, At, Goto, Broken, KadConnected, NotifyConnected
<1>11. ASSUME NEW c \in Conn, CheckExists(c) PROVE late' \in Nat
  BY <1>11, SMT DEF ConnInv, ConnTypeOK, regVars, netVars, kadState, Callbacks, ClosePeer,
      Disconnect, At, Goto, CheckExists
<1>12. CASE NotifyDisconnected
  BY <1>12, SMT DEF ConnInv, ConnTypeOK, regVars, netVars, KadDisconnected, NotifyDisconnected
<1>13. CASE DisconnectPeer
  BY <1>13, SMT DEF ConnInv, ConnTypeOK, netVars, kadState, ConnFault, Callbacks, ClosePeer,
      Disconnect, DisconnectPeer
<1>14. CASE Blocklist
  BY <1>14, SMT DEF ConnInv, ConnTypeOK, netVars, kadState, ConnFault, Callbacks, ClosePeer,
      Disconnect, Blocklist
<1>15. CASE BlocklistExpires
  BY <1>15, SMT DEF ConnInv, ConnTypeOK, regVars, netVars, kadState, BlocklistExpires
<1>16. CASE Attempt
  BY <1>16, SMT DEF ConnInv, ConnTypeOK, regVars, netVars, NoDial, GotoDial, Attempt
<1>17. CASE ConnectBootNode
  BY <1>17, SMT DEF ConnInv, ConnTypeOK, regVars, netVars, kadState, NoDial, ConnFault,
      ConnectBootNode
<1>18. CASE Connect
  BY <1>18, SMT DEF ConnInv, ConnTypeOK, regVars, netVars, kadState, NoDial, ConnFault, Open,
      IsConnected, GotoDial, GotoHandshake, PrunePeer, ConnectFails, Breaker, Connect
<1>19. CASE BackoffOver
  BY <1>19, SMT DEF ConnInv, ConnTypeOK, regVars, netVars, kadState, Breaker, BackoffOver
<1>20. CASE Handshake
  BY <1>20, SMT DEF ConnInv, ConnTypeOK, regVars, netVars, kadState, NoDial, ConnFault, Callbacks,
      ClosePeer, GotoDial, PrunePeer, ConnectFails, Handshake
<1>21. CASE DialRegister
  BY <1>21, SMT DEF ConnInv, ConnTypeOK, netVars, kadState, AddIfNotExists, GotoDial, DialRegister
<1>22. CASE DialFullClose
  BY <1>22, SMT DEF ConnInv, ConnTypeOK, regVars, netVars, kadState, NoDial, ConnFault, Callbacks,
      ClosePeer, Disconnect, Broken, GotoDial, PrunePeer, ConnectFails, DialFullClose
<1>23. CASE ConnectOut
  BY <1>23, SMT DEF ConnInv, ConnTypeOK, regVars, netVars, kadState, NoDial, ConnFault, Callbacks,
      ClosePeer, Disconnect, GotoDial, PrunePeer, ConnectFails, ConnectOut
<1>24. CASE AnnounceDialed
  BY <1>24, SMT DEF ConnInv, ConnTypeOK, regVars, netVars, kadState, NoDial, ConnFault, Callbacks,
      ClosePeer, Disconnect, Broken, GotoDial, AnnounceDialed
<1>25. CASE AddDialed
  BY <1>25, SMT DEF ConnInv, ConnTypeOK, regVars, netVars, NoDial, KadConnected, AddDialed
<1>26. CASE PeersHandler
  BY <1>26, SMT DEF ConnInv, ConnTypeOK, regVars, netVars, PeersHandler
<1>27. CASE WaitOver
  BY <1>27, SMT DEF ConnInv, ConnTypeOK, regVars, netVars, WaitOver
<1>28. CASE ClosestPeer
  BY <1>28, SMT DEF ConnInv, ConnTypeOK, regVars, netVars, ClosestPeer
<1>29. CASE DropAbsent
  BY <1>29, SMT DEF ConnInv, ConnTypeOK, regVars, netVars, KadDisconnected, DropAbsent
<1> QED  BY <1>1, <1>2, <1>3, <1>4, <1>5, <1>6, <1>7, <1>8, <1>9, <1>10, <1>11, <1>12, <1>13,
      <1>14, <1>15, <1>16, <1>17, <1>18, <1>19, <1>20, <1>21, <1>22, <1>23, <1>24, <1>25, <1>26,
      <1>27, <1>28, <1>29 DEF ConnNext

\* The registry, the open connections and the handlers keep their types.
LEMMA RegistryKept ==
  ASSUME ConnInv, ConnNext PROVE RegistryOK'
<1>1. ASSUME NEW c \in Conn, RemoteDials(c) PROVE RegistryOK'
  BY <1>1, Zenon DEF ConnInv, ConnTypeOK, RegistryOK, DialOK, HandStep, DialStep, regVars, kadState, Open,
      RemoteDials
<1>2. ASSUME NEW c \in Conn, Lost(c) PROVE RegistryOK'
  BY <1>2, Zenon DEF ConnInv, ConnTypeOK, RegistryOK, DialOK, HandStep, DialStep, regVars, kadState,
      ConnFault, Callbacks, Lost
<1>3. ASSUME NEW c \in Conn, RegistryDisconnected(c) PROVE RegistryOK'
  BY <1>3, Zenon DEF ConnInv, ConnTypeOK, RegistryOK, DialOK, HandStep, DialStep, regVars, kadState,
      RegistryDisconnected
<1>4. ASSUME NEW c \in Conn, HandshakeDisconnected(c) PROVE RegistryOK'
  BY <1>4, Zenon DEF ConnInv, ConnTypeOK, RegistryOK, DialOK, HandStep, DialStep, regVars, kadState,
      HandshakeDisconnected
<1>5. ASSUME NEW c \in Conn, Handle(c) PROVE RegistryOK'
  BY <1>5, Zenon DEF ConnInv, ConnTypeOK, RegistryOK, DialOK, HandStep, DialStep, regVars, netVars,
      kadState, ConnFault, Callbacks, ClosePeer, At, Goto, Refuse, Broken, Handle
<1>6. ASSUME NEW c \in Conn, CheckBlocklist(c) PROVE RegistryOK'
  BY <1>6, Zenon DEF ConnInv, ConnTypeOK, RegistryOK, DialOK, HandStep, DialStep, regVars, netVars,
      kadState, ConnFault, Callbacks, ClosePeer, At, Goto, Refuse, CheckBlocklist
<1>7. ASSUME NEW c \in Conn, Register(c) PROVE RegistryOK'
  BY <1>7, Zenon DEF ConnInv, ConnTypeOK, RegistryOK, DialOK, HandStep, DialStep, netVars, kadState,
      AddIfNotExists, At, Goto, Register
<1>8. ASSUME NEW c \in Conn, FullClose(c) PROVE RegistryOK'
  BY <1>8, Zenon DEF ConnInv, ConnTypeOK, RegistryOK, DialOK, HandStep, DialStep, regVars, netVars,
      kadState, ConnFault, Callbacks, ClosePeer, Disconnect, At, Goto, Broken, FullClose
<1>9. ASSUME NEW c \in Conn, ConnectIn(c) PROVE RegistryOK'
  BY <1>9, Zenon DEF ConnInv, ConnTypeOK, RegistryOK, DialOK, HandStep, DialStep, regVars, netVars,
      ConnFault, Callbacks, ClosePeer, Disconnect, At, Goto, ConnectIn
<1>10. ASSUME NEW c \in Conn, NotifyConnected(c) PROVE RegistryOK'
  BY <1>10, Zenon DEF ConnInv, ConnTypeOK, RegistryOK, DialOK, HandStep, DialStep, regVars, netVars,
      kadState, ConnFault, Callbacks, ClosePeer, Disconnect, At, Goto, Broken, KadConnected,
      NotifyConnected
<1>11. ASSUME NEW c \in Conn, CheckExists(c) PROVE RegistryOK'
  BY <1>11, Zenon DEF ConnInv, ConnTypeOK, RegistryOK, DialOK, HandStep, DialStep, regVars, netVars,
      kadState, Callbacks, ClosePeer, Disconnect, At, Goto, CheckExists
<1>12. CASE NotifyDisconnected
  BY <1>12, Zenon DEF ConnInv, ConnTypeOK, RegistryOK, DialOK, HandStep, DialStep, regVars, netVars,
      KadDisconnected, NotifyDisconnected
<1>13. CASE DisconnectPeer
  BY <1>13, Zenon DEF ConnInv, ConnTypeOK, RegistryOK, DialOK, HandStep, DialStep, netVars, kadState,
      ConnFault, Callbacks, ClosePeer, Disconnect, DisconnectPeer
<1>14. CASE Blocklist
  BY <1>14, Zenon DEF ConnInv, ConnTypeOK, RegistryOK, DialOK, HandStep, DialStep, netVars, kadState,
      ConnFault, Callbacks, ClosePeer, Disconnect, Blocklist
<1>15. CASE BlocklistExpires
  BY <1>15, Zenon DEF ConnInv, ConnTypeOK, RegistryOK, DialOK, HandStep, DialStep, regVars, netVars,
      kadState, BlocklistExpires
<1>16. CASE Attempt
  BY <1>16, Zenon DEF ConnInv, ConnTypeOK, RegistryOK, DialOK, HandStep, DialStep, regVars, netVars, NoDial,
      GotoDial, Attempt
<1>17. CASE ConnectBootNode
  BY <1>17, Zenon DEF ConnInv, ConnTypeOK, RegistryOK, DialOK, HandStep, DialStep, regVars, netVars,
      kadState, NoDial, ConnFault, ConnectBootNode
<1>18. CASE Connect
  BY <1>18, Zenon DEF ConnInv, ConnTypeOK, RegistryOK, DialOK, HandStep, DialStep, regVars, netVars,
      kadState, NoDial, ConnFault, Open, IsConnected, GotoDial, GotoHandshake, PrunePeer,
      ConnectFails, Breaker, Connect
<1>19. CASE BackoffOver
  BY <1>19, Zenon DEF ConnInv, ConnTypeOK, RegistryOK, DialOK, HandStep, DialStep, regVars, netVars,
      kadState, Breaker, BackoffOver
<1>20. CASE Handshake
  BY <1>20, Zenon DEF ConnInv, ConnTypeOK, RegistryOK, DialOK, HandStep, DialStep, regVars, netVars,
      kadState, NoDial, ConnFault, Callbacks, ClosePeer, GotoDial, PrunePeer, ConnectFails,
      Handshake
<1>21. CASE DialRegister
  BY <1>21, Zenon DEF ConnInv, ConnTypeOK, RegistryOK, DialOK, HandStep, DialStep, netVars, kadState,
      AddIfNotExists, GotoDial, DialRegister
<1>22. CASE DialFullClose
  BY <1>22, Zenon DEF ConnInv, ConnTypeOK, RegistryOK, DialOK, HandStep, DialStep, regVars, netVars,
      kadState, NoDial, ConnFault, Callbacks, ClosePeer, Disconnect, Broken, GotoDial, PrunePeer,
      ConnectFails, DialFullClose
<1>23. CASE ConnectOut
  BY <1>23, Zenon DEF ConnInv, ConnTypeOK, RegistryOK, DialOK, HandStep, DialStep, regVars, netVars,
      kadState, NoDial, ConnFault, Callbacks, ClosePeer, Disconnect, GotoDial, PrunePeer,
      ConnectFails, ConnectOut
<1>24. CASE AnnounceDialed
  BY <1>24, Zenon DEF ConnInv, ConnTypeOK, RegistryOK, DialOK, HandStep, DialStep, regVars, netVars,
      kadState, NoDial, ConnFault, Callbacks, ClosePeer, Disconnect, Broken, GotoDial,
      AnnounceDialed
<1>25. CASE AddDialed
  BY <1>25, Zenon DEF ConnInv, ConnTypeOK, RegistryOK, DialOK, HandStep, DialStep, regVars, netVars, NoDial,
      KadConnected, AddDialed
<1>26. CASE PeersHandler
  BY <1>26, Zenon DEF ConnInv, ConnTypeOK, RegistryOK, DialOK, HandStep, DialStep, regVars, netVars,
      PeersHandler
<1>27. CASE WaitOver
  BY <1>27, Zenon DEF ConnInv, ConnTypeOK, RegistryOK, DialOK, HandStep, DialStep, regVars, netVars,
      WaitOver
<1>28. CASE ClosestPeer
  BY <1>28, Zenon DEF ConnInv, ConnTypeOK, RegistryOK, DialOK, HandStep, DialStep, regVars, netVars,
      ClosestPeer
<1>29. CASE DropAbsent
  BY <1>29, Zenon DEF ConnInv, ConnTypeOK, RegistryOK, DialOK, HandStep, DialStep, regVars, netVars,
      KadDisconnected, DropAbsent
<1> QED  BY <1>1, <1>2, <1>3, <1>4, <1>5, <1>6, <1>7, <1>8, <1>9, <1>10, <1>11, <1>12, <1>13,
      <1>14, <1>15, <1>16, <1>17, <1>18, <1>19, <1>20, <1>21, <1>22, <1>23, <1>24, <1>25, <1>26,
      <1>27, <1>28, <1>29 DEF ConnNext

\* The dial of the manage loop goes through its steps with a connection.
LEMMA DialKept ==
  ASSUME ConnInv, ConnNext PROVE DialOK'
<1>1. ASSUME NEW c \in Conn, RemoteDials(c) PROVE DialOK'
  BY <1>1, SMT DEF ConnInv, ConnTypeOK, RegistryOK, DialOK, DialStep, regVars, kadState, Open, RemoteDials
<1>2. ASSUME NEW c \in Conn, Lost(c) PROVE DialOK'
  BY <1>2, SMT DEF ConnInv, ConnTypeOK, RegistryOK, DialOK, DialStep, regVars, kadState, ConnFault,
      Callbacks, Lost
<1>3. ASSUME NEW c \in Conn, RegistryDisconnected(c) PROVE DialOK'
  BY <1>3, SMT DEF ConnInv, ConnTypeOK, RegistryOK, DialOK, DialStep, regVars, kadState,
      RegistryDisconnected
<1>4. ASSUME NEW c \in Conn, HandshakeDisconnected(c) PROVE DialOK'
  BY <1>4, SMT DEF ConnInv, ConnTypeOK, RegistryOK, DialOK, DialStep, regVars, kadState,
      HandshakeDisconnected
<1>5. ASSUME NEW c \in Conn, Handle(c) PROVE DialOK'
  BY <1>5, SMT DEF ConnInv, ConnTypeOK, RegistryOK, DialOK, DialStep, regVars, netVars, kadState, ConnFault,
      Callbacks, ClosePeer, At, Goto, Refuse, Broken, Handle
<1>6. ASSUME NEW c \in Conn, CheckBlocklist(c) PROVE DialOK'
  BY <1>6, SMT DEF ConnInv, ConnTypeOK, RegistryOK, DialOK, DialStep, regVars, netVars, kadState, ConnFault,
      Callbacks, ClosePeer, At, Goto, Refuse, CheckBlocklist
<1>7. ASSUME NEW c \in Conn, Register(c) PROVE DialOK'
  BY <1>7, SMT DEF ConnInv, ConnTypeOK, RegistryOK, DialOK, DialStep, netVars, kadState, AddIfNotExists, At,
      Goto, Register
<1>8. ASSUME NEW c \in Conn, FullClose(c) PROVE DialOK'
  BY <1>8, SMT DEF ConnInv, ConnTypeOK, RegistryOK, DialOK, DialStep, regVars, netVars, kadState, ConnFault,
      Callbacks, ClosePeer, Disconnect, At, Goto, Broken, FullClose
<1>9. ASSUME NEW c \in Conn, ConnectIn(c) PROVE DialOK'
  BY <1>9, SMT DEF ConnInv, ConnTypeOK, RegistryOK, DialOK, DialStep, regVars, netVars, ConnFault,
      Callbacks, ClosePeer, Disconnect, At, Goto, ConnectIn
<1>10. ASSUME NEW c \in Conn, NotifyConnected(c) PROVE DialOK'
  BY <1>10, SMT DEF ConnInv, ConnTypeOK, RegistryOK, DialOK, DialStep, regVars, netVars, kadState,
      ConnFault, Callbacks, ClosePeer, Disconnect, At, Goto, Broken, KadConnected, NotifyConnected
<1>11. ASSUME NEW c \in Conn, CheckExists(c) PROVE DialOK'
  BY <1>11, SMT DEF ConnInv, ConnTypeOK, RegistryOK, DialOK, DialStep, regVars, netVars, kadState,
      Callbacks, ClosePeer, Disconnect, At, Goto, CheckExists
<1>12. CASE NotifyDisconnected
  BY <1>12, SMT DEF ConnInv, ConnTypeOK, RegistryOK, DialOK, DialStep, regVars, netVars, KadDisconnected,
      NotifyDisconnected
<1>13. CASE DisconnectPeer
  BY <1>13, SMT DEF ConnInv, ConnTypeOK, RegistryOK, DialOK, DialStep, netVars, kadState, ConnFault,
      Callbacks, ClosePeer, Disconnect, DisconnectPeer
<1>14. CASE Blocklist
  BY <1>14, SMT DEF ConnInv, ConnTypeOK, RegistryOK, DialOK, DialStep, netVars, kadState, ConnFault,
      Callbacks, ClosePeer, Disconnect, Blocklist
<1>15. CASE BlocklistExpires
  BY <1>15, SMT DEF ConnInv, ConnTypeOK, RegistryOK, DialOK, DialStep, regVars, netVars, kadState,
      BlocklistExpires
<1>16. CASE Attempt
  <2>1. CASE dial' = dial
    BY <2>1 DEF ConnInv, ConnTypeOK, DialOK
  <2>2. CASE GotoDial("start")
    BY <2>2, DialGoes, SMT DEF ConnInv, ConnTypeOK, DialStep
  <2> QED  BY <1>16, <2>1, <2>2 DEF Attempt
<1>17. CASE ConnectBootNode
  BY <1>17, SMT DEF ConnInv, ConnTypeOK, RegistryOK, DialOK, DialStep, regVars, netVars, kadState, NoDial,
      ConnFault, ConnectBootNode
<1>18. CASE Connect
  <2>1. CASE dial' = NoDial
    BY <2>1, DialEnds
  <2>2. CASE GotoDial("add")
    BY <2>2, DialGoes, SMT DEF ConnInv, ConnTypeOK, DialStep
  <2>3. CASE \E c \in Conn : GotoHandshake(c)
    BY <2>3, DialTakes DEF ConnInv, ConnTypeOK
  <2> QED  BY <1>18, <2>1, <2>2, <2>3 DEF Connect, ConnectFails, ConnInv, ConnTypeOK, RegistryOK
<1>19. CASE BackoffOver
  BY <1>19, SMT DEF ConnInv, ConnTypeOK, RegistryOK, DialOK, DialStep, regVars, netVars, kadState, Breaker,
      BackoffOver
<1>20. CASE Handshake
  <2>1. CASE dial' = NoDial
    BY <2>1, DialEnds
  <2>2. CASE GotoDial("register")
    BY <1>20, <2>2, DialGoes, SMT DEF ConnInv, ConnTypeOK, DialStep, DialOK, Handshake
  <2> QED  BY <1>20, <2>1, <2>2 DEF Handshake, ConnectFails
<1>21. CASE DialRegister
  BY <1>21, SMT DEF ConnInv, ConnTypeOK, RegistryOK, DialOK, DialStep, netVars, kadState, AddIfNotExists,
      GotoDial, DialRegister
<1>22. CASE DialFullClose
  <2>1. CASE dial' = NoDial
    BY <2>1, DialEnds
  <2>2. CASE GotoDial("out") \/ GotoDial("announce")
    BY <2>2, DialGoes, SMT DEF ConnInv, ConnTypeOK, DialStep
  <2> QED  BY <1>22, <2>1, <2>2 DEF DialFullClose, ConnectFails
<1>23. CASE ConnectOut
  <2>1. CASE dial' = NoDial
    BY <2>1, DialEnds
  <2>2. CASE GotoDial("announce")
    BY <2>2, DialGoes, SMT DEF ConnInv, ConnTypeOK, DialStep
  <2> QED  BY <1>23, <2>1, <2>2 DEF ConnectOut, ConnectFails
<1>24. CASE AnnounceDialed
  <2>1. CASE dial' = NoDial
    BY <2>1, DialEnds
  <2>2. CASE GotoDial("add")
    BY <2>2, DialGoes, SMT DEF ConnInv, ConnTypeOK, DialStep
  <2> QED  BY <1>24, <2>1, <2>2 DEF AnnounceDialed
<1>25. CASE AddDialed
  BY <1>25, SMT DEF ConnInv, ConnTypeOK, RegistryOK, DialOK, DialStep, regVars, netVars, NoDial,
      KadConnected, AddDialed
<1>26. CASE PeersHandler
  BY <1>26, SMT DEF ConnInv, ConnTypeOK, RegistryOK, DialOK, DialStep, regVars, netVars, PeersHandler
<1>27. CASE WaitOver
  BY <1>27, SMT DEF ConnInv, ConnTypeOK, RegistryOK, DialOK, DialStep, regVars, netVars, WaitOver
<1>28. CASE ClosestPeer
  BY <1>28, SMT DEF ConnInv, ConnTypeOK, RegistryOK, DialOK, DialStep, regVars, netVars, ClosestPeer
<1>29. CASE DropAbsent
  BY <1>29, SMT DEF ConnInv, ConnTypeOK, RegistryOK, DialOK, DialStep, regVars, netVars, KadDisconnected,
      DropAbsent
<1> QED  BY <1>1, <1>2, <1>3, <1>4, <1>5, <1>6, <1>7, <1>8, <1>9, <1>10, <1>11, <1>12, <1>13,
      <1>14, <1>15, <1>16, <1>17, <1>18, <1>19, <1>20, <1>21, <1>22, <1>23, <1>24, <1>25, <1>26,
      <1>27, <1>28, <1>29 DEF ConnNext

\* Only connections that were made have a handler.
LEMMA NumberedKept ==
  ASSUME ConnInv, ConnNext PROVE Numbered'
<1>1. ASSUME NEW c \in Conn, RemoteDials(c) PROVE Numbered'
  <2>1. c \notin used /\ used' = used \cup {c} /\ \E k \in Nat : used' = 1..k
    BY <1>1, OpenNew DEF ConnInv, RemoteDials, Open
  <2> QED  BY <1>1, <2>1 DEF ConnInv, ConnTypeOK, RegistryOK, Numbered, RemoteDials
<1>2. ASSUME NEW c \in Conn, Lost(c) PROVE Numbered'
  BY <1>2, Zenon DEF ConnInv, ConnTypeOK, RegistryOK, Numbered, regVars, kadState, ConnFault, Callbacks,
      Lost
<1>3. ASSUME NEW c \in Conn, RegistryDisconnected(c) PROVE Numbered'
  BY <1>3, Zenon DEF ConnInv, ConnTypeOK, RegistryOK, Numbered, regVars, kadState, RegistryDisconnected
<1>4. ASSUME NEW c \in Conn, HandshakeDisconnected(c) PROVE Numbered'
  BY <1>4, Zenon DEF ConnInv, ConnTypeOK, RegistryOK, Numbered, regVars, kadState, HandshakeDisconnected
<1>5. ASSUME NEW c \in Conn, Handle(c) PROVE Numbered'
  BY <1>5, Zenon DEF ConnInv, ConnTypeOK, RegistryOK, Numbered, regVars, netVars, kadState, ConnFault,
      Callbacks, ClosePeer, At, Goto, Refuse, Broken, Handle
<1>6. ASSUME NEW c \in Conn, CheckBlocklist(c) PROVE Numbered'
  BY <1>6, Zenon DEF ConnInv, ConnTypeOK, RegistryOK, Numbered, regVars, netVars, kadState, ConnFault,
      Callbacks, ClosePeer, At, Goto, Refuse, CheckBlocklist
<1>7. ASSUME NEW c \in Conn, Register(c) PROVE Numbered'
  BY <1>7, Zenon DEF ConnInv, ConnTypeOK, RegistryOK, Numbered, netVars, kadState, AddIfNotExists, At, Goto,
      Register
<1>8. ASSUME NEW c \in Conn, FullClose(c) PROVE Numbered'
  <2>1. used' = used
    BY <1>8 DEF FullClose, Disconnect, ClosePeer, netVars
  <2>2. \A d \in Conn : hand'[d] # "none" => hand[d] # "none"
    BY <1>8 DEF ConnInv, ConnTypeOK, RegistryOK, FullClose, Goto
  <2> QED  BY <2>1, <2>2 DEF ConnInv, Numbered
<1>9. ASSUME NEW c \in Conn, ConnectIn(c) PROVE Numbered'
  BY <1>9, Zenon DEF ConnInv, ConnTypeOK, RegistryOK, Numbered, regVars, netVars, ConnFault, Callbacks,
      ClosePeer, Disconnect, At, Goto, ConnectIn
<1>10. ASSUME NEW c \in Conn, NotifyConnected(c) PROVE Numbered'
  BY <1>10, Zenon DEF ConnInv, ConnTypeOK, RegistryOK, Numbered, regVars, netVars, kadState, ConnFault,
      Callbacks, ClosePeer, Disconnect, At, Goto, Broken, KadConnected, NotifyConnected
<1>11. ASSUME NEW c \in Conn, CheckExists(c) PROVE Numbered'
  BY <1>11, Zenon DEF ConnInv, ConnTypeOK, RegistryOK, Numbered, regVars, netVars, kadState, Callbacks,
      ClosePeer, Disconnect, At, Goto, CheckExists
<1>12. CASE NotifyDisconnected
  BY <1>12, Zenon DEF ConnInv, ConnTypeOK, RegistryOK, Numbered, regVars, netVars, KadDisconnected,
      NotifyDisconnected
<1>13. CASE DisconnectPeer
  BY <1>13, Zenon DEF ConnInv, ConnTypeOK, RegistryOK, Numbered, netVars, kadState, ConnFault, Callbacks,
      ClosePeer, Disconnect, DisconnectPeer
<1>14. CASE Blocklist
  BY <1>14, Zenon DEF ConnInv, ConnTypeOK, RegistryOK, Numbered, netVars, kadState, ConnFault, Callbacks,
      ClosePeer, Disconnect, Blocklist
<1>15. CASE BlocklistExpires
  BY <1>15, Zenon DEF ConnInv, ConnTypeOK, RegistryOK, Numbered, regVars, netVars, kadState,
      BlocklistExpires
<1>16. CASE Attempt
  BY <1>16, Zenon DEF ConnInv, ConnTypeOK, RegistryOK, Numbered, regVars, netVars, NoDial, GotoDial, Attempt
<1>17. CASE ConnectBootNode
  BY <1>17, Zenon DEF ConnInv, ConnTypeOK, RegistryOK, Numbered, regVars, netVars, kadState, NoDial,
      ConnFault, ConnectBootNode
<1>18. CASE Connect
  <2>1. CASE used' = used
    BY <1>18, <2>1 DEF ConnInv, Numbered, Connect
  <2>2. ASSUME NEW c \in Conn, Open(c) PROVE Numbered'
    <3>1. used' = used \cup {c} /\ \E k \in Nat : used' = 1..k
      BY <2>2, OpenNew DEF ConnInv, Open
    <3> QED  BY <1>18, <3>1 DEF ConnInv, Numbered, Connect
  <2> QED  BY <1>18, <2>1, <2>2 DEF Connect, netVars
<1>19. CASE BackoffOver
  BY <1>19, Zenon DEF ConnInv, ConnTypeOK, RegistryOK, Numbered, regVars, netVars, kadState, Breaker,
      BackoffOver
<1>20. CASE Handshake
  BY <1>20, Zenon DEF ConnInv, ConnTypeOK, RegistryOK, Numbered, regVars, netVars, kadState, NoDial,
      ConnFault, Callbacks, ClosePeer, GotoDial, PrunePeer, ConnectFails, Handshake
<1>21. CASE DialRegister
  BY <1>21, Zenon DEF ConnInv, ConnTypeOK, RegistryOK, Numbered, netVars, kadState, AddIfNotExists,
      GotoDial, DialRegister
<1>22. CASE DialFullClose
  BY <1>22, Zenon DEF ConnInv, ConnTypeOK, RegistryOK, Numbered, regVars, netVars, kadState, NoDial,
      ConnFault, Callbacks, ClosePeer, Disconnect, Broken, GotoDial, PrunePeer, ConnectFails,
      DialFullClose
<1>23. CASE ConnectOut
  BY <1>23, Zenon DEF ConnInv, ConnTypeOK, RegistryOK, Numbered, regVars, netVars, kadState, NoDial,
      ConnFault, Callbacks, ClosePeer, Disconnect, GotoDial, PrunePeer, ConnectFails, ConnectOut
<1>24. CASE AnnounceDialed
  BY <1>24, Zenon DEF ConnInv, ConnTypeOK, RegistryOK, Numbered, regVars, netVars, kadState, NoDial,
      ConnFault, Callbacks, ClosePeer, Disconnect, Broken, GotoDial, AnnounceDialed
<1>25. CASE AddDialed
  BY <1>25, Zenon DEF ConnInv, ConnTypeOK, RegistryOK, Numbered, regVars, netVars, NoDial, KadConnected,
      AddDialed
<1>26. CASE PeersHandler
  BY <1>26, Zenon DEF ConnInv, ConnTypeOK, RegistryOK, Numbered, regVars, netVars, PeersHandler
<1>27. CASE WaitOver
  BY <1>27, Zenon DEF ConnInv, ConnTypeOK, RegistryOK, Numbered, regVars, netVars, WaitOver
<1>28. CASE ClosestPeer
  BY <1>28, Zenon DEF ConnInv, ConnTypeOK, RegistryOK, Numbered, regVars, netVars, ClosestPeer
<1>29. CASE DropAbsent
  BY <1>29, Zenon DEF ConnInv, ConnTypeOK, RegistryOK, Numbered, regVars, netVars, KadDisconnected,
      DropAbsent
<1> QED  BY <1>1, <1>2, <1>3, <1>4, <1>5, <1>6, <1>7, <1>8, <1>9, <1>10, <1>11, <1>12, <1>13,
      <1>14, <1>15, <1>16, <1>17, <1>18, <1>19, <1>20, <1>21, <1>22, <1>23, <1>24, <1>25, <1>26,
      <1>27, <1>28, <1>29 DEF ConnNext

\* No step loses sight of a peer that a handler left in kademlia.
LEMMA GhostKept ==
  ASSUME ConnInv, ConnNext PROVE GhostInv'
<1>1. ASSUME NEW c \in Conn, RemoteDials(c) PROVE GhostInv'
  <2>1. hand[c] = "none"
    BY <1>1, OpenNew DEF ConnInv, Numbered, RemoteDials
  <2>2. up' = up \cup {c} /\ hand' = [hand EXCEPT ![c] = "handle"]
    BY <1>1 DEF RemoteDials, Open
  <2>3. Noticed => Noticed'
    BY <1>1, <2>1, <2>2, SMT DEF ConnInv, ConnTypeOK, RegistryOK, Noticed, RemoteDials
  <2>4. \A d \in conns : Held(d)'
    <3> TAKE d \in conns
    <3>1. fallen' = fallen /\ dial' = dial
      BY <1>1 DEF RemoteDials
    <3>2. d \in Conn /\ Held(d)
      BY DEF ConnInv, ConnTypeOK, RegistryOK, GhostInv
    <3>3. hand'[d] = hand[d] \/ d \in up'
      BY <2>2, <3>2 DEF ConnInv, ConnTypeOK, RegistryOK
    <3> QED  BY <2>2, <3>1, <3>2, <3>3 DEF Held
  <2> QED  BY <1>1, <2>3, <2>4 DEF ConnInv, GhostInv, RemoteDials, regVars, kadState
<1>2. ASSUME NEW c \in Conn, Lost(c) PROVE GhostInv'
  BY <1>2, SMT DEF ConnInv, ConnTypeOK, RegistryOK, DialOK, DialStep, HandStep, GhostInv, Held, Noticed,
      regVars, kadState, ConnFault, Callbacks, Lost
<1>3. ASSUME NEW c \in Conn, RegistryDisconnected(c) PROVE GhostInv'
  BY <1>3, SMT DEF ConnInv, ConnTypeOK, RegistryOK, DialOK, DialStep, HandStep, GhostInv, Held, Noticed,
      regVars, kadState, RegistryDisconnected
<1>4. ASSUME NEW c \in Conn, HandshakeDisconnected(c) PROVE GhostInv'
  BY <1>4, SMT DEF ConnInv, ConnTypeOK, RegistryOK, DialOK, DialStep, HandStep, GhostInv, Held, Noticed,
      regVars, kadState, HandshakeDisconnected
<1>5. ASSUME NEW c \in Conn, Handle(c) PROVE GhostInv'
  BY <1>5, SMT DEF ConnInv, ConnTypeOK, RegistryOK, DialOK, DialStep, HandStep, GhostInv, Held, Noticed,
      regVars, netVars, kadState, ConnFault, Callbacks, ClosePeer, At, Goto, Refuse, Broken,
      Handle
<1>6. ASSUME NEW c \in Conn, CheckBlocklist(c) PROVE GhostInv'
  BY <1>6, SMT DEF ConnInv, ConnTypeOK, RegistryOK, DialOK, DialStep, HandStep, GhostInv, Held, Noticed,
      regVars, netVars, kadState, ConnFault, Callbacks, ClosePeer, At, Goto, Refuse,
      CheckBlocklist
<1>7. ASSUME NEW c \in Conn, Register(c) PROVE GhostInv'
  BY <1>7, SMT DEF ConnInv, ConnTypeOK, RegistryOK, DialOK, DialStep, HandStep, GhostInv, Held, Noticed,
      netVars, kadState, AddIfNotExists, At, Goto, Register
<1>8. ASSUME NEW c \in Conn, FullClose(c) PROVE GhostInv'
  BY <1>8, SMT DEF ConnInv, ConnTypeOK, RegistryOK, DialOK, DialStep, HandStep, GhostInv, Held, Noticed,
      regVars, netVars, kadState, ConnFault, Callbacks, ClosePeer, Disconnect, At, Goto, Broken,
      FullClose
<1>9. ASSUME NEW c \in Conn, ConnectIn(c) PROVE GhostInv'
  BY <1>9, SMT DEF ConnInv, ConnTypeOK, RegistryOK, DialOK, DialStep, HandStep, GhostInv, Held, Noticed,
      regVars, netVars, ConnFault, Callbacks, ClosePeer, Disconnect, At, Goto, ConnectIn
<1>10. ASSUME NEW c \in Conn, NotifyConnected(c) PROVE GhostInv'
  BY <1>10, SMT DEF ConnInv, ConnTypeOK, RegistryOK, DialOK, DialStep, HandStep, GhostInv, Held, Noticed,
      regVars, netVars, kadState, ConnFault, Callbacks, ClosePeer, Disconnect, At, Goto, Broken,
      KadConnected, NotifyConnected
<1>11. ASSUME NEW c \in Conn, CheckExists(c) PROVE GhostInv'
  BY <1>11, SMT DEF ConnInv, ConnTypeOK, RegistryOK, DialOK, DialStep, HandStep, GhostInv, Held, Noticed,
      regVars, netVars, kadState, Callbacks, ClosePeer, Disconnect, At, Goto, CheckExists
<1>12. CASE NotifyDisconnected
  BY <1>12, SMT DEF ConnInv, ConnTypeOK, RegistryOK, DialOK, DialStep, HandStep, GhostInv, Held, Noticed,
      regVars, netVars, KadDisconnected, NotifyDisconnected
<1>13. CASE DisconnectPeer
  BY <1>13, SMT DEF ConnInv, ConnTypeOK, RegistryOK, DialOK, DialStep, HandStep, GhostInv, Held, Noticed,
      netVars, kadState, ConnFault, Callbacks, ClosePeer, Disconnect, DisconnectPeer
<1>14. CASE Blocklist
  BY <1>14, SMT DEF ConnInv, ConnTypeOK, RegistryOK, DialOK, DialStep, HandStep, GhostInv, Held, Noticed,
      netVars, kadState, ConnFault, Callbacks, ClosePeer, Disconnect, Blocklist
<1>15. CASE BlocklistExpires
  BY <1>15, SMT DEF ConnInv, ConnTypeOK, RegistryOK, DialOK, DialStep, HandStep, GhostInv, Held, Noticed,
      regVars, netVars, kadState, BlocklistExpires
<1>16. CASE Attempt
  BY <1>16, SMT DEF ConnInv, ConnTypeOK, RegistryOK, DialOK, DialStep, HandStep, GhostInv, Held, Noticed,
      regVars, netVars, NoDial, GotoDial, Attempt
<1>17. CASE ConnectBootNode
  BY <1>17, SMT DEF ConnInv, ConnTypeOK, RegistryOK, DialOK, DialStep, HandStep, GhostInv, Held, Noticed,
      regVars, netVars, kadState, NoDial, ConnFault, ConnectBootNode
<1>18. CASE Connect
  BY <1>18, SMT DEF ConnInv, ConnTypeOK, RegistryOK, DialOK, DialStep, HandStep, GhostInv, Held, Noticed,
      regVars, netVars, kadState, NoDial, ConnFault, Open, IsConnected, GotoDial, GotoHandshake,
      PrunePeer, ConnectFails, Breaker, Connect
<1>19. CASE BackoffOver
  BY <1>19, SMT DEF ConnInv, ConnTypeOK, RegistryOK, DialOK, DialStep, HandStep, GhostInv, Held, Noticed,
      regVars, netVars, kadState, Breaker, BackoffOver
<1>20. CASE Handshake
  BY <1>20, SMT DEF ConnInv, ConnTypeOK, RegistryOK, DialOK, DialStep, HandStep, GhostInv, Held, Noticed,
      regVars, netVars, kadState, NoDial, ConnFault, Callbacks, ClosePeer, GotoDial, PrunePeer,
      ConnectFails, Handshake
<1>21. CASE DialRegister
  BY <1>21, SMT DEF ConnInv, ConnTypeOK, RegistryOK, DialOK, DialStep, HandStep, GhostInv, Held, Noticed,
      netVars, kadState, AddIfNotExists, GotoDial, DialRegister
<1>22. CASE DialFullClose
  BY <1>22, SMT DEF ConnInv, ConnTypeOK, RegistryOK, DialOK, DialStep, HandStep, GhostInv, Held, Noticed,
      regVars, netVars, kadState, NoDial, ConnFault, Callbacks, ClosePeer, Disconnect, Broken,
      GotoDial, PrunePeer, ConnectFails, DialFullClose
<1>23. CASE ConnectOut
  BY <1>23, SMT DEF ConnInv, ConnTypeOK, RegistryOK, DialOK, DialStep, HandStep, GhostInv, Held, Noticed,
      regVars, netVars, kadState, NoDial, ConnFault, Callbacks, ClosePeer, Disconnect, GotoDial,
      PrunePeer, ConnectFails, ConnectOut
<1>24. CASE AnnounceDialed
  BY <1>24, SMT DEF ConnInv, ConnTypeOK, RegistryOK, DialOK, DialStep, HandStep, GhostInv, Held, Noticed,
      regVars, netVars, kadState, NoDial, ConnFault, Callbacks, ClosePeer, Disconnect, Broken,
      GotoDial, AnnounceDialed
<1>25. CASE AddDialed
  BY <1>25, SMT DEF ConnInv, ConnTypeOK, RegistryOK, DialOK, DialStep, HandStep, GhostInv, Held, Noticed,
      regVars, netVars, NoDial, KadConnected, AddDialed
<1>26. CASE PeersHandler
  BY <1>26, SMT DEF ConnInv, ConnTypeOK, RegistryOK, DialOK, DialStep, HandStep, GhostInv, Held, Noticed,
      regVars, netVars, PeersHandler
<1>27. CASE WaitOver
  BY <1>27, SMT DEF ConnInv, ConnTypeOK, RegistryOK, DialOK, DialStep, HandStep, GhostInv, Held, Noticed,
      regVars, netVars, WaitOver
<1>28. CASE ClosestPeer
  BY <1>28, SMT DEF ConnInv, ConnTypeOK, RegistryOK, DialOK, DialStep, HandStep, GhostInv, Held, Noticed,
      regVars, netVars, ClosestPeer
<1>29. CASE DropAbsent
  BY <1>29, SMT DEF ConnInv, ConnTypeOK, RegistryOK, DialOK, DialStep, HandStep, GhostInv, Held, Noticed,
      regVars, netVars, KadDisconnected, DropAbsent
<1> QED  BY <1>1, <1>2, <1>3, <1>4, <1>5, <1>6, <1>7, <1>8, <1>9, <1>10, <1>11, <1>12, <1>13,
      <1>14, <1>15, <1>16, <1>17, <1>18, <1>19, <1>20, <1>21, <1>22, <1>23, <1>24, <1>25, <1>26,
      <1>27, <1>28, <1>29 DEF ConnNext

\* handleIncoming, Connected and the notifee: for any number of connections, failed
\* steps and late callbacks, when no handler or callback is left, a peer in the
\* registry has an open connection and a peer in kademlia that is not in the
\* registry was put there by the manage loop's own dial.
THEOREM NoInboundGhosts == ConnSpec => []InboundLeavesNoGhost
<1>1. ConnInv /\ [ConnNext]_connVars => ConnInv'
  <2> SUFFICES ASSUME ConnInv, [ConnNext]_connVars PROVE ConnInv'
    OBVIOUS
  <2>1. CASE ConnNext
    BY <2>1, LateKept, RegistryKept, DialKept, NumberedKept, GhostKept DEF ConnInv, ConnTypeOK
  <2>2. CASE UNCHANGED connVars
    BY <2>2 DEF connVars, netVars, regVars, kadState, ConnInv, ConnTypeOK, RegistryOK, DialOK,
      Numbered, GhostInv, Held, Noticed
  <2> QED  BY <2>1, <2>2
<1>2. ConnInv => InboundLeavesNoGhost
  <2> SUFFICES ASSUME ConnInv, Quiet PROVE InboundLeavesNoGhost
    BY DEF InboundLeavesNoGhost
  <2>1. late = 0 /\ (\A c \in Conn : hand[c] = "none") /\ fallen = {} /\ dial.at = "idle"
    BY DEF Quiet, NoDial
  <2>2. ~Noticed
    BY <2>1, SMT DEF Noticed
  <2>3. conns \subseteq Conn /\ \A c \in conns : Held(c)
    BY DEF ConnInv, ConnTypeOK, RegistryOK, GhostInv
  <2>4. conns \subseteq up
    BY <2>1, <2>3 DEF Held
  <2> QED  BY <2>2, <2>4 DEF ConnInv, GhostInv, InboundLeavesNoGhost
<1> QED  BY <1>1, <1>2, ConnStart, PTL DEF ConnSpec

-----------------------------------------------------------------------------
(* Push sync.                                                              *)

Call == [st : {"idle", "run", "wait", "done", "failed", "self"}, tries : Int,
         skip : SUBSET Nodes, peer : Nodes \cup {Me}, signer : Nodes \cup {Me}]

\* A call waits for a full node that is no farther from the chunk than itself.
Downwards(x) ==
  /\ reqs[x].peer \in Nodes \ {x[1]} /\ Full(reqs[x].peer)
  /\ Full(x[1]) => reqs[x].peer <= x[1]

\* A receipt was signed by a node that has the chunk and is no farther from it.
Sound(x) ==
  /\ reqs[x].signer \in has /\ reqs[x].signer \in Nodes
  /\ Full(x[1]) => reqs[x].signer <= x[1]

PushInv ==
  /\ reqs \in [Pair -> Call]
  /\ receipts \subseteq has
  /\ \A x \in Pair : /\ reqs[x].st = "wait" => Downwards(x)
                     /\ reqs[x].st = "done" => Sound(x)

-----------------------------------------------------------------------------
\* A nonempty set of natural numbers has a least one.
LEMMA LeastExists ==
  ASSUME NEW S, S \subseteq Nat, S # {}
  PROVE  \E x \in S : \A y \in S : x <= y
<1> DEFINE less == {q \in Nat \X Nat : q[1] < q[2]}
<1>1. IsWellFoundedOn(less, Nat)
  BY NatLessThanWellFounded, Zenon DEF OpToRel
<1>2. PICK x \in S : \A y \in S : ~ (<<y, x>> \in less)
  BY <1>1, WFMin, Zenon
<1>3. \A y \in S : ~ (y < x)
  <2> TAKE y \in S
  <2> DEFINE q == <<y, x>>
  <2>1. q \in Nat \X Nat /\ q[1] = y /\ q[2] = x
    BY SMT
  <2> HIDE DEF q
  <2>2. q[1] < q[2] => q \in less
    BY <2>1
  <2> QED
    BY <1>2, <2>1, <2>2 DEF q
<1>4. \A y \in S : x <= y
  BY <1>3, SMT
<1> QED
  BY <1>4, Zenon

\* A call is from a node to another one or to itself.
LEMMA PairParts ==
  ASSUME NEW x \in Pair
  PROVE  /\ x = <<x[1], x[2]>> /\ x[1] \in Nodes /\ x[2] \in Nodes \cup {Me}
         /\ x[1] # x[2]
<1>1. x \in Nodes \X (Nodes \cup {Me}) /\ x[1] # x[2]
  BY DEF Pair
<1> QED  BY <1>1, SMT

\* The values a call is set to.
LEMMA CallTypes ==
  /\ Idle \in Call /\ Failed \in Call /\ \A n \in Nodes : Signed(n) \in Call
  /\ \A k \in Int : Running(k) \in Call
<1>1. 0 \in Int
  BY SMT
<1> QED  BY <1>1 DEF Idle, Failed, Signed, Running, Call, Me

LEMMA CallFields ==
  /\ Idle.st = "idle" /\ Failed.st = "failed"
  /\ \A n : Signed(n).st = "done" /\ Signed(n).signer = n
  /\ \A k : Running(k).st = "run"
  BY DEF Idle, Failed, Signed, Running

\* A step that changes calls only as follows keeps the invariant.
LEMMA CallsKept ==
  ASSUME PushInv, has \subseteq has', receipts' \subseteq has', reqs' \in [Pair -> Call],
         \A y \in Pair : \/ reqs'[y] = reqs[y]
                         \/ reqs'[y].st \notin {"wait", "done"}
                         \/ reqs'[y].st = "done" /\ Sound(y)'
                         \/ reqs'[y].st = "wait" /\ Downwards(y)'
  PROVE  PushInv'
<1> SUFFICES ASSUME NEW y \in Pair
             PROVE  /\ reqs'[y].st = "wait" => Downwards(y)'
                    /\ reqs'[y].st = "done" => Sound(y)'
  BY DEF PushInv
<1>1. CASE reqs'[y] = reqs[y]
  BY <1>1 DEF PushInv, Downwards, Sound
<1> QED  BY <1>1

LEMMA PushStart == PushInit => PushInv
  BY CallTypes, CallFields DEF PushInit, PushInv

LEMMA PushChunkKeeps == ASSUME PushInv, PushChunkToClosest PROVE PushInv'
<1> DEFINE x == <<Origin, Me>>
<1>1. x \in Pair
  BY PushSyncAssumption DEF Pair, Me
<1>2. Running(MaxPeers) \in Call /\ Running(MaxPeers).st = "run"
  BY PushSyncAssumption, CallTypes, CallFields, SMT
<1>3. reqs' = [reqs EXCEPT ![x] = Running(MaxPeers)] /\ UNCHANGED <<has, receipts>>
  BY DEF PushChunkToClosest
<1> HIDE DEF x
<1> QED  BY <1>1, <1>2, <1>3, CallsKept DEF PushInv

\* The peer a call goes to next is the closest one connected that it does not skip.
LEMMA NextPeer ==
  ASSUME NEW x \in Pair, HasNext(x)
  PROVE  LET p == Min(Candidates(x)) IN
         /\ p \in Nodes \ {x[1]} /\ Full(p) /\ <<p, x[1]>> \in Pair
         /\ Full(x[1]) => p <= x[1]
<1> DEFINE p == Min(Candidates(x))
<1>1. x[1] \in Nodes
  BY PairParts
<1>2. \A q \in Candidates(x) : q \in Nodes \ {x[1]} /\ Full(q)
  <2>1. \A q \in PeersOf(x[1]) : q \in Nodes \ {x[1]} /\ Full(q)
    BY <1>1, PushSyncAssumption DEF PeersOf
  <2>2. ~Full(x[1]) => x[1] = Origin
    BY DEF Full
  <2> QED  BY <2>1, <2>2, PushSyncAssumption DEF Candidates
<1>3. Candidates(x) \subseteq Nat /\ Candidates(x) # {}
  BY <1>2, PushSyncAssumption DEF HasNext
<1>4. p \in Candidates(x) /\ \A q \in Candidates(x) : p <= q
  BY <1>3, LeastExists DEF Min
<1>5. Full(x[1]) => \E q \in Candidates(x) : ~(x[1] < q)
  BY DEF HasNext, WantSelf
<1>6. Full(x[1]) => p <= x[1]
  <2> SUFFICES ASSUME Full(x[1]) PROVE p <= x[1]
    OBVIOUS
  <2>1. PICK q \in Candidates(x) : ~(x[1] < q)
    BY <1>5
  <2>2. x[1] \in Nat /\ p \in Nat /\ q \in Nat /\ p <= q
    BY <1>1, <1>3, <1>4, PushSyncAssumption
  <2> HIDE DEF p
  <2> QED  BY <2>1, <2>2, SMT
<1>7. <<p, x[1]>> \in Pair
  BY <1>1, <1>2, <1>4 DEF Pair
<1> QED  BY <1>2, <1>4, <1>6, <1>7

LEMMA SkipKeeps == ASSUME PushInv, NEW x \in Pair, SkipPeer(x) PROVE PushInv'
<1> DEFINE p == Min(Candidates(x))
           r == [reqs[x] EXCEPT !.skip = @ \cup {p}]
<1>1. p \in Nodes
  BY NextPeer DEF SkipPeer
<1>2. reqs' = [reqs EXCEPT ![x] = r] /\ UNCHANGED <<has, receipts>>
  BY DEF SkipPeer
<1>3. reqs[x] \in Call
  BY DEF PushInv
<1>4. reqs[x].skip \in SUBSET Nodes
  BY <1>3 DEF Call
<1>5. r \in Call /\ r.st = reqs[x].st /\ r.peer = reqs[x].peer /\ r.signer = reqs[x].signer
  BY <1>1, <1>3, <1>4 DEF Call
<1> HIDE DEF p, r
<1>6. reqs' \in [Pair -> Call] /\ reqs'[x] = r /\ \A y \in Pair \ {x} : reqs'[y] = reqs[y]
  BY <1>2, <1>5 DEF PushInv
<1>7. /\ reqs'[x].st = "wait" => Downwards(x)'
      /\ reqs'[x].st = "done" => Sound(x)'
  BY <1>2, <1>5, <1>6 DEF PushInv, Downwards, Sound
<1> QED  BY <1>2, <1>6, <1>7, CallsKept DEF PushInv

LEMMA PushPeerKeeps == ASSUME PushInv, NEW x \in Pair, PushPeer(x) PROVE PushInv'
<1>1. PICK p : p = Min(Candidates(x))
  OBVIOUS
<1> DEFINE d == <<p, x[1]>>
<1>2. /\ p \in Nodes \ {x[1]} /\ Full(p) /\ d \in Pair
      /\ Full(x[1]) => p <= x[1]
  BY <1>1, NextPeer DEF PushPeer
<1>3. PICK h \in Handler(p, x[1]) :
        /\ has' = IF h.stores THEN has \cup {p} ELSE has
        /\ reqs' = [reqs EXCEPT ![d] = h.req, ![x] = Sent(x, p)]
  BY <1>1 DEF PushPeer
<1>4. /\ h.req \in Call /\ h.req.st # "wait"
      /\ h.req.st = "done" => h.req.signer = p /\ h.stores
  <2>1. CASE Full(x[1]) /\ x[1] < p
    <3>1. h = [req |-> IF WithinDepth(p) THEN Signed(p) ELSE Failed, stores |-> WithinDepth(p)]
      BY <2>1 DEF Handler
    <3>2. h.stores = WithinDepth(p) /\ h.req = IF WithinDepth(p) THEN Signed(p) ELSE Failed
      BY <3>1
    <3> QED  BY <1>2, <3>2, CallTypes, CallFields
  <2>2. CASE ~(Full(x[1]) /\ x[1] < p)
    <3>1. 1 \in Int
      BY SMT
    <3>2. PICK s : h = [req |-> Running(1), stores |-> s]
      BY <2>2 DEF Handler
    <3>3. h.req = Running(1)
      BY <3>2
    <3> QED  BY <3>1, <3>3, CallTypes, CallFields
  <2> QED  BY <2>1, <2>2
<1>5. /\ Sent(x, p) \in Call /\ Sent(x, p).st = "wait" /\ Sent(x, p).peer = p
  <2>1. reqs[x] \in Call
    BY DEF PushInv
  <2>2. reqs[x].skip \in SUBSET Nodes /\ reqs[x].tries \in Int
    BY <2>1 DEF Call
  <2>3. reqs[x].tries - 1 \in Int
    BY <2>2, SMT
  <2> QED  BY <1>2, <2>1, <2>2, <2>3 DEF Sent, Call
<1>6. d[1] = p /\ d # x /\ p \in Nat
  BY <1>2, PairParts, PushSyncAssumption
<1>7. UNCHANGED receipts
  BY DEF PushPeer
<1> HIDE DEF d
<1>8. /\ reqs' \in [Pair -> Call] /\ reqs'[x] = Sent(x, p) /\ reqs'[d] = h.req
      /\ \A y \in Pair \ {x, d} : reqs'[y] = reqs[y]
  BY <1>2, <1>3, <1>4, <1>5, <1>6 DEF PushInv
<1>9. Downwards(x)'
  BY <1>2, <1>5, <1>8 DEF Downwards
<1>10. p <= p
  BY <1>6, SMT
<1>11. reqs'[d].st = "done" => Sound(d)'
  BY <1>2, <1>3, <1>4, <1>6, <1>8, <1>10 DEF Sound
<1> QED  BY <1>3, <1>4, <1>5, <1>7, <1>8, <1>9, <1>11, CallsKept DEF PushInv

\* A call that ends without waiting or with a sound receipt.
LEMMA CallEnds ==
  ASSUME PushInv, NEW x \in Pair, NEW r \in Call, reqs' = [reqs EXCEPT ![x] = r],
         r.st # "wait", r.st = "done" => r.signer = x[1] /\ x[1] \in has',
         has \subseteq has', UNCHANGED receipts
  PROVE  PushInv'
<1>1. reqs' \in [Pair -> Call] /\ reqs'[x] = r /\ \A y \in Pair \ {x} : reqs'[y] = reqs[y]
  BY DEF PushInv
<1>2. x[1] \in Nodes /\ x[1] <= x[1]
  BY PairParts, PushSyncAssumption, SMT
<1>3. r.st = "done" => Sound(x)'
  BY <1>1, <1>2 DEF Sound
<1> QED  BY <1>1, <1>3, CallsKept DEF PushInv

LEMMA ClosestIsSelfKeeps == ASSUME PushInv, NEW x \in Pair, ClosestIsSelf(x) PROVE PushInv'
<1> DEFINE self == [Idle EXCEPT !.st = "self"]
<1>1. self \in Call /\ self.st = "self"
  BY CallTypes DEF Call
<1>2. x[1] \in Nodes /\ UNCHANGED receipts
  BY PairParts DEF ClosestIsSelf
<1>3. CASE UNCHANGED has /\ reqs' = [reqs EXCEPT ![x] = self]
  BY <1>1, <1>2, <1>3, CallEnds
<1>4. CASE StoreAndSign(x)
  BY <1>2, <1>4, CallTypes, CallFields, CallEnds DEF StoreAndSign
<1>5. CASE UNCHANGED has /\ reqs' = [reqs EXCEPT ![x] = Failed]
  BY <1>2, <1>5, CallTypes, CallFields, CallEnds
<1> QED  BY <1>3, <1>4, <1>5 DEF ClosestIsSelf

\* The call a waiting call waits for.
LEMMA DownPair ==
  ASSUME NEW x \in Pair, Downwards(x)
  PROVE  Down(x) \in Pair /\ Down(x) # x /\ Down(x)[1] = reqs[x].peer
<1>1. x = <<x[1], x[2]>> /\ x[1] \in Nodes
  BY PairParts
<1>2. reqs[x].peer \in Nodes /\ reqs[x].peer # x[1]
  BY DEF Downwards
<1>3. <<reqs[x].peer, x[1]>> \in Pair
  BY <1>1, <1>2 DEF Pair
<1>4. <<reqs[x].peer, x[1]>>[1] = reqs[x].peer
  BY SMT
<1> QED  BY <1>2, <1>3, <1>4 DEF Down

LEMMA ReceiveKeeps == ASSUME PushInv, NEW x \in Pair, Receive(x) PROVE PushInv'
<1>1. PICK d : d = Down(x)
  OBVIOUS
<1>2. PICK s : s = reqs[d].signer
  OBVIOUS
<1>3. Downwards(x) /\ reqs[d].st = "done"
  BY <1>1 DEF Receive, PushInv
<1>4. x[1] \in Nodes /\ reqs[x].peer \in Nodes
  BY <1>3, PairParts DEF Downwards
<1>5. d \in Pair /\ d # x /\ d[1] = reqs[x].peer
  BY <1>1, <1>3, DownPair
<1>6. Sound(d)
  BY <1>3, <1>5 DEF PushInv
<1>7. s \in has /\ s \in Nodes /\ (Full(x[1]) => s <= x[1])
  <2>1. s \in has /\ s \in Nodes /\ s <= reqs[x].peer
    BY <1>2, <1>3, <1>5, <1>6 DEF Sound, Downwards
  <2>2. s \in Nat /\ reqs[x].peer \in Nat /\ x[1] \in Nat
    BY <1>4, <2>1, PushSyncAssumption
  <2>3. Full(x[1]) => s <= x[1]
    <3> SUFFICES ASSUME Full(x[1]) PROVE s <= x[1]
      OBVIOUS
    <3>1. reqs[x].peer <= x[1]
      BY <1>3 DEF Downwards
    <3> QED  BY <2>1, <2>2, <3>1, SMT
  <2> QED  BY <2>1, <2>3
<1>8. reqs' = [reqs EXCEPT ![x] = Signed(s), ![d] = Idle]
  BY <1>1, <1>2 DEF Receive
<1>9. UNCHANGED has /\ receipts' \subseteq receipts \cup {s}
  BY <1>1, <1>2 DEF Receive
<1>10. /\ reqs' \in [Pair -> Call] /\ reqs'[x] = Signed(s) /\ reqs'[d] = Idle
       /\ \A y \in Pair \ {x, d} : reqs'[y] = reqs[y]
  BY <1>5, <1>7, <1>8, CallTypes DEF PushInv
<1>11. reqs'[x].st = "done" /\ Sound(x)'
  BY <1>7, <1>9, <1>10, CallFields DEF Sound
<1>12. receipts' \subseteq has'
  BY <1>7, <1>9 DEF PushInv
<1> QED  BY <1>9, <1>10, <1>11, <1>12, CallFields, CallsKept

LEMMA RetryKeeps == ASSUME PushInv, NEW x \in Pair, Retry(x) PROVE PushInv'
<1>1. PICK d : d = Down(x)
  OBVIOUS
<1> DEFINE r == [reqs[x] EXCEPT !.st = "run"]
<1>2. Downwards(x)
  BY DEF Retry, PushInv
<1>3. d \in Pair /\ d # x
  BY <1>1, <1>2, DownPair
<1>4. reqs[x] \in Call
  BY DEF PushInv
<1>5. r \in Call /\ r.st = "run"
  BY <1>4 DEF Call
<1>6. UNCHANGED <<has, receipts>>
  BY DEF Retry
<1>7. \/ reqs' = [reqs EXCEPT ![x] = r, ![d] = Idle]
      \/ reqs' = [reqs EXCEPT ![x] = r]
  BY <1>1 DEF Retry
<1> HIDE DEF r
<1>8. /\ reqs' \in [Pair -> Call] /\ reqs'[x] = r /\ reqs'[d] \in {reqs[d], Idle}
      /\ \A y \in Pair \ {x, d} : reqs'[y] = reqs[y]
  BY <1>3, <1>5, <1>7, CallTypes DEF PushInv
<1> QED  BY <1>5, <1>6, <1>8, CallFields, CallsKept DEF PushInv

LEMMA GiveUpKeeps == ASSUME PushInv, NEW x \in Pair, GiveUp(x) PROVE PushInv'
  BY CallTypes, CallFields, CallEnds DEF GiveUp

\* A step that leaves the calls and the receipts alone.
LEMMA CallsUnchanged ==
  ASSUME PushInv, UNCHANGED <<reqs, receipts>>, has \subseteq has' PROVE PushInv'
  BY CallsKept DEF PushInv

\* pushToClosest and handler: in any network of nodes, whatever calls fail, are
\* retried or are given up, a receipt that the origin got was signed by a node
\* that has the chunk.
THEOREM ReceiptsAreBacked == PushSpec => []ReceiptMeansStored
<1>1. PushInv /\ [PushNext]_pushVars => PushInv'
  <2> SUFFICES ASSUME PushInv, [PushNext]_pushVars PROVE PushInv'
    OBVIOUS
  <2>1. CASE PushChunkToClosest
    BY <2>1, PushChunkKeeps
  <2>2. ASSUME NEW x \in Pair,
               SkipPeer(x) \/ PushPeer(x) \/ ClosestIsSelf(x) \/ Receive(x) \/ Retry(x) \/ GiveUp(x)
        PROVE  PushInv'
    BY <2>2, SkipKeeps, PushPeerKeeps, ClosestIsSelfKeeps, ReceiveKeeps, RetryKeeps, GiveUpKeeps
  <2>3. ASSUME NEW r \in repl, PushToNeighbour(r) PROVE PushInv'
    BY <2>3, CallsUnchanged DEF PushToNeighbour
  <2>4. ASSUME NEW n \in Nodes, PruneExpired(n) PROVE PushInv'
    BY <2>4, CallsUnchanged DEF PruneExpired
  <2>5. CASE UNCHANGED pushVars
    BY <2>5, CallsUnchanged DEF pushVars
  <2> QED  BY <2>1, <2>2, <2>3, <2>4, <2>5 DEF PushNext
<1>2. PushInv => ReceiptMeansStored
  BY DEF PushInv, Sound, ReceiptMeansStored
<1> QED  BY <1>1, <1>2, PushStart, PTL DEF PushSpec

-----------------------------------------------------------------------------
(* Kademlia.                                                               *)

\* The result of a calculation whose reads all see the same peers.
DepthOf(peers, r) ==
  IF Few(peers) THEN 0
  ELSE Depth(ShallowestEmpty(peers), ShallowestUnsaturated(peers), Candidate(peers), r)

Task == {"in", "dial", "out"} \X Peers
Reads == {"length", "empty", "unsaturated", "candidate"}

KadTypeOK ==
  /\ connected \subseteq Peers /\ radius \in Nat
  /\ announcing \subseteq {"in", "dial"} \X Peers /\ dirty \subseteq Task
  /\ announcing \cap dirty = {}

\* A calculation is a handler's or SetRadius's, and has the radius of now.
Calculating ==
  \/ calc = Free
  \/ /\ calc = [by |-> calc.by, at |-> calc.at, radius |-> radius,
                empty |-> calc.empty, unsaturated |-> calc.unsaturated]
     /\ calc.at \in Reads
     /\ calc.by \in dirty \cup {<<"radius", 0>>}

\* Unless a handler waits for depthMu, the peers are those the calculation has read,
\* and the depth is that of the peers.
UpToDate ==
  /\ calc # Free /\ dirty \subseteq {calc.by} =>
       /\ calc.at # "length" => ~Few(connected)
       /\ calc.at \in {"unsaturated", "candidate"} => calc.empty = ShallowestEmpty(connected)
       /\ calc.at = "candidate" => calc.unsaturated = ShallowestUnsaturated(connected)
  /\ calc = Free /\ dirty = {} => depth = DepthOf(connected, radius)

KadInv == KadTypeOK /\ Calculating /\ UpToDate

-----------------------------------------------------------------------------
\* Min and Max of sets of natural numbers.
LEMMA MinIsLeast ==
  ASSUME NEW S, S \subseteq Nat, S # {}
  PROVE  Min(S) \in S /\ \A y \in S : Min(S) <= y
BY LeastExists DEF Min

LEMMA MaxIsGreatest ==
  ASSUME NEW N \in Nat, NEW S, S \subseteq 0 .. N, S # {}
  PROVE  Max(S) \in S /\ \A y \in S : Max(S) >= y
<1> DEFINE T == {t \in Nat : N - t \in S}
<1>1. \A x \in S : N - x \in T
  <2> TAKE x \in S
  <2>1. x \in 0 .. N
    OBVIOUS
  <2>2. N - x \in Nat /\ N - (N - x) = x
    BY <2>1, SMT
  <2> QED  BY <2>2
<1>2. T \subseteq Nat /\ T # {}
  BY <1>1
<1> HIDE DEF T
<1>3. PICK t \in T : \A u \in T : t <= u
  BY <1>2, LeastExists
<1>4. t \in Nat /\ N - t \in S
  BY <1>3 DEF T
<1>5. \A y \in S : N - t >= y
  <2> TAKE y \in S
  <2>1. t <= N - y /\ y \in 0 .. N
    BY <1>1, <1>3
  <2> QED  BY <1>4, <2>1, SMT
<1> QED  BY <1>4, <1>5 DEF Max

LEMMA MaxIs ==
  ASSUME NEW N \in Nat, NEW S, S \subseteq 0 .. N, NEW x \in S, \A y \in S : y <= x
  PROVE  x = Max(S)
<1>1. Max(S) \in S /\ Max(S) >= x
  BY MaxIsGreatest
<1>2. Max(S) <= x
  BY <1>1
<1>3. x \in 0 .. N /\ Max(S) \in 0 .. N
  BY <1>1
<1> QED  BY <1>1, <1>2, <1>3, SMT

-----------------------------------------------------------------------------
\* Every peer has a bin.
LEMMA PoInBin == \A p \in Peers : Po(p) \in Bin
<1> SUFFICES ASSUME NEW p \in Peers PROVE Po(p) \in Bin
  OBVIOUS
<1>1. p \in Addr /\ Base \in Addr
  BY KademliaAssumption DEF Addr, Base
<1>2. Proximity(Base, p) = Cardinality(CommonBits(Base, p))
  BY <1>1 DEF Proximity, Proximities
<1>3. CommonBits(Base, p) \subseteq Bin
  BY DEF CommonBits
<1>4. IsFiniteSet(Bin)
  <2>1. Bits - 1 \in Int /\ 0 \in Int
    BY KademliaAssumption, SMT
  <2> QED  BY <2>1, FS_Interval DEF Bin
<1>5. Proximity(Base, p) \in Nat
  BY <1>2, <1>3, <1>4, FS_Subset, FS_CardinalityType
<1>6. Po(p) = IF Proximity(Base, p) >= Bits THEN Bits - 1 ELSE Proximity(Base, p)
  BY <1>1 DEF Po, Pos
<1>7. Bits \in Nat \ {0}
  BY KademliaAssumption
<1> QED  BY <1>5, <1>6, <1>7, SMT DEF Bin

\* Peers can be counted, and a part of them is not more than all.
LEMMA Counts ==
  ASSUME NEW S, S \subseteq Peers
  PROVE  IsFiniteSet(S) /\ Cardinality(S) \in Nat
BY KademliaAssumption, FS_Subset, FS_CardinalityType

LEMMA MoreDeep ==
  ASSUME NEW S, S \subseteq Peers, NEW T, T \subseteq S
  PROVE  Cardinality(T) <= Cardinality(S)
BY Counts, FS_Subset

\* The bins are 0 .. Bits - 1.
LEMMA BinsAreSmall ==
  /\ Bits \in Nat /\ Bits > 0 /\ Bin \subseteq Nat /\ Bin \subseteq 0 .. Bits - 1 /\ 0 \in Bin
  /\ Bits - 1 \in Nat
  /\ \A i \in Bin : i < Bits /\ i \in 0 .. Bits
  /\ \A i \in Nat : i < Bits => i \in Bin
<1>1. Bits \in Nat \ {0}
  BY KademliaAssumption
<1> QED  BY <1>1, SMT DEF Bin

\* The three values a calculation reads are bins, or Bits when no bin is empty.
LEMMA ReadsAreNat ==
  ASSUME NEW c, c \subseteq Peers
  PROVE  /\ ShallowestEmpty(c) \in Nat
         /\ ShallowestUnsaturated(c) \in Bin
         /\ Candidate(c) \in Bin
<1>1. ShallowestEmpty(c) \in Nat
  <2>1. EmptyBins(c) \subseteq Nat
    BY BinsAreSmall DEF EmptyBins
  <2> QED  BY <2>1, MinIsLeast, BinsAreSmall DEF ShallowestEmpty
<1>2. ShallowestUnsaturated(c) \in Bin
  <2> DEFINE Thin == {i \in Bin : /\ i = 0 \/ BinPeers(c, i) # {}
                           /\ Cardinality(BinPeers(c, i)) < QuickSaturation
                           /\ \E p \in c : Po(p) > i}
  <2>1. ShallowestUnsaturated(c) =
          IF Thin # {} THEN Min(Thin) ELSE IF c = {} THEN 0 ELSE Max({Po(p) : p \in c})
    BY DEF ShallowestUnsaturated
  <2>2. Thin \subseteq Bin /\ Thin \subseteq Nat
    BY BinsAreSmall
  <2> HIDE DEF Thin
  <2>3. Thin # {} => Min(Thin) \in Bin
    BY <2>2, MinIsLeast
  <2>4. c # {} => Max({Po(p) : p \in c}) \in Bin
    <3>1. {Po(p) : p \in c} \subseteq Bin
      BY PoInBin
    <3>2. {Po(p) : p \in c} \subseteq 0 .. Bits - 1
      BY <3>1, BinsAreSmall
    <3>3. c # {} => {Po(p) : p \in c} # {}
      OBVIOUS
    <3> QED  BY <3>1, <3>2, <3>3, BinsAreSmall, MaxIsGreatest
  <2> QED  BY <2>1, <2>3, <2>4, BinsAreSmall
<1>3. Candidate(c) \in Bin
  <2> DEFINE Deep == {i \in Bin : Cardinality({p \in c : Po(p) >= i}) >= Watermark}
  <2>1. Candidate(c) = IF Deep = {} THEN 0 ELSE Max(Deep)
    BY DEF Candidate
  <2>2. Deep \subseteq Bin /\ Deep \subseteq 0 .. Bits - 1
    BY BinsAreSmall
  <2> HIDE DEF Deep
  <2> QED  BY <2>1, <2>2, BinsAreSmall, MaxIsGreatest
<1> QED  BY <1>1, <1>2, <1>3

\* What the depth is: below each of the bounds, and one of them.
LEMMA DepthBounds ==
  ASSUME NEW e \in Nat, NEW u \in Nat, NEW k \in Nat, NEW r \in Nat
  PROVE  /\ Depth(e, u, k, r) \in Nat
         /\ Depth(e, u, k, r) <= u /\ Depth(e, u, k, r) <= k /\ Depth(e, u, k, r) <= r
         /\ e < Bits => Depth(e, u, k, r) <= e
         /\ \A d \in Nat : d <= u /\ d <= k /\ d <= r /\ (e < Bits => d <= e) => d <= Depth(e, u, k, r)
<1> DEFINE S == {u, k, r} \cup (IF e < Bits THEN {e} ELSE {})
<1>1. S \subseteq Nat /\ S # {} /\ u \in S /\ k \in S /\ r \in S /\ (e < Bits => e \in S)
  OBVIOUS
<1>2. Depth(e, u, k, r) = Min(S)
  BY DEF Depth
<1>3. \A d : d <= u /\ d <= k /\ d <= r /\ (e < Bits => d <= e) => \A y \in S : d <= y
  OBVIOUS
<1> HIDE DEF S
<1>4. Min(S) \in S /\ \A y \in S : Min(S) <= y
  BY <1>1, MinIsLeast
<1> QED  BY <1>1, <1>2, <1>3, <1>4

\* The calculation, of a set of peers that does not change during it.
LEMMA DepthIsRight ==
  ASSUME connected \subseteq Peers, radius \in Nat
  PROVE  DepthOf(connected, radius) = Max({d \in 0 .. Bits : Allowed(d)})
<1> DEFINE S == {d \in 0 .. Bits : Allowed(d)}
           Here(i) == BinPeers(connected, i)
           Beyond(i) == {p \in connected : Po(p) >= i}
           Thin == {i \in Bin : /\ i = 0 \/ BinPeers(connected, i) # {}
                                /\ Cardinality(BinPeers(connected, i)) < QuickSaturation
                                /\ \E p \in connected : Po(p) > i}
           Deep == {i \in Bin : Cardinality({p \in connected : Po(p) >= i}) >= Watermark}
           D == DepthOf(connected, radius)
           e == ShallowestEmpty(connected)
           u == ShallowestUnsaturated(connected)
           k == Candidate(connected)
<1>1. \A i : Here(i) \subseteq Peers /\ Beyond(i) \subseteq Peers
  BY DEF BinPeers
<1>2. \A i : Cardinality(Here(i)) \in Nat /\ Cardinality(Beyond(i)) \in Nat
  BY <1>1, Counts
<1>3. /\ QuickSaturation \in Nat /\ QuickSaturation >= 1
      /\ Watermark \in Nat /\ Watermark >= 1
  <2>1. QuickSaturation \in Nat \ {0} /\ Watermark \in Nat \ {0}
    BY KademliaAssumption
  <2> QED  BY <2>1, SMT
<1>4. \A i : Here(i) = {} => ~(Cardinality(Here(i)) >= QuickSaturation)
  <2> TAKE i
  <2>1. Here(i) = {} => Cardinality(Here(i)) = 0
    BY FS_EmptySet
  <2> QED  BY <1>2, <1>3, <2>1, SMT
<1>5. \A i : Beyond(i) = {} => ~(Cardinality(Beyond(i)) >= Watermark)
  <2> TAKE i
  <2>1. Beyond(i) = {} => Cardinality(Beyond(i)) = 0
    BY FS_EmptySet
  <2> QED  BY <1>2, <1>3, <2>1, SMT
<1>6. \A d : Allowed(d) <=> /\ d <= radius /\ \A i \in 0 .. d - 1 : Cardinality(Here(i)) >= QuickSaturation
                            /\ d = 0 \/ Cardinality(Beyond(d)) >= Watermark
  BY DEF Allowed
<1>7. \A p \in connected : Po(p) \in Nat /\ Po(p) \in Bin
  BY PoInBin, BinsAreSmall
<1>8. S \subseteq 0 .. Bits /\ \A d \in 0 .. Bits : d \in S <=> Allowed(d)
  OBVIOUS
<1>9. 0 \in 0 .. Bits /\ 0 .. 0 - 1 = {} /\ 0 <= radius
  BY BinsAreSmall, SMT
<1>10. 0 \in S
  BY <1>6, <1>8, <1>9
<1> HIDE DEF S, Here, Beyond, Thin, Deep, D, e, u, k
<1>11. CASE Few(connected)
  <2>1. D = 0
    BY <1>11 DEF D, DepthOf
  <2>2. ASSUME NEW d \in S, d # 0 PROVE FALSE
    <3>1. d \in Nat /\ 0 \in 0 .. d - 1
      <4>1. d \in 0 .. Bits
        BY <1>8, <2>2
      <4> QED  BY <2>2, <4>1, BinsAreSmall, SMT
    <3>2. Cardinality(Here(0)) >= QuickSaturation /\ Cardinality(Beyond(d)) >= Watermark
      BY <1>6, <1>8, <2>2, <3>1
    <3>3. PICK p \in connected : Po(p) = 0
      <4>1. Here(0) # {}
        BY <1>4, <3>2
      <4> QED  BY <4>1 DEF Here, BinPeers
    <3>4. Beyond(d) \subseteq connected \ {p}
      <4>1. ~(0 >= d)
        BY <2>2, <3>1, SMT
      <4> QED  BY <3>3, <4>1 DEF Beyond
    <3>5. connected \ {p} \subseteq Peers
      OBVIOUS
    <3>6. Cardinality(Beyond(d)) <= Cardinality(connected \ {p})
      BY <3>4, <3>5, MoreDeep
    <3>7. Cardinality(connected \ {p}) = Cardinality(connected) - 1
      BY Counts, FS_RemoveElement
    <3>8. Cardinality(connected) <= Watermark
      BY <1>11 DEF Few
    <3>9. Cardinality(connected) \in Nat
      BY Counts
    <3> QED  BY <1>2, <1>3, <3>2, <3>6, <3>7, <3>8, <3>9, SMT
  <2>3. \A y \in S : y <= 0
    BY <2>2, SMT
  <2> QED  BY <1>8, <1>10, <2>1, <2>3, MaxIs, BinsAreSmall DEF D, S
<1>12. CASE ~Few(connected)
  <2>1. D = Depth(e, u, k, radius)
    BY <1>12 DEF D, DepthOf, e, u, k
  <2>2. e \in Nat /\ u \in Bin /\ k \in Bin /\ u \in Nat /\ k \in Nat
    BY ReadsAreNat, BinsAreSmall DEF e, u, k
  <2>3. /\ D \in Nat /\ D <= u /\ D <= k /\ D <= radius /\ (e < Bits => D <= e)
        /\ \A d \in Nat : d <= u /\ d <= k /\ d <= radius /\ (e < Bits => d <= e) => d <= D
    BY <2>1, <2>2, DepthBounds
  <2>4. connected # {}
    <3>1. connected = {} => Cardinality(connected) = 0
      BY FS_EmptySet
    <3>2. ~(0 <= Watermark) => FALSE
      BY <1>3, SMT
    <3> QED  BY <1>12, <3>1, <3>2 DEF Few
  <2>5. /\ EmptyBins(connected) = {} => e = Bits
        /\ EmptyBins(connected) # {} =>
             e \in EmptyBins(connected) /\ \A i \in EmptyBins(connected) : e <= i
    <3>1. EmptyBins(connected) \subseteq Nat
      BY BinsAreSmall DEF EmptyBins
    <3> QED  BY <3>1, MinIsLeast DEF e, ShallowestEmpty
  <2>6. /\ Thin # {} => u \in Thin /\ \A i \in Thin : u <= i
        /\ Thin = {} => (\E p \in connected : u = Po(p)) /\ \A p \in connected : Po(p) <= u
    <3>1. u = IF Thin # {} THEN Min(Thin) ELSE Max({Po(p) : p \in connected})
      BY <2>4 DEF u, Thin, ShallowestUnsaturated
    <3>2. Thin \subseteq Nat
      BY BinsAreSmall DEF Thin
    <3>3. Thin # {} => u \in Thin /\ \A i \in Thin : u <= i
      BY <3>1, <3>2, MinIsLeast
    <3> DEFINE P == {Po(p) : p \in connected}
    <3>4. P \subseteq 0 .. Bits - 1 /\ P # {}
      BY <1>7, <2>4, BinsAreSmall
    <3>5. (\E p \in connected : Max(P) = Po(p)) /\ \A p \in connected : Max(P) >= Po(p)
      <4>1. \A p \in connected : Po(p) \in P
        OBVIOUS
      <4>2. \A m \in P : \E p \in connected : m = Po(p)
        OBVIOUS
      <4> HIDE DEF P
      <4>3. Max(P) \in P /\ \A y \in P : Max(P) >= y
        BY <3>4, MaxIsGreatest, BinsAreSmall
      <4> QED  BY <4>1, <4>2, <4>3
    <3>6. \A p \in connected : u >= Po(p) => Po(p) <= u
      BY <1>7, <2>2, SMT
    <3> QED  BY <3>1, <3>3, <3>5, <3>6
  <2>7. /\ Deep = {} => k = 0
        /\ Deep # {} => k \in Deep /\ \A i \in Deep : k >= i
    <3>1. k = IF Deep = {} THEN 0 ELSE Max(Deep)
      BY DEF k, Deep, Candidate
    <3>2. Deep \subseteq 0 .. Bits - 1
      BY BinsAreSmall DEF Deep
    <3> QED  BY <3>1, <3>2, MaxIsGreatest, BinsAreSmall
  <2>8. D \in 0 .. Bits
    BY <2>2, <2>3, BinsAreSmall, SMT
  <2>9. ASSUME NEW i \in 0 .. D - 1 PROVE Cardinality(Here(i)) >= QuickSaturation
    <3>1. i \in Nat /\ i < D /\ i < u /\ i \in Bin /\ (e < Bits => i < e)
      <4>1. i \in Nat /\ i < D /\ i < u /\ (e < Bits => i < e)
        BY <2>2, <2>3, SMT
      <4>2. u < Bits
        BY <2>2, BinsAreSmall
      <4>3. i < Bits
        BY <2>2, <4>1, <4>2, BinsAreSmall, SMT
      <4> QED  BY <4>1, <4>3, BinsAreSmall
    <3>2. Here(i) # {}
      <4>1. SUFFICES ASSUME Here(i) = {} PROVE FALSE
        OBVIOUS
      <4>2. i \in EmptyBins(connected)
        BY <3>1, <4>1 DEF EmptyBins, Here
      <4>3. e <= i /\ e \in Bin
        BY <2>5, <4>2 DEF EmptyBins
      <4>4. e < Bits
        BY <4>3, BinsAreSmall
      <4> QED  BY <2>2, <3>1, <4>3, <4>4, SMT
    <3>3. PICK p \in connected : Po(p) >= u
      <4>1. CASE Thin # {}
        <5>1. PICK p \in connected : Po(p) > u
          BY <2>6, <4>1 DEF Thin
        <5>2. Po(p) >= u
          BY <1>7, <2>2, <5>1, SMT
        <5> QED  BY <5>2
      <4>2. CASE Thin = {}
        <5>1. u >= u
          BY <2>2, SMT
        <5> QED  BY <2>6, <4>2, <5>1
      <4> QED  BY <4>1, <4>2
    <3>4. Po(p) > i
      BY <1>7, <2>2, <3>1, <3>3, SMT
    <3>5. i \notin Thin
      <4>1. ~(u <= i)
        BY <2>2, <3>1, SMT
      <4> QED  BY <2>6, <4>1
    <3>6. ~(Cardinality(Here(i)) < QuickSaturation)
      BY <3>1, <3>2, <3>4, <3>5 DEF Thin, Here
    <3> QED  BY <1>2, <1>3, <3>6, SMT
  <2>10. D = 0 \/ Cardinality(Beyond(D)) >= Watermark
    <3>1. CASE Deep = {}
      BY <2>3, <2>7, <3>1, SMT
    <3>2. CASE Deep # {}
      <4>1. Cardinality(Beyond(k)) >= Watermark
        BY <2>7, <3>2 DEF Deep, Beyond
      <4>2. \A p \in connected : Po(p) >= k => Po(p) >= D
        BY <1>7, <2>2, <2>3, SMT
      <4>3. Beyond(k) \subseteq Beyond(D)
        BY <4>2 DEF Beyond
      <4>4. Cardinality(Beyond(k)) <= Cardinality(Beyond(D))
        BY <1>1, <4>3, MoreDeep
      <4>5. Cardinality(Beyond(D)) >= Watermark
        BY <1>2, <1>3, <4>1, <4>4, SMT
      <4> QED  BY <4>5
    <3> QED  BY <3>1, <3>2
  <2>11. D \in S
    BY <1>6, <1>8, <2>3, <2>8, <2>9, <2>10
  <2>12. ASSUME NEW d \in S PROVE d <= D
    <3>1. /\ d \in Nat /\ d <= Bits /\ d <= radius
          /\ \A i \in 0 .. d - 1 : Cardinality(Here(i)) >= QuickSaturation
          /\ d = 0 \/ Cardinality(Beyond(d)) >= Watermark
      <4>1. d \in 0 .. Bits /\ Allowed(d)
        BY <1>8, <2>12
      <4>2. d \in Nat /\ d <= Bits
        BY <4>1, BinsAreSmall, SMT
      <4> QED  BY <1>6, <4>1, <4>2
    <3>2. \A i \in Nat : i < d => i \in 0 .. d - 1
      BY <3>1, SMT
    <3>3. d # 0 => \E p \in connected : Po(p) >= d
      BY <1>5, <3>1 DEF Beyond
    <3>4. d <= u
      <4>1. CASE Thin # {}
        <5>1. Cardinality(Here(u)) < QuickSaturation
          BY <2>6, <4>1 DEF Thin, Here
        <5>2. ~(u < d)
          <6>1. ~(Cardinality(Here(u)) >= QuickSaturation)
            BY <1>2, <1>3, <5>1, SMT
          <6> QED  BY <2>2, <3>1, <3>2, <6>1
        <5> QED  BY <2>2, <3>1, <5>2, SMT
      <4>2. CASE Thin = {}
        <5>1. d # 0 => \E p \in connected : Po(p) >= d /\ Po(p) <= u
          BY <2>6, <3>3, <4>2
        <5>2. d # 0 => d <= u
          BY <1>7, <2>2, <3>1, <5>1, SMT
        <5> QED  BY <2>2, <3>1, <5>2, SMT
      <4> QED  BY <4>1, <4>2
    <3>5. d <= k
      <4>1. CASE d = 0
        BY <2>2, <4>1, SMT
      <4>2. CASE d # 0
        <5>1. PICK p \in connected : Po(p) >= d
          BY <3>3, <4>2
        <5>2. d < Bits
          <6>1. Po(p) < Bits /\ Po(p) \in Nat
            BY <1>7, BinsAreSmall
          <6> QED  BY <3>1, <5>1, <6>1, BinsAreSmall, SMT
        <5>3. d \in Deep
          BY <3>1, <4>2, <5>2, BinsAreSmall DEF Deep, Beyond
        <5> QED  BY <2>2, <2>7, <3>1, <5>3, SMT
      <4> QED  BY <4>1, <4>2
    <3>6. e < Bits => d <= e
      <4> SUFFICES ASSUME e < Bits PROVE d <= e
        OBVIOUS
      <4>1. e # Bits
        BY <2>2, BinsAreSmall, SMT
      <4>2. Here(e) = {}
        BY <2>5, <4>1 DEF EmptyBins, Here
      <4>3. ~(e < d)
        BY <1>4, <2>2, <3>1, <3>2, <4>2
      <4> QED  BY <2>2, <3>1, <4>3, SMT
    <3> QED  BY <2>3, <3>1, <3>4, <3>5, <3>6
  <2> QED  BY <1>8, <2>11, <2>12, MaxIs, BinsAreSmall DEF D, S
<1> QED  BY <1>11, <1>12

-----------------------------------------------------------------------------
\* No calculation is at the step of the free one.
LEMMA FreeIsAt == Free.at = "free" /\ "free" \notin Reads
BY DEF Free, Reads

LEMMA KadStart == Init => KadInv
<1> SUFFICES ASSUME Init PROVE KadInv
  OBVIOUS
<1>1. 0 \in Nat
  BY SMT
<1>2. Few({})
  <2>1. 0 <= Watermark
    BY KademliaAssumption, SMT
  <2> QED  BY <2>1, FS_EmptySet DEF Few
<1>3. KadTypeOK
  BY <1>1 DEF Init, KadTypeOK
<1> QED  BY <1>2, <1>3 DEF Init, KadInv, Calculating, UpToDate, DepthOf

\* A handler that changes the peers joins those that wait.
LEMMA ChangeKeepsInv ==
  ASSUME KadInv, NEW t \in Task, t \notin dirty, dirty' = dirty \cup {t},
         connected' \subseteq Peers, announcing' \subseteq {"in", "dial"} \X Peers,
         announcing' \cap dirty' = {}, UNCHANGED <<radius, calc>>
  PROVE  KadInv'
<1>1. KadTypeOK'
  BY DEF KadInv, KadTypeOK
<1>2. Calculating'
  BY DEF KadInv, Calculating, Free
<1>3. t # <<"radius", 0>>
  BY SMT DEF Task
<1>4. calc = Free \/ calc.by # t
  BY <1>3 DEF KadInv, Calculating
<1>5. UpToDate'
  BY <1>4 DEF UpToDate, Free
<1> QED  BY <1>1, <1>2, <1>5 DEF KadInv

\* A step that leaves the peers, the radius, the depth and the handlers alone.
LEMMA SameKeepsInv ==
  ASSUME KadInv, announcing' \subseteq {"in", "dial"} \X Peers, announcing' \cap dirty = {},
         UNCHANGED <<connected, radius, depth, dirty, calc>>
  PROVE  KadInv'
BY DEF KadInv, KadTypeOK, Calculating, UpToDate, Free, Few, ShallowestEmpty, EmptyBins,
  BinPeers, ShallowestUnsaturated, DepthOf, Depth, Candidate

\* The depth is set from what the calculation has read.
LEMMA SetDepthKeepsInv ==
  ASSUME KadInv, NEW d, SetDepth(d), calc # Free, UNCHANGED <<connected, radius, announcing>>,
         dirty \subseteq {calc.by} => d = DepthOf(connected, radius)
  PROVE  KadInv'
<1>1. KadTypeOK'
  BY DEF KadInv, KadTypeOK, SetDepth
<1>2. Calculating'
  BY DEF Calculating, SetDepth, Free
<1>3. dirty' = {} => dirty \subseteq {calc.by}
  BY DEF SetDepth
<1>4. calc' = Free /\ depth' = d /\ DepthOf(connected, radius)' = DepthOf(connected, radius)
  BY DEF SetDepth, DepthOf, Few, Depth, ShallowestEmpty, EmptyBins, BinPeers,
    ShallowestUnsaturated, Candidate
<1>5. UpToDate'
  BY <1>3, <1>4 DEF UpToDate, Free
<1> QED  BY <1>1, <1>2, <1>5 DEF KadInv

\* One step per action; <1>10 and <1>11 are what the four reads share.
LEMMA KadStep ==
  ASSUME KadInv, Next PROVE KadInv'
<1>1. ASSUME NEW p \in Peers, Disconnected(p) PROVE KadInv'
  <2>1. <<"out", p>> \in Task
    BY SMT DEF Task
  <2>2. <<"out", p>> \notin {"in", "dial"} \X Peers
    BY SMT
  <2> QED  BY <1>1, <2>1, <2>2, ChangeKeepsInv
           DEF Disconnected, Leave, Remove, KadInv, KadTypeOK
<1>2. ASSUME NEW p \in Peers, Dial(p) PROVE KadInv'
  <2>1. <<"dial", p>> \in {"in", "dial"} \X Peers
    BY SMT
  <2> QED  BY <1>2, <2>1, SameKeepsInv DEF Dial, KadInv, KadTypeOK
<1>3. ASSUME NEW p \in Peers, Prune(p) PROVE KadInv'
  BY <1>3, SameKeepsInv DEF Prune, KadInv, KadTypeOK
<1>4. ASSUME NEW p \in Peers, NEW force \in BOOLEAN, Connected(p, force) PROVE KadInv'
  <2>1. /\ <<"in", p>> \in {"in", "dial"} \X Peers /\ <<"in", p>> \notin dirty
        /\ announcing' = announcing \cup {<<"in", p>>} /\ UNCHANGED <<depth, radius, calc>>
    <3>1. <<"in", p>> \in {"in", "dial"} \X Peers
      BY SMT
    <3> QED  BY <1>4, <3>1 DEF Connected
  <2>2. announcing' \subseteq {"in", "dial"} \X Peers /\ announcing' \cap dirty = {}
    BY <2>1 DEF KadInv, KadTypeOK
  <2>3. CASE UNCHANGED <<connected, dirty>>
    BY <2>1, <2>2, <2>3, SameKeepsInv
  <2>4. CASE \E q \in BinPeers(connected, Po(p)) : <<"out", q>> \notin dirty /\ Leave(q)
    <3>1. PICK q \in BinPeers(connected, Po(p)) : <<"out", q>> \notin dirty /\ Leave(q)
      BY <2>4
    <3>2. q \in Peers
      BY <3>1 DEF BinPeers, KadInv, KadTypeOK
    <3>3. <<"out", q>> \in Task /\ <<"out", q>> \notin {"in", "dial"} \X Peers
      BY <3>2, SMT DEF Task
    <3> QED  BY <2>1, <2>2, <3>1, <3>3, ChangeKeepsInv DEF Leave, Remove, KadInv, KadTypeOK
  <2> QED  BY <1>4, <2>3, <2>4 DEF Connected
<1>5. ASSUME NEW p \in Peers, NEW q \in Peers, AddPeers(<<p, q>>) PROVE KadInv'
  BY <1>5, SameKeepsInv DEF AddPeers, KadInv, KadTypeOK
<1>6. ASSUME NEW t \in announcing, AnnounceFails(t) PROVE KadInv'
  BY <1>6, SameKeepsInv DEF AnnounceFails, KadInv, KadTypeOK
<1>7. ASSUME NEW t \in announcing, Announced(t) PROVE KadInv'
  <2>1. t \in {"in", "dial"} \X Peers
    BY DEF KadInv, KadTypeOK
  <2>2. t \in Task /\ t[2] \in Peers
    BY <2>1, SMT DEF Task
  <2> QED  BY <1>7, <2>2, ChangeKeepsInv DEF Announced, Insert, KadInv, KadTypeOK
<1>8. ASSUME NEW r \in Radii, SetRadius(r) PROVE KadInv'
  <2>1. calc' = [by |-> <<"radius", 0>>, at |-> "length", radius |-> r, empty |-> 0, unsaturated |-> 0]
    BY <1>8 DEF SetRadius, Calculation, Free
  <2>2. /\ calc'.by = <<"radius", 0>> /\ calc'.at = "length" /\ calc'.radius = r
        /\ calc'.empty = 0 /\ calc'.unsaturated = 0
    BY <2>1
  <2>3. KadTypeOK'
    BY <1>8, KademliaAssumption DEF SetRadius, KadInv, KadTypeOK
  <2>4. Calculating'
    BY <1>8, <2>1, <2>2 DEF SetRadius, Calculating, Reads
  <2>5. calc' # Free
    BY <2>2, FreeIsAt
  <2>6. UpToDate'
    BY <2>2, <2>5 DEF UpToDate, Free
  <2> QED  BY <2>3, <2>4, <2>6 DEF KadInv
<1>9. ASSUME NEW t \in dirty, Lock(t) PROVE KadInv'
  <2>1. calc' = [by |-> t, at |-> "length", radius |-> radius, empty |-> 0, unsaturated |-> 0]
    BY <1>9 DEF Lock, Calculation, Free
  <2>2. /\ calc'.by = t /\ calc'.at = "length" /\ calc'.radius = radius
        /\ calc'.empty = 0 /\ calc'.unsaturated = 0
    BY <2>1
  <2>3. KadTypeOK'
    BY <1>9 DEF Lock, KadInv, KadTypeOK
  <2>4. Calculating'
    BY <1>9, <2>1, <2>2 DEF Lock, Calculating, Reads
  <2>5. calc' # Free
    BY <2>2, FreeIsAt
  <2>6. UpToDate'
    BY <2>2, <2>5 DEF UpToDate, Free
  <2> QED  BY <2>3, <2>4, <2>6 DEF KadInv
<1> DEFINE Read(at, empty, unsaturated) ==
      calc' = [by |-> calc.by, at |-> at, radius |-> radius, empty |-> empty, unsaturated |-> unsaturated]
<1>10. ASSUME calc.at \in Reads
       PROVE  /\ calc # Free
              /\ calc = [by |-> calc.by, at |-> calc.at, radius |-> radius,
                         empty |-> calc.empty, unsaturated |-> calc.unsaturated]
              /\ calc.radius = radius
              /\ calc.by \in dirty \cup {<<"radius", 0>>}
  <2>1. calc # Free
    BY <1>10, FreeIsAt
  <2>2. calc = [by |-> calc.by, at |-> calc.at, radius |-> radius,
                         empty |-> calc.empty, unsaturated |-> calc.unsaturated]
    BY <2>1 DEF KadInv, Calculating
  <2>3. calc.radius = radius
    BY <2>2, SMT
  <2> QED  BY <2>1, <2>2, <2>3 DEF KadInv, Calculating
<1>11. ASSUME NEW a \in Reads, NEW e, NEW u, Read(a, e, u), calc.at \in Reads,
              UNCHANGED <<connected, depth, radius, announcing, dirty>>,
              dirty \subseteq {calc.by} =>
                /\ a # "length" => ~Few(connected)
                /\ a \in {"unsaturated", "candidate"} => e = ShallowestEmpty(connected)
                /\ a = "candidate" => u = ShallowestUnsaturated(connected)
       PROVE  KadInv'
  <2>1. /\ calc'.by = calc.by /\ calc'.at = a /\ calc'.radius = radius
        /\ calc'.empty = e /\ calc'.unsaturated = u
    BY <1>11
  <2>2. KadTypeOK'
    BY <1>11 DEF KadInv, KadTypeOK
  <2>3. Calculating'
    BY <1>10, <1>11, <2>1 DEF Calculating
  <2>4. calc' # Free
    BY <2>1, <1>11, FreeIsAt
  <2>5. /\ Few(connected)' <=> Few(connected)
        /\ ShallowestEmpty(connected)' = ShallowestEmpty(connected)
        /\ ShallowestUnsaturated(connected)' = ShallowestUnsaturated(connected)
    BY <1>11 DEF Few, ShallowestEmpty, EmptyBins, BinPeers, ShallowestUnsaturated
  <2>6. UpToDate'
    BY <1>11, <2>1, <2>4, <2>5 DEF UpToDate, Free
  <2> QED  BY <2>2, <2>3, <2>6 DEF KadInv
<1>12. CASE ReadLength
  <2>1. calc.at = "length" /\ calc.at \in Reads
    BY <1>12 DEF ReadLength, Reads
  <2>2. CASE Few(connected)
    <3>1. SetDepth(0) /\ DepthOf(connected, radius) = 0
      BY <1>12, <2>2 DEF ReadLength, DepthOf
    <3> QED  BY <1>10, <1>12, <2>1, <3>1, SetDepthKeepsInv DEF ReadLength
  <2>3. CASE ~Few(connected)
    <3>1. calc' = [calc EXCEPT !.at = "empty"] /\ UNCHANGED <<connected, depth, radius, announcing, dirty>>
      BY <1>12, <2>3 DEF ReadLength
    <3>2. Read("empty", calc.empty, calc.unsaturated)
      BY <1>10, <2>1, <3>1
    <3>3. "empty" \in Reads
      BY DEF Reads
    <3> QED  BY <1>11, <2>1, <2>3, <3>1, <3>2, <3>3
  <2> QED  BY <2>2, <2>3
<1>13. CASE ReadEmpty
  <2>1. /\ calc.at = "empty" /\ calc.at \in Reads /\ "unsaturated" \in Reads
        /\ UNCHANGED <<connected, depth, radius, announcing, dirty>>
    BY <1>13 DEF ReadEmpty, Reads
  <2>2. Read("unsaturated", ShallowestEmpty(connected), calc.unsaturated)
    BY <1>10, <1>13, <2>1 DEF ReadEmpty
  <2>3. dirty \subseteq {calc.by} => ~Few(connected)
    BY <1>10, <2>1 DEF KadInv, UpToDate
  <2> QED  BY <1>11, <2>1, <2>2, <2>3
<1>14. CASE ReadUnsaturated
  <2>1. /\ calc.at = "unsaturated" /\ calc.at \in Reads /\ "candidate" \in Reads
        /\ UNCHANGED <<connected, depth, radius, announcing, dirty>>
    BY <1>14 DEF ReadUnsaturated, Reads
  <2>2. Read("candidate", calc.empty, ShallowestUnsaturated(connected))
    BY <1>10, <1>14, <2>1 DEF ReadUnsaturated
  <2>3. dirty \subseteq {calc.by} => ~Few(connected) /\ calc.empty = ShallowestEmpty(connected)
    BY <1>10, <2>1 DEF KadInv, UpToDate
  <2> QED  BY <1>11, <2>1, <2>2, <2>3
<1>15. CASE ReadCandidate
  <2>1. calc.at = "candidate" /\ calc.at \in Reads
    BY <1>15 DEF ReadCandidate, Reads
  <2>2. dirty \subseteq {calc.by} =>
          /\ ~Few(connected) /\ calc.empty = ShallowestEmpty(connected)
          /\ calc.unsaturated = ShallowestUnsaturated(connected)
    BY <1>10, <2>1 DEF KadInv, UpToDate
  <2>3. SetDepth(Depth(calc.empty, calc.unsaturated, Candidate(connected), radius))
    BY <1>10, <1>15, <2>1 DEF ReadCandidate
  <2>4. dirty \subseteq {calc.by} =>
          Depth(calc.empty, calc.unsaturated, Candidate(connected), radius) = DepthOf(connected, radius)
    BY <2>2 DEF DepthOf
  <2> QED  BY <1>10, <1>15, <2>1, <2>3, <2>4, SetDepthKeepsInv DEF ReadCandidate
<1> QED  BY <1>1, <1>2, <1>3, <1>4, <1>5, <1>6, <1>7, <1>8, <1>9, <1>12, <1>13, <1>14, <1>15 DEF Next

\* recalcDepth under depthMu: for any peers, radii and numbers of handlers, when no
\* handler is left between its change of the peers and the end of its calculation,
\* the depth is the greatest that the connected peers and the radius allow.
THEOREM DepthFollowsPeers == Spec => []DepthIsGreatestAllowed
<1>1. KadInv /\ [Next]_kadVars => KadInv'
  <2> SUFFICES ASSUME KadInv, [Next]_kadVars PROVE KadInv'
    OBVIOUS
  <2>1. CASE Next
    BY <2>1, KadStep
  <2>2. CASE UNCHANGED kadVars
    BY <2>2, SameKeepsInv DEF kadVars, KadInv, KadTypeOK
  <2> QED  BY <2>1, <2>2
<1>2. KadInv => DepthIsGreatestAllowed
  BY DepthIsRight DEF KadInv, KadTypeOK, UpToDate, DepthIsGreatestAllowed
<1> QED  BY <1>1, <1>2, KadStart, PTL DEF Spec

=============================================================================
