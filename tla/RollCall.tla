------------------------------ MODULE RollCall ------------------------------
(***************************************************************************)
(* Roll calls (pkg/mine, pkg/mine/nodeservice): every sixty blocks a trust *)
(* node floods a roll call, miners answer it, and miners also answer on    *)
(* their own when they pass the block.  Half a minute later the trust node *)
(* makes the miners it has not heard of for 120 blocks inactive.  What it  *)
(* heard is kept in memory; a crash loses it.  Blocks are counted in units *)
(* of one roll call period.                                                *)
(***************************************************************************)
EXTENDS Naturals, Sequences, FiniteSets

CONSTANTS
  Trusts, Miners,   \* trust nodes in detail, and miners
  ExpireAfter,      \* periods without an answer after which a miner has expired
  MaxBlock, MaxRestarts   \* bounds: chain length, restarts of nodes

ASSUME RollCallAssumption ==
  /\ IsFiniteSet(Miners) /\ Trusts \cap Miners = {}
  /\ ExpireAfter \in Nat \ {0}
  /\ MaxBlock \in Nat /\ Cardinality(Miners) \in 0..MaxBlock

VARIABLES
  log,          \* the chain: for each block the Miner event in it, or NoEvent
  view,         \* blocks processed by each node (persisted)
  synced, prev, \* each node: Start was called; the period of its last roll call
  sig,          \* each node: roll call signals, the second one blocks the syncer
  nodes, store, \* each trust node: its record of each miner, in memory and stored
  roll,         \* each trust node: block of the roll call whose check is due, or 0
  seen,         \* each miner: block of the last roll call it handled
  todo,         \* each miner: roll calls to answer
  rollCalls,    \* roll calls on their way
  upFrom,       \* each miner: the first block mined since it was last started
  wronged,      \* miners made inactive although they were up
  restarts

rollVars == <<log, view, synced, prev, sig, nodes, store, roll, seen, todo, rollCalls, upFrom, wronged, restarts>>
syncVars == <<view, synced, prev, sig>>
recordVars == <<nodes, store, roll>>
minerVars == <<seen, todo>>

Node == Trusts \cup Miners
NoEvent == <<>>
Unknown == [known |-> FALSE, active |-> FALSE, last |-> 0, inaction |-> FALSE]

\* A network in operation: the miners are active and known, everyone is synced.
Activations ==
  {s \in [1..Cardinality(Miners) -> {<<m, TRUE>> : m \in Miners}] :
     \A m \in Miners : \E i \in DOMAIN s : s[i] = <<m, TRUE>>}
RollInit ==
  /\ log \in Activations
  /\ view = [x \in Node |-> Len(log)] /\ synced = [x \in Node |-> TRUE]
  /\ prev = view /\ sig = [x \in Node |-> <<>>]
  /\ nodes = [t \in Trusts |-> [m \in Miners |->
                [known |-> TRUE, active |-> TRUE, inaction |-> FALSE,
                 last |-> CHOOSE i \in 1..Len(log) : log[i][1] = m]]]
  /\ store = nodes /\ roll = [t \in Trusts |-> 0]
  /\ seen = [m \in Miners |-> 0] /\ todo = [m \in Miners |-> {}]
  /\ rollCalls = {} /\ upFrom = [m \in Miners |-> Len(log) + 1] /\ wronged = {} /\ restarts = 0

-----------------------------------------------------------------------------
\* The contract (external): a miner becomes active, the others stay as they are.
ActiveMiner(m) ==
  \E i \in 1..Len(log) :
    log[i] = <<m, TRUE>> /\ \A j \in i + 1..Len(log) : log[j] # <<m, FALSE>>

MineBlock ==
  /\ Len(log) < MaxBlock
  /\ \E e \in {NoEvent} \cup {<<m, TRUE>> : m \in {n \in Miners : ~ActiveMiner(n)}} :
       log' = Append(log, e)
  /\ UNCHANGED <<syncVars, recordVars, minerVars, rollCalls, upFrom, wronged, restarts>>

-----------------------------------------------------------------------------
\* Miner: the record follows the event; an activation counts as an answer.
Miner(r, e, m, b) ==
  IF e = NoEvent \/ e[1] # m THEN r
  ELSE [r EXCEPT !.known = TRUE, !.active = e[2],
                 !.last = IF ~r.known \/ (e[2] /\ r.last < b) THEN b ELSE r.last]

\* The syncer hands over the events of the next block and its number; past a
\* period a synced node signals a roll call.  A full channel blocks the syncer.
UpdateBlockNumber(x) ==
  LET b == view[x] + 1 IN
  /\ view[x] < Len(log) /\ Len(sig[x]) <= 1
  /\ view' = [view EXCEPT ![x] = b]
  /\ IF x \in Trusts
     THEN /\ nodes' = [nodes EXCEPT ![x] = [m \in Miners |-> Miner(@[m], log[b], m, b)]]
          /\ store' = [store EXCEPT ![x] = [m \in Miners |->
                         IF log[b] # NoEvent /\ log[b][1] = m THEN nodes'[x][m] ELSE @[m]]]
     ELSE UNCHANGED <<nodes, store>>
  /\ IF synced[x] /\ b > prev[x]
     THEN prev' = [prev EXCEPT ![x] = b] /\ sig' = [sig EXCEPT ![x] = Append(@, b)]
     ELSE UNCHANGED <<prev, sig>>
  /\ UNCHANGED <<log, synced, roll, minerVars, rollCalls, upFrom, wronged, restarts>>

\* The node has caught up with the chain when it started and starts the worker.
StartRollCalls(x) ==
  /\ ~synced[x] /\ view[x] = Len(log) /\ synced' = [synced EXCEPT ![x] = TRUE]
  /\ upFrom' = [m \in Miners |-> IF m = x THEN Len(log) + 1 ELSE upFrom[m]]
  /\ UNCHANGED <<log, view, prev, sig, recordVars, minerVars, rollCalls, wronged, restarts>>

\* PushRollCall and its handler: the roll call is streamed to peers.
Flood(peers, t, h) == {<<m, t, h>> : m \in peers}

\* manange of a trust node: the roll call goes to the peers, the check is due in
\* half a minute (a check that was due before is replaced).
PushRollCall(t) ==
  /\ sig[t] # <<>> /\ sig' = [sig EXCEPT ![t] = Tail(@)]
  /\ roll' = [roll EXCEPT ![t] = Head(sig[t])]
  /\ rollCalls' = rollCalls \cup Flood(Miners, t, Head(sig[t]))
  /\ UNCHANGED <<log, view, synced, prev, nodes, store, minerVars, upFrom, wronged, restarts>>

\* NotifyTrustRollCall of a miner: of roll calls for the same block only the
\* first is answered, and passed on.
NotifyTrustRollCall(m, t, h) ==
  /\ <<m, t, h>> \in rollCalls
  /\ IF seen[m] >= h
     THEN rollCalls' = rollCalls \ {<<m, t, h>>} /\ UNCHANGED minerVars
     ELSE /\ seen' = [seen EXCEPT ![m] = h]
          /\ todo' = [todo EXCEPT ![m] = @ \cup {<<t, h>>}]
          /\ rollCalls' = (rollCalls \ {<<m, t, h>>}) \cup Flood(Miners \ {m}, t, h)
  /\ UNCHANGED <<log, syncVars, recordVars, upFrom, wronged, restarts>>

\* The roll call of a trust node outside Trusts for the same chain: its answer
\* goes elsewhere, but it counts as handled.
OtherRollCall(m) ==
  /\ seen[m] < Len(log) /\ seen' = [seen EXCEPT ![m] = Len(log)]
  /\ UNCHANGED <<log, syncVars, recordVars, todo, rollCalls, upFrom, wronged, restarts>>

\* Mutant: a miner answers only the roll calls that reach it.
NoSelfRollCall(m) ==
  /\ sig[m] # <<>> /\ sig' = [sig EXCEPT ![m] = Tail(@)]
  /\ UNCHANGED <<log, view, synced, prev, recordVars, minerVars, rollCalls, upFrom, wronged,
                 restarts>>

\* manange of a miner: it answers every trust node when it passes the block.
CheckSelfTrustRollCall(m) ==
  /\ sig[m] # <<>> /\ sig' = [sig EXCEPT ![m] = Tail(@)]
  /\ todo' = [todo EXCEPT ![m] = @ \cup {<<t, Head(sig[m])>> : t \in Trusts}]
  /\ UNCHANGED <<log, view, synced, prev, recordVars, seen, rollCalls, upFrom, wronged, restarts>>

\* UpdateNodeLastBlock: kept in memory only.
UpdateNodeLastBlock(r, h) == IF r.known /\ r.last < h THEN [r EXCEPT !.last = h] ELSE r

\* NotifyTrustRollCallSign: the answer counts for the miner that signed it.
NotifyTrustRollCallSign(m, t, h) == nodes' = [nodes EXCEPT ![t][m] = UpdateNodeLastBlock(@, h)]

\* signRollCallToTrust sends the signed answer, which is handled on arrival.
SignRollCallToTrust(m, t, h) ==
  /\ <<t, h>> \in todo[m] /\ todo' = [todo EXCEPT ![m] = @ \ {<<t, h>>}]
  /\ NotifyTrustRollCallSign(m, t, h)
  /\ UNCHANGED <<log, syncVars, store, roll, seen, rollCalls, upFrom, wronged, restarts>>

-----------------------------------------------------------------------------
\* ExpireMiners.
Expired(t) ==
  {m \in Miners : /\ nodes[t][m].active /\ ~nodes[t][m].inaction
                  /\ nodes[t][m].last + ExpireAfter < view[t]}

\* Half a minute is enough for roll calls, the miners' syncing and answers, and
\* too short for the chain to get two periods further.
Prompt(t) ==
  /\ rollCalls = {} /\ view[t] <= roll[t] + 1
  /\ \A m \in Miners : /\ view[m] >= roll[t] /\ synced[m] /\ sig[m] = <<>>
                       /\ \A a \in todo[m] : a[1] # t

\* Inactives: the transaction makes an expired miner inactive (of a batch the
\* model takes one per block).
Inactives(ms) == \E m \in ms : log' = Append(log, <<m, FALSE>>)

\* The check comes due; the transaction is mined in the next block.
CheckExpireMiners(t) ==
  /\ roll[t] # 0 /\ Prompt(t) /\ roll' = [roll EXCEPT ![t] = 0]
  /\ Expired(t) # {} => Len(log) < MaxBlock
  /\ nodes' = [nodes EXCEPT ![t] =
       [m \in Miners |-> [nodes[t][m] EXCEPT !.inaction = @ \/ m \in Expired(t)]]]
  /\ wronged' = wronged \cup {m \in Expired(t) : upFrom[m] <= roll[t]}
  /\ \/ Expired(t) = {} /\ UNCHANGED log
     \/ Inactives(Expired(t))
  /\ UNCHANGED <<syncVars, store, minerVars, rollCalls, upFrom, restarts>>

\* checkInactionTxHash: the transaction succeeded, the miner may expire again.
CheckInactionTx(t, m) ==
  /\ nodes[t][m].inaction /\ \E i \in 1..Len(log) : log[i] = <<m, FALSE>>
  /\ nodes' = [nodes EXCEPT ![t][m].inaction = FALSE]
  /\ UNCHANGED <<log, syncVars, store, roll, minerVars, rollCalls, upFrom, wronged, restarts>>

-----------------------------------------------------------------------------
\* A node ends and starts again.  Close stores the records of a trust node, a
\* crash does not; a crash while events are written resets the store.
Restarted(x) ==
  /\ restarts < MaxRestarts /\ restarts' = restarts + 1
  /\ synced' = [synced EXCEPT ![x] = FALSE] /\ sig' = [sig EXCEPT ![x] = <<>>]

TrustRestarts(t) ==
  /\ Restarted(t) /\ roll' = [roll EXCEPT ![t] = 0]
  /\ \/ store' = [store EXCEPT ![t] = nodes[t]] /\ UNCHANGED view
     \/ UNCHANGED <<store, view>>
     \/ /\ store' = [store EXCEPT ![t] = [m \in Miners |-> Unknown]]
        /\ view' = [view EXCEPT ![t] = 0]
  /\ nodes' = [nodes EXCEPT ![t] = [m \in Miners |-> [store'[t][m] EXCEPT !.inaction = FALSE]]]
  /\ prev' = [prev EXCEPT ![t] = view'[t]]
  /\ UNCHANGED <<log, minerVars, rollCalls, upFrom, wronged>>

MinerRestarts(m) ==
  /\ Restarted(m) /\ prev' = [prev EXCEPT ![m] = view[m]]
  /\ seen' = [seen EXCEPT ![m] = 0] /\ todo' = [todo EXCEPT ![m] = {}]
  /\ rollCalls' = {a \in rollCalls : a[1] # m}
  /\ upFrom' = [upFrom EXCEPT ![m] = MaxBlock + 1]
  /\ UNCHANGED <<log, view, recordVars, wronged>>

RollNext ==
  \/ MineBlock
  \/ \E x \in Node : UpdateBlockNumber(x) \/ StartRollCalls(x)
  \/ \E t \in Trusts : PushRollCall(t) \/ CheckExpireMiners(t) \/ TrustRestarts(t)
  \/ \E m \in Miners : OtherRollCall(m) \/ CheckSelfTrustRollCall(m) \/ MinerRestarts(m)
  \/ \E a \in rollCalls : NotifyTrustRollCall(a[1], a[2], a[3])
  \/ \E m \in Miners : \E a \in todo[m] : SignRollCallToTrust(m, a[1], a[2])
  \/ \E t \in Trusts, m \in Miners : CheckInactionTx(t, m)

RollSpec == RollInit /\ [][RollNext]_rollVars
-----------------------------------------------------------------------------
(***************************************************************************)
(* A miner that was up when a roll call's block came is not made inactive  *)
(* by its check, whatever the trust node forgot in a crash before, and      *)
(* although a miner drops the second of two roll calls for the same block. *)
(***************************************************************************)
OnlineStaysActive == wronged = {}
=============================================================================
