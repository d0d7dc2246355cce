--------------------------- MODULE RollCallProofs ---------------------------
(***************************************************************************)
(* Proof that a miner that is up when a roll call's block comes is not     *)
(* made inactive by its check (OnlineStaysActive), for any miners, trust   *)
(* nodes, expiry, chains and numbers of restarts.                          *)
(***************************************************************************)
EXTENDS RollCall, TLAPS

\* The types of the state.
Event == {NoEvent} \cup (Miners \X BOOLEAN)
Record == [known : BOOLEAN, active : BOOLEAN, last : Nat, inaction : BOOLEAN]

SyncOK ==
  /\ log \in Seq(Event) /\ Len(log) <= MaxBlock
  /\ view \in [Node -> Nat] /\ prev \in [Node -> Nat]
  /\ \A x \in Node : prev[x] <= view[x] /\ view[x] <= Len(log)
  /\ synced \in [Node -> BOOLEAN] /\ sig \in [Node -> Seq(Nat)]

RecordsOK ==
  /\ nodes \in [Trusts -> [Miners -> Record]]
  /\ store \in [Trusts -> [Miners -> Record]]
  /\ roll \in [Trusts -> Nat]

MinersOK ==
  /\ rollCalls \subseteq Miners \X Trusts \X Nat
  /\ todo \in [Miners -> SUBSET (Trusts \X Nat)]
  /\ upFrom \in [Miners -> Nat]

RollTypeOK == SyncOK /\ RecordsOK /\ MinersOK

\* A trust node has a record of every miner whose activation it has passed.
KnownTo(t, m) ==
  /\ \A i \in 1..view[t] : log[i] = <<m, TRUE>> => nodes[t][m].known /\ store[t][m].known
  /\ synced[t] => nodes[t][m].known

Activated == \A m \in Miners : \E i \in 1..Len(log) : log[i] = <<m, TRUE>>

Known == Activated /\ \A t \in Trusts, m \in Miners : KnownTo(t, m)

\* What only a started node has.
Started ==
  /\ \A m \in Miners : ~synced[m] => upFrom[m] = MaxBlock + 1
  /\ \A t \in Trusts : ~synced[t] => sig[t] = <<>> /\ roll[t] = 0
  /\ \A t \in Trusts : roll[t] <= Len(log)
  /\ \A t \in Trusts : \A i \in 1..Len(sig[t]) : sig[t][i] \in 1..Len(log)

Signalled(x, h) == \E i \in 1..Len(sig[x]) : sig[x][i] = h

\* The roll call of block h is still ahead of the check that uses its answers.
Due(t, h) == synced[t] /\ (h > view[t] \/ Signalled(t, h) \/ roll[t] = h)

\* The miner has passed the block since it was started.
Passed(m, h) == upFrom[m] <= h /\ h <= view[m]

\* The miner's answer is about to be given, on its way, or has arrived.
Answer(t, m, h) == Signalled(m, h) \/ <<t, h>> \in todo[m] \/ nodes[t][m].last >= h

\* The heart of the argument: an answer is never lost between the miner that
\* passes the block of a roll call and the check of the trust node.
Answered ==
  \A t \in Trusts, m \in Miners : \A h \in 1..Len(log) :
    Due(t, h) /\ Passed(m, h) => Answer(t, m, h)

\* The inductive invariant.
RollInv == RollTypeOK /\ Known /\ Started /\ Answered /\ wronged = {}

-----------------------------------------------------------------------------
LEMMA TailHas ==
  ASSUME NEW s \in Seq(Nat), s # <<>>
  PROVE  /\ Tail(s) \in Seq(Nat) /\ Head(s) \in Nat /\ Len(s) >= 1 /\ s[1] = Head(s)
         /\ \A h : (\E i \in 1..Len(s) : s[i] = h)
                     => h = Head(s) \/ \E i \in 1..Len(Tail(s)) : Tail(s)[i] = h
         /\ \A i \in 1..Len(Tail(s)) : \E j \in 1..Len(s) : s[j] = Tail(s)[i]
<1>1. Tail(s) \in Seq(Nat) /\ Head(s) \in Nat /\ Len(s) >= 1 /\ s[1] = Head(s)
  OBVIOUS
<1>2. Len(Tail(s)) = Len(s) - 1 /\ \A i \in 1..Len(Tail(s)) : Tail(s)[i] = s[i + 1]
  OBVIOUS
<1>3. ASSUME NEW h, NEW i \in 1..Len(s), s[i] = h, h # Head(s)
      PROVE  \E j \in 1..Len(Tail(s)) : Tail(s)[j] = h
  <2>1. i - 1 \in 1..Len(Tail(s)) /\ Tail(s)[i - 1] = h
    BY <1>1, <1>2, <1>3
  <2> QED
    BY <2>1
<1>4. ASSUME NEW i \in 1..Len(Tail(s))
      PROVE  \E j \in 1..Len(s) : s[j] = Tail(s)[i]
  <2>1. i + 1 \in 1..Len(s) /\ s[i + 1] = Tail(s)[i]
    BY <1>1, <1>2
  <2> QED
    BY <2>1
<1> QED
  BY <1>1, <1>3, <1>4, Zenon

LEMMA AppendHas ==
  ASSUME NEW s \in Seq(Nat), NEW b \in Nat
  PROVE  /\ Append(s, b) \in Seq(Nat) /\ Len(Append(s, b)) = Len(s) + 1
         /\ \A i \in 1..Len(s) : Append(s, b)[i] = s[i]
         /\ Append(s, b)[Len(s) + 1] = b
  OBVIOUS

LEMMA ChainGrows ==
  ASSUME NEW s \in Seq(Event), NEW e \in Event
  PROVE  /\ Append(s, e) \in Seq(Event) /\ Len(Append(s, e)) = Len(s) + 1 /\ Len(s) \in Nat
         /\ \A i \in 1..Len(s) : Append(s, e)[i] = s[i]
  OBVIOUS

-----------------------------------------------------------------------------
LEMMA RollStart == RollInit => RollInv
<1> SUFFICES ASSUME RollInit PROVE RollInv
  OBVIOUS
<1> DEFINE n == Cardinality(Miners)
<1>n. n \in Nat /\ n <= MaxBlock /\ MaxBlock \in Nat
  BY RollCallAssumption
<1>l. /\ log \in Seq(Event) /\ Len(log) = n
      /\ \A m \in Miners : \E i \in 1..Len(log) : log[i] = <<m, TRUE>>
  <2>1. log \in [1..n -> {<<m, TRUE>> : m \in Miners}]
    BY Zenon DEF RollInit, Activations
  <2>2. {<<m, TRUE>> : m \in Miners} \subseteq Event
    <3> SUFFICES ASSUME NEW m \in Miners PROVE <<m, TRUE>> \in Event
      BY Zenon
    <3> QED
      BY Zenon DEF Event
  <2>3. log \in [1..n -> Event]
    BY <2>1, <2>2, Zenon
  <2>4. log \in Seq(Event) /\ Len(log) = n
    BY <2>3, <1>n
  <2> QED
    BY <2>1, <2>4, Zenon DEF RollInit, Activations
<1>1. SyncOK
  <2>1. sig \in [Node -> Seq(Nat)]
    BY DEF RollInit
  <2> QED
    BY <1>n, <1>l, <2>1 DEF RollInit, SyncOK
<1>2. RecordsOK
  <2>1. ASSUME NEW m \in Miners
        PROVE  (CHOOSE i \in 1..Len(log) : log[i][1] = m) \in Nat
    <3>1. PICK i \in 1..Len(log) : log[i] = <<m, TRUE>>
      BY <1>l, Zenon
    <3>2. log[i][1] = m
      BY <3>1
    <3> HIDE <1>l
    <3>3. (CHOOSE j \in 1..Len(log) : log[j][1] = m) \in 1..Len(log)
      BY <3>2
    <3> QED
      BY <3>3, <1>l, <1>n
  <2>2. nodes \in [Trusts -> [Miners -> Record]]
    BY <2>1, Zenon DEF RollInit, Record
  <2> QED
    BY <2>2 DEF RollInit, RecordsOK
<1>3. MinersOK
  BY <1>n, <1>l DEF RollInit, MinersOK
<1>4. Known
  <2>1. \A t \in Trusts, m \in Miners : nodes[t][m].known /\ store[t][m].known
    BY DEF RollInit
  <2> QED
    BY <2>1, <1>l, Zenon DEF Known, KnownTo, Activated
<1>5. Started
  <2>1. \A x \in Node : synced[x] /\ sig[x] = <<>>
    BY DEF RollInit
  <2>2. \A t \in Trusts : roll[t] = 0
    BY DEF RollInit
  <2> QED
    BY <2>1, <2>2, <1>l, <1>n DEF Started, Node
<1>6. Answered
  <2>1. \A m \in Miners : upFrom[m] = n + 1
    BY <1>l DEF RollInit
  <2> QED
    BY <2>1, <1>l, <1>n DEF Answered, Passed
<1> QED
  BY <1>1, <1>2, <1>3, <1>4, <1>5, <1>6 DEF RollInv, RollTypeOK, RollInit

-----------------------------------------------------------------------------
\* The chain grows by a block.
LEMMA LogKeeps ==
  ASSUME RollInv, NEW e \in Event, Len(log) < MaxBlock, log' = Append(log, e),
         UNCHANGED <<syncVars, minerVars, rollCalls, upFrom>>
  PROVE  /\ SyncOK' /\ MinersOK' /\ Len(log)' = Len(log) + 1 /\ Len(log) \in Nat
         /\ \A i \in 1..Len(log) : log'[i] = log[i]
         /\ Activated'
<1>1. /\ log' \in Seq(Event) /\ Len(log') = Len(log) + 1 /\ Len(log) \in Nat
      /\ \A i \in 1..Len(log) : log'[i] = log[i]
  BY ChainGrows DEF RollInv, RollTypeOK, SyncOK
<1>2. SyncOK'
  BY <1>1, RollCallAssumption DEF RollInv, RollTypeOK, SyncOK, syncVars
<1>3. MinersOK'
  BY DEF RollInv, RollTypeOK, MinersOK, minerVars
<1>4. ASSUME NEW m \in Miners
      PROVE  \E i \in 1..Len(log)' : log'[i] = <<m, TRUE>>
  <2>1. PICK i \in 1..Len(log) : log[i] = <<m, TRUE>>
    BY Zenon DEF RollInv, Known, Activated
  <2>2. i \in 1..Len(log')
    BY <1>1, SMT
  <2>3. log'[i] = <<m, TRUE>>
    BY <2>1, <1>1, Zenon
  <2> QED
    BY <2>2, <2>3, Zenon
<1> QED
  BY <1>1, <1>2, <1>3, <1>4, Zenon DEF Activated

LEMMA MineBlockKeeps ==
  ASSUME RollInv, MineBlock
  PROVE  RollInv'
<1>1. PICK e \in Event : log' = Append(log, e)
  BY Zenon DEF MineBlock, Event
<1>2. /\ SyncOK' /\ MinersOK' /\ Len(log)' = Len(log) + 1 /\ Len(log) \in Nat
      /\ \A i \in 1..Len(log) : log'[i] = log[i]
      /\ Activated'
  BY <1>1, LogKeeps DEF MineBlock
<1>3. RecordsOK'
  BY DEF RollInv, RollTypeOK, RecordsOK, MineBlock, recordVars
<1>v. \A x \in Node : view[x] \in Nat /\ view[x] <= Len(log)
  BY DEF RollInv, RollTypeOK, SyncOK
<1>4. Known'
  <2> SUFFICES ASSUME NEW t \in Trusts, NEW m \in Miners PROVE KnownTo(t, m)'
    BY <1>2 DEF Known
  <2>1. KnownTo(t, m)
    BY DEF RollInv, Known
  <2>2. \A i \in 1..view[t] : log'[i] = log[i]
    BY <1>2, <1>v DEF Node
  <2> QED
    BY <2>1, <2>2, Zenon DEF KnownTo, MineBlock, recordVars, syncVars
<1>5. Started'
  BY <1>2 DEF RollInv, RollTypeOK, RecordsOK, Started, MineBlock, recordVars, syncVars
<1>6. Answered'
  <2> SUFFICES ASSUME NEW t \in Trusts, NEW m \in Miners, NEW h \in 1..Len(log)',
                      Due(t, h)', Passed(m, h)'
               PROVE  Answer(t, m, h)'
    BY DEF Answered
  <2>1. h <= Len(log)
    BY <1>v, <1>2 DEF Passed, MineBlock, syncVars, Node
  <2>2. h \in 1..Len(log)
    BY <2>1, <1>2
  <2>3. Due(t, h) /\ Passed(m, h)
    BY DEF Due, Passed, Signalled, MineBlock, syncVars, recordVars
  <2>4. Answer(t, m, h)
    BY <2>2, <2>3 DEF RollInv, Answered
  <2> QED
    BY <2>4 DEF Answer, Signalled, MineBlock, syncVars, recordVars, minerVars
<1> QED
  BY <1>2, <1>3, <1>4, <1>5, <1>6 DEF RollInv, RollTypeOK, MineBlock

\* The record of a miner after an event of a block.
LEMMA EventIsNot ==
  ASSUME NEW e, NEW m, e = NoEvent \/ e[1] # m
  PROVE  e # <<m, TRUE>>
<1>1. Len(<<m, TRUE>>) = 2 /\ Len(<<>>) = 0
  BY SMT
<1>2. <<m, TRUE>>[1] = m
  BY Zenon
<1>3. CASE e = NoEvent
  BY <1>3, <1>1, SMT DEF NoEvent
<1>4. CASE e[1] # m
  BY <1>4, <1>2, Zenon
<1> QED
  BY <1>3, <1>4, Zenon

LEMMA MinerKeeps ==
  ASSUME NEW r \in Record, NEW e \in Event, NEW m \in Miners, NEW b \in Nat
  PROVE  /\ Miner(r, e, m, b) \in Record
         /\ Miner(r, e, m, b).last >= r.last \/ ~r.known
         /\ r.known => Miner(r, e, m, b).known
         /\ e = <<m, TRUE>> => Miner(r, e, m, b).known
<1>1. CASE e = NoEvent \/ e[1] # m
  <2>1. Miner(r, e, m, b) = r
    BY <1>1 DEF Miner
  <2>2. e # <<m, TRUE>>
    BY <1>1, EventIsNot, Zenon
  <2>3. r.last >= r.last
    BY SMT DEF Record
  <2> QED
    BY <2>1, <2>2, <2>3, Zenon
<1>2. CASE ~(e = NoEvent \/ e[1] # m)
  <2>1. e[2] \in BOOLEAN
    BY <1>2 DEF Event
  <2>2. Miner(r, e, m, b) = [r EXCEPT !.known = TRUE, !.active = e[2],
           !.last = IF ~r.known \/ (e[2] /\ r.last < b) THEN b ELSE r.last]
    BY <1>2 DEF Miner
  <2> DEFINE w == Miner(r, e, m, b)
  <2>a. w \in Record
    <3>1. PICK l : l = IF ~r.known \/ (e[2] /\ r.last < b) THEN b ELSE r.last
      OBVIOUS
    <3>2. l \in Nat
      <4>1. l = b \/ l = r.last
        BY <3>1, Zenon
      <4>2. r.last \in Nat
        BY SMT DEF Record
      <4> QED
        BY <4>1, <4>2
    <3>3. w = [r EXCEPT !.known = TRUE, !.active = e[2], !.last = l]
      BY <2>2, <3>1, Zenon
    <3>4. [r EXCEPT !.known = TRUE, !.active = e[2], !.last = l] \in Record
      BY <2>1, <3>2, Zenon DEF Record
    <3> QED
      BY <3>3, <3>4, Zenon
  <2>b. w.known = TRUE
    BY <2>2, SMT DEF Record
  <2>3. w \in Record /\ w.known
    BY <2>a, <2>b, Zenon
  <2>4. w.last = IF ~r.known \/ (e[2] /\ r.last < b) THEN b ELSE r.last
    BY <2>2, SMT DEF Record
  <2>5. r.last \in Nat
    BY SMT DEF Record
  <2>6. CASE ~r.known
    BY <2>3, <2>6, Zenon
  <2>7. CASE r.known /\ r.last < b
    <3>1. w.last = b \/ w.last = r.last
      BY <2>4, Zenon
    <3>2. w.last >= r.last
      BY <3>1, <2>5, <2>7, SMT
    <3> QED
      BY <3>2, <2>3, Zenon
  <2>8. CASE r.known /\ ~(r.last < b)
    <3>1. w.last = r.last
      BY <2>4, <2>8, Zenon
    <3>2. w.last >= r.last
      BY <3>1, <2>5, SMT
    <3> QED
      BY <3>2, <2>3, Zenon
  <2> QED
    BY <2>6, <2>7, <2>8, Zenon
<1> QED
  BY <1>1, <1>2, Zenon

LEMMA UpdateKeeps ==
  ASSUME RollInv, NEW x \in Node, UpdateBlockNumber(x)
  PROVE  RollInv'
<1>0. PICK b : b = view[x] + 1
  OBVIOUS
<1>b. /\ b \in 1..Len(log) /\ b \in Nat /\ view[x] \in Nat /\ Len(log) \in Nat
      /\ log[b] \in Event /\ MaxBlock \in Nat
  BY <1>0, RollCallAssumption DEF RollInv, RollTypeOK, SyncOK, UpdateBlockNumber
<1>v. /\ view' = [view EXCEPT ![x] = b] /\ view'[x] = b
      /\ \A y \in Node : y # x => view'[y] = view[y]
      /\ \A y \in Node : view[y] \in Nat /\ view'[y] \in Nat /\ view[y] <= view'[y]
  BY <1>0, <1>b DEF RollInv, RollTypeOK, SyncOK, UpdateBlockNumber
<1>s. /\ sig' \in [Node -> Seq(Nat)]
      /\ \A y \in Node : y # x => sig'[y] = sig[y]
      /\ sig'[x] = sig[x] \/ sig'[x] = Append(sig[x], b)
      /\ synced[x] => sig'[x] = Append(sig[x], b)
      /\ ~synced[x] => sig'[x] = sig[x]
  <2>1. b > prev[x]
    BY <1>0, <1>b DEF RollInv, RollTypeOK, SyncOK
  <2>2. Append(sig[x], b) \in Seq(Nat)
    BY <1>b, AppendHas DEF RollInv, RollTypeOK, SyncOK
  <2>3. CASE synced[x]
    BY <1>0, <2>1, <2>2, <2>3, Zenon DEF RollInv, RollTypeOK, SyncOK, UpdateBlockNumber
  <2>4. CASE ~synced[x]
    BY <2>4 DEF RollInv, RollTypeOK, SyncOK, UpdateBlockNumber
  <2> QED
    BY <2>3, <2>4
<1>g. \A y \in Node : \A h \in Nat :
        /\ Signalled(y, h) => Signalled(y, h)'
        /\ Signalled(y, h)' => Signalled(y, h) \/ (y = x /\ h = b)
        /\ synced[x] => Signalled(x, b)'
  <2> SUFFICES ASSUME NEW y \in Node, NEW h \in Nat
               PROVE  /\ Signalled(y, h) => Signalled(y, h)'
                      /\ Signalled(y, h)' => Signalled(y, h) \/ (y = x /\ h = b)
                      /\ synced[x] => Signalled(x, b)'
    OBVIOUS
  <2>1. sig[x] \in Seq(Nat)
    BY DEF RollInv, RollTypeOK, SyncOK
  <2>2. /\ Len(Append(sig[x], b)) = Len(sig[x]) + 1 /\ Len(sig[x]) \in Nat
        /\ \A i \in 1..Len(sig[x]) : Append(sig[x], b)[i] = sig[x][i]
        /\ Append(sig[x], b)[Len(sig[x]) + 1] = b
    BY <2>1, <1>b, AppendHas
  <2>3. synced[x] => Signalled(x, b)'
    <3> SUFFICES ASSUME synced[x] PROVE Signalled(x, b)'
      OBVIOUS
    <3>1. sig'[x] = Append(sig[x], b)
      BY <1>s, Zenon
    <3>2. Len(sig[x]) + 1 \in 1..Len(sig'[x]) /\ sig'[x][Len(sig[x]) + 1] = b
      BY <3>1, <2>2, SMT
    <3> QED
      BY <3>2, Zenon DEF Signalled
  <2>4. CASE sig'[y] = sig[y]
    BY <2>3, <2>4 DEF Signalled
  <2>5. CASE y = x /\ sig'[x] = Append(sig[x], b)
    BY <2>2, <2>3, <2>5 DEF Signalled
  <2> QED
    BY <2>4, <2>5, <1>s
<1>1. SyncOK'
  <2>0. view \in [Node -> Nat] /\ prev \in [Node -> Nat] /\ \A y \in Node : prev[y] <= view[y]
    BY DEF RollInv, RollTypeOK, SyncOK
  <2>1. prev' \in [Node -> Nat] /\ \A y \in Node : prev'[y] <= view'[y]
    <3>1. prev' = prev \/ prev' = [prev EXCEPT ![x] = b]
      BY <1>0 DEF UpdateBlockNumber
    <3>2. CASE prev' = prev
      BY <3>2, <2>0, <1>v, SMT
    <3>3. CASE prev' = [prev EXCEPT ![x] = b]
      BY <3>3, <2>0, <1>b, <1>v, SMT
    <3> QED
      BY <3>1, <3>2, <3>3
  <2>2. view' \in [Node -> Nat]
    BY <2>0, <1>b, <1>v
  <2>3. \A y \in Node : view'[y] <= Len(log)
    BY <1>b, <1>v DEF RollInv, RollTypeOK, SyncOK
  <2>4. log' = log /\ synced' = synced
    BY DEF UpdateBlockNumber
  <2> QED
    BY <2>1, <2>2, <2>3, <2>4, <1>s DEF RollInv, RollTypeOK, SyncOK
<1>n. /\ RecordsOK'
      /\ \A t \in Trusts, m \in Miners :
           /\ nodes[t][m].known => nodes'[t][m].known /\ nodes'[t][m].last >= nodes[t][m].last
           /\ store[t][m].known => store'[t][m].known
           /\ t = x /\ log[b] = <<m, TRUE>> => nodes'[t][m].known /\ store'[t][m].known
  <2>r. \A t \in Trusts, m \in Miners : nodes[t][m] \in Record /\ store[t][m] \in Record
    BY DEF RollInv, RollTypeOK, RecordsOK
  <2>1. CASE x \in Trusts
    <3>1. /\ nodes' = [nodes EXCEPT ![x] = [m \in Miners |-> Miner(nodes[x][m], log[b], m, b)]]
          /\ store' = [store EXCEPT ![x] = [m \in Miners |->
               IF log[b] # NoEvent /\ log[b][1] = m THEN nodes'[x][m] ELSE store[x][m]]]
      BY <1>0, <2>1 DEF UpdateBlockNumber
    <3>2. /\ \A m \in Miners : nodes'[x][m] = Miner(nodes[x][m], log[b], m, b)
          /\ \A t \in Trusts : t # x => nodes'[t] = nodes[t] /\ store'[t] = store[t]
          /\ \A m \in Miners : store'[x][m] =
               IF log[b] # NoEvent /\ log[b][1] = m THEN nodes'[x][m] ELSE store[x][m]
      BY <3>1, <2>1 DEF RollInv, RollTypeOK, RecordsOK
    <3>3. ASSUME NEW m \in Miners
          PROVE  /\ nodes'[x][m] \in Record
                 /\ nodes[x][m].known => nodes'[x][m].known /\ nodes'[x][m].last >= nodes[x][m].last
                 /\ log[b] = <<m, TRUE>> => nodes'[x][m].known
      <4>1. nodes[x][m] \in Record
        BY <2>1, <2>r
      <4>2. nodes'[x][m] = Miner(nodes[x][m], log[b], m, b)
        BY <3>2, Zenon
      <4>3. /\ Miner(nodes[x][m], log[b], m, b) \in Record
            /\ Miner(nodes[x][m], log[b], m, b).last >= nodes[x][m].last \/ ~nodes[x][m].known
            /\ nodes[x][m].known => Miner(nodes[x][m], log[b], m, b).known
            /\ log[b] = <<m, TRUE>> => Miner(nodes[x][m], log[b], m, b).known
        <5> HIDE <3>2, <3>1
        <5> QED
          BY <4>1, <1>b, MinerKeeps, Zenon
      <4> QED
        BY <4>2, <4>3, Zenon
    <3>4. ASSUME NEW m \in Miners
          PROVE  /\ store'[x][m] \in Record
                 /\ store[x][m].known => store'[x][m].known
                 /\ log[b] = <<m, TRUE>> => store'[x][m].known
      <4>1. CASE log[b] # NoEvent /\ log[b][1] = m
        <5>1. Miner(nodes[x][m], log[b], m, b).known
          BY <4>1, <2>r, <2>1 DEF Miner, Record
        <5> QED
          <6>1. store'[x][m] = nodes'[x][m] /\ nodes'[x][m].known
            BY <5>1, <4>1, <3>2, Zenon
          <6> QED
            BY <6>1, <3>3, Zenon
      <4>2. CASE ~(log[b] # NoEvent /\ log[b][1] = m)
        <5>1. log[b] # <<m, TRUE>>
          BY <4>2, EventIsNot, Zenon
        <5> QED
          BY <5>1, <4>2, <3>2, <2>r, <2>1, Zenon
      <4> QED
        BY <4>1, <4>2, Zenon
    <3>5. RecordsOK'
      <4>1. /\ [m \in Miners |-> Miner(nodes[x][m], log[b], m, b)] \in [Miners -> Record]
            /\ [m \in Miners |-> IF log[b] # NoEvent /\ log[b][1] = m
                                 THEN nodes'[x][m] ELSE store[x][m]] \in [Miners -> Record]
        BY <3>2, <3>3, <3>4, Zenon
      <4> QED
        BY <4>1, <3>1, Zenon DEF RollInv, RollTypeOK, RecordsOK, UpdateBlockNumber
    <3>6. ASSUME NEW t \in Trusts, NEW m \in Miners, t # x
          PROVE  /\ nodes'[t][m] = nodes[t][m] /\ store'[t][m] = store[t][m]
                 /\ nodes[t][m].last >= nodes[t][m].last
      BY <3>6, <3>2, <2>r DEF Record
    <3> QED
      BY <3>3, <3>4, <3>5, <3>6, Zenon
  <2>2. CASE x \notin Trusts
    <3>1. nodes' = nodes /\ store' = store /\ roll' = roll
      BY <2>2 DEF UpdateBlockNumber
    <3>2. \A t \in Trusts, m \in Miners : nodes[t][m].last >= nodes[t][m].last
      BY <2>r DEF Record
    <3> QED
      BY <2>2, <3>1, <3>2, Zenon DEF RollInv, RollTypeOK, RecordsOK
  <2> QED
    BY <2>1, <2>2, Zenon
<1>3. MinersOK'
  BY DEF RollInv, RollTypeOK, MinersOK, minerVars, UpdateBlockNumber
<1>4. Known'
  <2>1. Activated'
    BY Zenon DEF RollInv, Known, Activated, UpdateBlockNumber
  <2> SUFFICES ASSUME NEW t \in Trusts, NEW m \in Miners PROVE KnownTo(t, m)'
    BY <2>1 DEF Known
  <2>2. KnownTo(t, m) /\ log' = log /\ synced' = synced
    BY DEF RollInv, Known, UpdateBlockNumber
  <2>3. ASSUME NEW i \in 1..view'[t], log[i] = <<m, TRUE>>
        PROVE  nodes'[t][m].known /\ store'[t][m].known
    <3>1. CASE i \in 1..view[t]
      BY <3>1, <2>2, <2>3, <1>n, Zenon DEF KnownTo
    <3>2. CASE i \notin 1..view[t]
      <4>1. t = x /\ i = b
        BY <3>2, <1>0, <1>v, <1>b DEF Node
      <4> QED
        BY <4>1, <2>3, <1>n
    <3> QED
      BY <3>1, <3>2
  <2> QED
    BY <2>2, <2>3, <1>n, Zenon DEF KnownTo
<1>5. Started'
  <2>1. \A m \in Miners : ~synced'[m] => upFrom'[m] = MaxBlock + 1
    BY DEF RollInv, Started, UpdateBlockNumber
  <2>2. \A t \in Trusts : ~synced'[t] => sig'[t] = <<>> /\ roll'[t] = 0
    BY <1>s DEF RollInv, Started, UpdateBlockNumber, Node
  <2>3. \A t \in Trusts : roll'[t] <= Len(log)'
    BY DEF RollInv, Started, UpdateBlockNumber
  <2>4. ASSUME NEW t \in Trusts, NEW i \in 1..Len(sig'[t])
        PROVE  sig'[t][i] \in 1..Len(log)
    <3>0. PICK h : h = sig'[t][i]
      OBVIOUS
    <3>1. h \in Nat /\ t \in Node
      BY <3>0, <1>s DEF Node
    <3>2. Signalled(t, h)'
      BY <3>0 DEF Signalled
    <3>3. Signalled(t, h) \/ h = b
      BY <3>1, <3>2, <1>g
    <3> QED
      BY <3>0, <3>3, <1>b DEF RollInv, Started, Signalled
  <2>5. log' = log
    BY DEF UpdateBlockNumber
  <2> QED
    BY <2>1, <2>2, <2>3, <2>4, <2>5 DEF Started
<1>6. Answered'
  <2>0. /\ log' = log /\ synced' = synced /\ roll' = roll /\ todo' = todo /\ upFrom' = upFrom
    BY DEF UpdateBlockNumber, minerVars
  <2> SUFFICES ASSUME NEW t \in Trusts, NEW m \in Miners, NEW h \in 1..Len(log),
                      Due(t, h)', Passed(m, h)'
               PROVE  Answer(t, m, h)'
    BY <2>0 DEF Answered
  <2>1. t \in Node /\ m \in Node /\ h \in Nat
    BY <1>b DEF Node
  <2>2. Due(t, h)
    <3>1. h > view'[t] => h > view[t]
      BY <1>v, <2>1
    <3>2. t = x /\ h = b => h > view[t]
      BY <1>0, <1>b
    <3> QED
      BY <3>1, <3>2, <2>0, <2>1, <1>g DEF Due
  <2>3. CASE h <= view[m]
    <3>1. Answer(t, m, h)
      BY <2>0, <2>2, <2>3 DEF RollInv, Answered, Passed
    <3>2. nodes[t][m].last >= h => nodes'[t][m].last >= h
      <4>1. nodes[t][m].known
        BY <2>2, Zenon DEF RollInv, Known, KnownTo, Due
      <4>2. nodes'[t][m].last >= nodes[t][m].last
        BY <4>1, <1>n, Zenon
      <4>3. nodes[t][m].last \in Nat /\ nodes'[t][m].last \in Nat
        BY <1>n DEF RollInv, RollTypeOK, RecordsOK, Record
      <4> QED
        BY <4>2, <4>3, <2>1
    <3> QED
      BY <3>1, <3>2, <2>0, <2>1, <1>g DEF Answer
  <2>4. CASE ~(h <= view[m])
    <3>1. m = x /\ h = b
      BY <2>4, <2>1, <1>0, <1>v, <1>b DEF Passed
    <3>2. synced[m]
      BY <3>1, <2>0, <1>b, <2>1 DEF Passed, RollInv, Started, RollTypeOK, SyncOK
    <3> QED
      BY <3>1, <3>2, <2>1, <1>g DEF Answer
  <2> QED
    BY <2>3, <2>4
<1> QED
  BY <1>1, <1>n, <1>3, <1>4, <1>5, <1>6 DEF RollInv, RollTypeOK, UpdateBlockNumber

LEMMA StartKeeps ==
  ASSUME RollInv, NEW x \in Node, StartRollCalls(x)
  PROVE  RollInv'
<1>0. /\ UNCHANGED <<log, view, prev, sig, nodes, store, roll, todo, rollCalls, wronged>>
      /\ synced' = [synced EXCEPT ![x] = TRUE] /\ view[x] = Len(log)
      /\ upFrom' = [m \in Miners |-> IF m = x THEN Len(log) + 1 ELSE upFrom[m]]
  BY DEF StartRollCalls, recordVars, minerVars
<1>l. Len(log) \in Nat /\ \A y \in Node : view[y] \in Nat /\ view[y] <= Len(log)
  BY DEF RollInv, RollTypeOK, SyncOK
<1>s. /\ synced' \in [Node -> BOOLEAN] /\ synced'[x] = TRUE
      /\ \A y \in Node : y # x => synced'[y] = synced[y]
  BY <1>0 DEF RollInv, RollTypeOK, SyncOK
<1>1. SyncOK'
  BY <1>0, <1>s, Zenon DEF RollInv, RollTypeOK, SyncOK
<1>2. RecordsOK'
  BY <1>0, Zenon DEF RollInv, RollTypeOK, RecordsOK
<1>3. MinersOK'
  <2>1. upFrom' \in [Miners -> Nat]
    BY <1>0, <1>l DEF RollInv, RollTypeOK, MinersOK
  <2> QED
    BY <2>1, <1>0 DEF RollInv, RollTypeOK, MinersOK
<1>4. Known'
  <2>1. Activated'
    BY <1>0, Zenon DEF RollInv, Known, Activated
  <2> SUFFICES ASSUME NEW t \in Trusts, NEW m \in Miners PROVE KnownTo(t, m)'
    BY <2>1 DEF Known
  <2>2. KnownTo(t, m)
    BY DEF RollInv, Known
  <2>3. t = x => nodes[t][m].known
    <3>1. PICK i \in 1..Len(log) : log[i] = <<m, TRUE>>
      BY Zenon DEF RollInv, Known, Activated
    <3> QED
      BY <3>1, <2>2, <1>0, Zenon DEF KnownTo
  <2> QED
    BY <2>2, <2>3, <1>0, <1>s, Zenon DEF KnownTo, Node
<1>5. Started'
  <2>1. ASSUME NEW m \in Miners, ~synced'[m] PROVE upFrom'[m] = MaxBlock + 1
    <3>1. m # x /\ m \in Node
      BY <2>1, <1>s DEF Node
    <3>2. ~synced[m] /\ upFrom'[m] = upFrom[m]
      BY <2>1, <3>1, <1>s, <1>0
    <3> QED
      BY <3>2 DEF RollInv, Started
  <2>2. \A t \in Trusts : ~synced'[t] => ~synced[t]
    BY <1>s, Zenon DEF Node
  <2> QED
    BY <2>1, <2>2, <1>0, Zenon DEF RollInv, Started
<1>6. Answered'
  <2> SUFFICES ASSUME NEW t \in Trusts, NEW m \in Miners, NEW h \in 1..Len(log),
                      Due(t, h)', Passed(m, h)'
               PROVE  Answer(t, m, h)'
    BY <1>0 DEF Answered
  <2>1. t \in Node /\ m \in Node /\ h \in Nat
    BY <1>l DEF Node
  <2>2. upFrom[m] <= h /\ h <= view[m]
    BY <2>1, <1>0, <1>l DEF Passed
  <2>3. synced[t]
    <3> SUFFICES ASSUME ~synced[t] PROVE FALSE
      OBVIOUS
    <3>1. sig[t] = <<>> /\ roll[t] = 0
      BY DEF RollInv, Started
    <3>2. t = x
      BY <2>1, <1>s DEF Due
    <3>3. ~(h > view[t])
      BY <3>2, <1>0, <1>l
    <3>4. ~Signalled(t, h)
      BY <3>1 DEF Signalled
    <3>5. h # 0
      BY <1>l
    <3> QED
      BY <3>1, <3>3, <3>4, <3>5, <1>0, Zenon DEF Due, Signalled
  <2>4. Due(t, h) /\ Passed(m, h)
    BY <2>2, <2>3, <1>0, Zenon DEF Due, Passed, Signalled
  <2>5. Answer(t, m, h)
    BY <2>4, Zenon DEF RollInv, Answered
  <2> QED
    BY <2>5, <1>0, Zenon DEF Answer, Signalled
<1> QED
  BY <1>0, <1>1, <1>2, <1>3, <1>4, <1>5, <1>6, Zenon DEF RollInv, RollTypeOK

\* Taking a signal from the channel of a node.
LEMMA Taken ==
  ASSUME RollInv, NEW x \in Node, sig[x] # <<>>, sig' = [sig EXCEPT ![x] = Tail(@)]
  PROVE  /\ sig' \in [Node -> Seq(Nat)] /\ Head(sig[x]) \in Nat /\ Signalled(x, Head(sig[x]))
         /\ \A y \in Node, h \in Nat : Signalled(y, h)' => Signalled(y, h)
         /\ \A y \in Node, h \in Nat :
              Signalled(y, h) => Signalled(y, h)' \/ (y = x /\ h = Head(sig[x]))
<1>1. sig \in [Node -> Seq(Nat)] /\ sig[x] \in Seq(Nat)
  BY DEF RollInv, RollTypeOK, SyncOK
<1>2. /\ Tail(sig[x]) \in Seq(Nat) /\ Head(sig[x]) \in Nat /\ Len(sig[x]) >= 1
      /\ sig[x][1] = Head(sig[x])
      /\ \A h : (\E i \in 1..Len(sig[x]) : sig[x][i] = h)
           => h = Head(sig[x]) \/ \E i \in 1..Len(Tail(sig[x])) : Tail(sig[x])[i] = h
      /\ \A i \in 1..Len(Tail(sig[x])) : \E j \in 1..Len(sig[x]) : sig[x][j] = Tail(sig[x])[i]
  BY <1>1, TailHas, Zenon
<1>3. sig' \in [Node -> Seq(Nat)] /\ sig'[x] = Tail(sig[x])
      /\ \A y \in Node : y # x => sig'[y] = sig[y]
  BY <1>1, <1>2
<1>4. Signalled(x, Head(sig[x]))
  <2>1. 1 \in 1..Len(sig[x])
    BY <1>1, <1>2
  <2> QED
    BY <2>1, <1>2, Zenon DEF Signalled
<1>5. ASSUME NEW y \in Node, NEW h \in Nat, Signalled(y, h)' PROVE Signalled(y, h)
  <2>1. CASE y = x
    <3>1. PICK i \in 1..Len(Tail(sig[x])) : Tail(sig[x])[i] = h
      BY <2>1, <1>5, <1>3, Zenon DEF Signalled
    <3>2. PICK j \in 1..Len(sig[x]) : sig[x][j] = Tail(sig[x])[i]
      BY <1>2, Zenon
    <3> QED
      BY <2>1, <3>1, <3>2, Zenon DEF Signalled
  <2>2. CASE y # x
    BY <2>2, <1>5, <1>3, Zenon DEF Signalled
  <2> QED
    BY <2>1, <2>2
<1>6. ASSUME NEW y \in Node, NEW h \in Nat, Signalled(y, h)
      PROVE  Signalled(y, h)' \/ (y = x /\ h = Head(sig[x]))
  <2>1. CASE y = x
    BY <2>1, <1>6, <1>2, <1>3, Zenon DEF Signalled
  <2>2. CASE y # x
    BY <2>2, <1>6, <1>3, Zenon DEF Signalled
  <2> QED
    BY <2>1, <2>2
<1> QED
  BY <1>2, <1>3, <1>4, <1>5, <1>6, Zenon

\* Signals of a trust node name blocks of the chain.
LEMMA SignalsNameBlocks ==
  ASSUME RollInv, sig' \in [Node -> Seq(Nat)], log' = log, NEW t \in Trusts,
         \A h \in Nat : Signalled(t, h)' => Signalled(t, h)
  PROVE  \A i \in 1..Len(sig'[t]) : sig'[t][i] \in 1..Len(log)'
<1> SUFFICES ASSUME NEW i \in 1..Len(sig'[t]) PROVE sig'[t][i] \in 1..Len(log)
  BY Zenon
<1>1. PICK h : h = sig'[t][i]
  OBVIOUS
<1>2. h \in Nat
  BY <1>1 DEF Node
<1>3. Signalled(t, h)'
  BY <1>1, Zenon DEF Signalled
<1>4. Signalled(t, h)
  BY <1>2, <1>3, Zenon
<1> QED
  BY <1>1, <1>4, Zenon DEF RollInv, Started, Signalled

LEMMA PushKeeps ==
  ASSUME RollInv, NEW t \in Trusts, PushRollCall(t)
  PROVE  RollInv'
<1>0. /\ UNCHANGED <<log, view, synced, prev, nodes, store, todo, upFrom, wronged>>
      /\ sig[t] # <<>> /\ sig' = [sig EXCEPT ![t] = Tail(@)]
      /\ roll' = [roll EXCEPT ![t] = Head(sig[t])]
      /\ rollCalls' = rollCalls \cup Flood(Miners, t, Head(sig[t]))
  BY Zenon DEF PushRollCall, minerVars
<1>t. t \in Node
  BY DEF Node
<1>g. /\ sig' \in [Node -> Seq(Nat)] /\ Head(sig[t]) \in Nat /\ Signalled(t, Head(sig[t]))
      /\ \A y \in Node, h \in Nat : Signalled(y, h)' => Signalled(y, h)
      /\ \A y \in Node, h \in Nat :
           Signalled(y, h) => Signalled(y, h)' \/ (y = t /\ h = Head(sig[t]))
  BY <1>0, <1>t, Taken, Zenon
<1>r. /\ roll' \in [Trusts -> Nat] /\ roll'[t] = Head(sig[t])
      /\ \A s \in Trusts : s # t => roll'[s] = roll[s]
  BY <1>0, <1>g DEF RollInv, RollTypeOK, RecordsOK
<1>h. Head(sig[t]) \in 1..Len(log) /\ Len(log) \in Nat
  BY <1>g DEF RollInv, RollTypeOK, SyncOK, Started, Signalled
<1>1. SyncOK'
  BY <1>0, <1>g, Zenon DEF RollInv, RollTypeOK, SyncOK
<1>2. RecordsOK'
  BY <1>0, <1>r, Zenon DEF RollInv, RollTypeOK, RecordsOK
<1>3. MinersOK'
  BY <1>0, <1>g DEF RollInv, RollTypeOK, MinersOK, Flood
<1>4. Known'
  BY <1>0, Zenon DEF RollInv, Known, KnownTo, Activated
<1>5. Started'
  <2>1. \A s \in Trusts : ~synced'[s] => sig'[s] = <<>> /\ roll'[s] = 0
    <3> SUFFICES ASSUME NEW s \in Trusts, ~synced[s] PROVE sig'[s] = <<>> /\ roll'[s] = 0
      BY <1>0, Zenon
    <3>1. sig[s] = <<>> /\ roll[s] = 0 /\ s # t
      BY <1>0, Zenon DEF RollInv, Started
    <3> QED
      BY <3>1, <1>0, <1>r DEF RollInv, RollTypeOK, SyncOK, Node
  <2>2. \A s \in Trusts : roll'[s] <= Len(log)
    BY <1>r, <1>h DEF RollInv, Started
  <2>3. \A s \in Trusts : \A i \in 1..Len(sig'[s]) : sig'[s][i] \in 1..Len(log)'
    BY <1>0, <1>g, SignalsNameBlocks, Zenon DEF Node
  <2> QED
    BY <2>1, <2>2, <2>3, <1>0, Zenon DEF RollInv, Started
<1>6. Answered'
  <2> SUFFICES ASSUME NEW s \in Trusts, NEW m \in Miners, NEW h \in 1..Len(log),
                      Due(s, h)', Passed(m, h)'
               PROVE  Answer(s, m, h)'
    BY <1>0, Zenon DEF Answered
  <2>1. s \in Node /\ m \in Node /\ h \in Nat /\ m # t
    BY <1>h, RollCallAssumption DEF Node
  <2>2. Due(s, h)
    BY <1>0, <1>g, <1>r, <2>1, Zenon DEF Due
  <2>3. Answer(s, m, h)
    BY <1>0, <2>2, Zenon DEF RollInv, Answered, Passed
  <2> QED
    BY <1>0, <1>g, <2>1, <2>3, Zenon DEF Answer
<1> QED
  BY <1>0, <1>1, <1>2, <1>3, <1>4, <1>5, <1>6, Zenon DEF RollInv, RollTypeOK

\* Steps that leave the nodes' signals, roll calls and records alone, and only
\* add answers to give.
LEMMA MoreToAnswer ==
  ASSUME RollInv, UNCHANGED <<log, view, synced, prev, sig, nodes, store, roll, upFrom, wronged>>,
         MinersOK', \A m \in Miners : todo[m] \subseteq todo'[m]
  PROVE  RollInv'
<1>1. SyncOK' /\ RecordsOK'
  BY Zenon DEF RollInv, RollTypeOK, SyncOK, RecordsOK
<1>2. Known'
  BY Zenon DEF RollInv, Known, KnownTo, Activated
<1>3. Started'
  BY Zenon DEF RollInv, Started
<1>4. Answered'
  BY Zenon DEF RollInv, Answered, Due, Passed, Answer, Signalled
<1> QED
  BY <1>1, <1>2, <1>3, <1>4, Zenon DEF RollInv, RollTypeOK

LEMMA NotifyKeeps ==
  ASSUME RollInv, NEW a \in rollCalls, NotifyTrustRollCall(a[1], a[2], a[3])
  PROVE  RollInv'
<1>1. /\ UNCHANGED <<log, view, synced, prev, sig, nodes, store, roll, upFrom, wronged>>
  BY Zenon DEF NotifyTrustRollCall, syncVars, recordVars
<1>2. a[1] \in Miners /\ a[2] \in Trusts /\ a[3] \in Nat
  BY DEF RollInv, RollTypeOK, MinersOK
<1>3. /\ rollCalls \subseteq Miners \X Trusts \X Nat
      /\ todo \in [Miners -> SUBSET (Trusts \X Nat)]
      /\ upFrom \in [Miners -> Nat]
  BY Zenon DEF RollInv, RollTypeOK, MinersOK
<1>4. CASE todo' = todo /\ rollCalls' \subseteq rollCalls
  <2>1. MinersOK'
    BY <1>1, <1>3, <1>4, Zenon DEF MinersOK
  <2> QED
    BY <2>1, <1>1, <1>4, MoreToAnswer, Zenon
<1>5. CASE /\ todo' = [todo EXCEPT ![a[1]] = @ \cup {<<a[2], a[3]>>}]
           /\ rollCalls' \subseteq rollCalls \cup Flood(Miners \ {a[1]}, a[2], a[3])
  <2>1. todo' \in [Miners -> SUBSET (Trusts \X Nat)] /\ \A m \in Miners : todo[m] \subseteq todo'[m]
    BY <1>2, <1>3, <1>5
  <2>2. Flood(Miners \ {a[1]}, a[2], a[3]) \subseteq Miners \X Trusts \X Nat
    BY <1>2 DEF Flood
  <2>3. MinersOK'
    BY <2>1, <2>2, <1>1, <1>3, <1>5, Zenon DEF MinersOK
  <2> QED
    BY <2>1, <2>3, <1>1, MoreToAnswer, Zenon
<1>6. \/ todo' = todo /\ rollCalls' \subseteq rollCalls
      \/ /\ todo' = [todo EXCEPT ![a[1]] = @ \cup {<<a[2], a[3]>>}]
         /\ rollCalls' \subseteq rollCalls \cup Flood(Miners \ {a[1]}, a[2], a[3])
  BY Zenon DEF NotifyTrustRollCall, minerVars
<1> QED
  BY <1>4, <1>5, <1>6, Zenon

LEMMA OtherKeeps ==
  ASSUME RollInv, NEW m \in Miners, OtherRollCall(m)
  PROVE  RollInv'
<1>1. UNCHANGED <<log, view, synced, prev, sig, nodes, store, roll, upFrom, wronged, todo, rollCalls>>
  BY Zenon DEF OtherRollCall, syncVars, recordVars
<1>2. MinersOK'
  BY <1>1, Zenon DEF RollInv, RollTypeOK, MinersOK
<1> QED
  BY <1>1, <1>2, MoreToAnswer, Zenon

LEMMA CheckSelfKeeps ==
  ASSUME RollInv, NEW m \in Miners, CheckSelfTrustRollCall(m)
  PROVE  RollInv'
<1>0. /\ UNCHANGED <<log, view, synced, prev, nodes, store, roll, rollCalls, upFrom, wronged>>
      /\ sig[m] # <<>> /\ sig' = [sig EXCEPT ![m] = Tail(@)]
      /\ todo' = [todo EXCEPT ![m] = @ \cup {<<t, Head(sig[m])>> : t \in Trusts}]
  BY Zenon DEF CheckSelfTrustRollCall, recordVars
<1>t. m \in Node
  BY DEF Node
<1>g. /\ sig' \in [Node -> Seq(Nat)] /\ Head(sig[m]) \in Nat
      /\ \A y \in Node, h \in Nat : Signalled(y, h)' => Signalled(y, h)
      /\ \A y \in Node, h \in Nat :
           Signalled(y, h) => Signalled(y, h)' \/ (y = m /\ h = Head(sig[m]))
  BY <1>0, <1>t, Taken, Zenon
<1>d. /\ todo' \in [Miners -> SUBSET (Trusts \X Nat)]
      /\ \A n \in Miners : todo[n] \subseteq todo'[n]
      /\ \A t \in Trusts : <<t, Head(sig[m])>> \in todo'[m]
  BY <1>0, <1>g DEF RollInv, RollTypeOK, MinersOK
<1>1. SyncOK'
  BY <1>0, <1>g, Zenon DEF RollInv, RollTypeOK, SyncOK
<1>2. RecordsOK'
  BY <1>0, Zenon DEF RollInv, RollTypeOK, RecordsOK
<1>3. MinersOK'
  BY <1>0, <1>d, Zenon DEF RollInv, RollTypeOK, MinersOK
<1>4. Known'
  BY <1>0, Zenon DEF RollInv, Known, KnownTo, Activated
<1>s. \A t \in Trusts : t \in Node /\ t # m /\ sig'[t] = sig[t]
  BY <1>0, RollCallAssumption DEF RollInv, RollTypeOK, SyncOK, Node
<1>5. Started'
  BY <1>0, <1>s, Zenon DEF RollInv, Started
<1>6. Answered'
  <2> SUFFICES ASSUME NEW t \in Trusts, NEW n \in Miners, NEW h \in 1..Len(log),
                      Due(t, h)', Passed(n, h)'
               PROVE  Answer(t, n, h)'
    BY <1>0, Zenon DEF Answered
  <2>1. t \in Node /\ n \in Node /\ h \in Nat
    BY DEF Node, RollInv, RollTypeOK, SyncOK
  <2>2. Due(t, h)
    BY <1>0, <1>g, <2>1, Zenon DEF Due
  <2>3. Answer(t, n, h)
    BY <1>0, <2>2, Zenon DEF RollInv, Answered, Passed
  <2> QED
    BY <1>0, <1>g, <1>d, <2>1, <2>3, Zenon DEF Answer
<1> QED
  BY <1>0, <1>1, <1>2, <1>3, <1>4, <1>5, <1>6, Zenon DEF RollInv, RollTypeOK

\* A trust node counts an answer for a miner it knows.
LEMMA LastCounts ==
  ASSUME NEW r \in Record, NEW h \in Nat
  PROVE  /\ UpdateNodeLastBlock(r, h) \in Record
         /\ UpdateNodeLastBlock(r, h).known = r.known
         /\ UpdateNodeLastBlock(r, h).last >= r.last
         /\ r.known => UpdateNodeLastBlock(r, h).last >= h
<1>0. r.last \in Nat
  BY SMT DEF Record
<1>1. CASE r.known /\ r.last < h
  <2>1. UpdateNodeLastBlock(r, h) = [r EXCEPT !.last = h]
    BY <1>1, Zenon DEF UpdateNodeLastBlock
  <2>2. [r EXCEPT !.last = h] \in Record
    BY SMT DEF Record
  <2>3. [r EXCEPT !.last = h].known = r.known
    BY SMT DEF Record
  <2>4. [r EXCEPT !.last = h].last = h
    BY SMT DEF Record
  <2>5. h >= r.last /\ h >= h
    BY <1>0, <1>1, SMT
  <2> QED
    BY <2>1, <2>2, <2>3, <2>4, <2>5, Zenon
<1>2. CASE ~(r.known /\ r.last < h)
  <2>1. UpdateNodeLastBlock(r, h) = r
    BY <1>2, Zenon DEF UpdateNodeLastBlock
  <2>2. r.last >= r.last
    BY <1>0, SMT
  <2>3. ~(r.last < h) => r.last >= h
    BY <1>0, SMT
  <2> QED
    BY <2>1, <2>2, <2>3, <1>2, Zenon
<1> QED
  BY <1>1, <1>2, Zenon

\* Steps that change the records of trust nodes in memory so that no miner is
\* forgotten and no answer is lost, and leave the rest of a node alone.
LEMMA RecordsKeep ==
  ASSUME RollInv, SyncOK', RecordsOK', MinersOK', Activated',
         UNCHANGED <<view, synced, sig, store, upFrom, wronged>>,
         Len(log)' >= Len(log), \A i \in 1..Len(log) : log'[i] = log[i],
         \A t \in Trusts : roll'[t] = roll[t] \/ roll'[t] = 0,
         \A t \in Trusts, m \in Miners :
           /\ nodes[t][m].known => nodes'[t][m].known
           /\ nodes'[t][m].last >= nodes[t][m].last,
         \A m \in Miners : \A a \in todo[m] :
           \/ a \in todo'[m]
           \/ nodes[a[1]][m].known => nodes'[a[1]][m].last >= a[2]
  PROVE  RollInv'
<1>l. Len(log) \in Nat /\ Len(log)' \in Nat /\ \A x \in Node : view[x] \in Nat /\ view[x] <= Len(log)
  BY DEF RollInv, RollTypeOK, SyncOK
<1>1. Known'
  <2> SUFFICES ASSUME NEW t \in Trusts, NEW m \in Miners PROVE KnownTo(t, m)'
    BY Zenon DEF Known
  <2>1. KnownTo(t, m)
    BY Zenon DEF RollInv, Known
  <2>2. \A i \in 1..view[t] : log'[i] = log[i]
    BY <1>l DEF Node
  <2> QED
    BY <2>1, <2>2, Zenon DEF KnownTo
<1>2. Started'
  <2>1. \A t \in Trusts : ~synced'[t] => sig'[t] = <<>> /\ roll'[t] = 0
    BY Zenon DEF RollInv, Started
  <2>2. \A t \in Trusts : roll'[t] <= Len(log)'
    <3> SUFFICES ASSUME NEW t \in Trusts PROVE roll'[t] <= Len(log)'
      BY Zenon
    <3>1. roll[t] <= Len(log) /\ roll[t] \in Nat /\ (roll'[t] = roll[t] \/ roll'[t] = 0)
      BY DEF RollInv, RollTypeOK, RecordsOK, Started
    <3>2. Len(log) <= Len(log)' /\ Len(log) \in Nat /\ Len(log)' \in Nat
      BY <1>l
    <3> QED
      BY <3>1, <3>2, SMT
  <2>3. \A t \in Trusts : \A i \in 1..Len(sig[t]) : sig[t][i] \in 1..Len(log)'
    BY <1>l DEF RollInv, Started
  <2> QED
    BY <2>1, <2>2, <2>3, Zenon DEF RollInv, Started
<1>3. Answered'
  <2> SUFFICES ASSUME NEW t \in Trusts, NEW m \in Miners, NEW h \in 1..Len(log)',
                      Due(t, h)', Passed(m, h)'
               PROVE  Answer(t, m, h)'
    BY Zenon DEF Answered
  <2>1. h \in 1..Len(log) /\ h \in Nat /\ h # 0
    BY <1>l DEF Passed, Node
  <2>2. Due(t, h) /\ Passed(m, h)
    BY <2>1, Zenon DEF Due, Passed, Signalled
  <2>3. Answer(t, m, h)
    BY <2>1, <2>2, Zenon DEF RollInv, Answered
  <2>4. nodes[t][m].known
    BY <2>2, Zenon DEF Due, RollInv, Known, KnownTo
  <2>5. CASE Signalled(m, h)
    BY <2>5, Zenon DEF Answer, Signalled
  <2>6. CASE <<t, h>> \in todo[m]
    BY <2>4, <2>6 DEF Answer
  <2>7. CASE nodes[t][m].last >= h
    <3>0. nodes[t][m] \in Record /\ nodes'[t][m] \in Record
      BY Zenon DEF RollInv, RollTypeOK, RecordsOK
    <3>1. nodes[t][m].last \in Nat /\ nodes'[t][m].last \in Nat
      BY <3>0, Zenon DEF Record
    <3>a. nodes'[t][m].last >= nodes[t][m].last
      BY Zenon
    <3>2. nodes'[t][m].last >= h
      BY <3>a, <3>1, <2>1, <2>7, SMT
    <3> QED
      BY <3>2, Zenon DEF Answer
  <2> QED
    BY <2>3, <2>5, <2>6, <2>7, Zenon DEF Answer
<1> QED
  BY <1>1, <1>2, <1>3, Zenon DEF RollInv, RollTypeOK

LEMMA SignKeeps ==
  ASSUME RollInv, NEW m \in Miners, NEW a \in todo[m], SignRollCallToTrust(m, a[1], a[2])
  PROVE  RollInv'
<1>0. /\ UNCHANGED <<log, view, synced, prev, sig, store, roll, rollCalls, upFrom, wronged>>
      /\ todo' = [todo EXCEPT ![m] = @ \ {<<a[1], a[2]>>}]
      /\ nodes' = [nodes EXCEPT ![a[1]][m] = UpdateNodeLastBlock(@, a[2])]
  BY Zenon DEF SignRollCallToTrust, NotifyTrustRollCallSign, syncVars
<1>a. a[1] \in Trusts /\ a[2] \in Nat /\ a = <<a[1], a[2]>>
  BY DEF RollInv, RollTypeOK, MinersOK
<1>r. \A t \in Trusts, n \in Miners : nodes[t][n] \in Record /\ nodes[t][n].last \in Nat
  BY DEF RollInv, RollTypeOK, RecordsOK, Record
<1>u. /\ UpdateNodeLastBlock(nodes[a[1]][m], a[2]) \in Record
      /\ UpdateNodeLastBlock(nodes[a[1]][m], a[2]).known = nodes[a[1]][m].known
      /\ UpdateNodeLastBlock(nodes[a[1]][m], a[2]).last >= nodes[a[1]][m].last
      /\ nodes[a[1]][m].known => UpdateNodeLastBlock(nodes[a[1]][m], a[2]).last >= a[2]
  BY <1>a, <1>r, LastCounts, Zenon
<1>n. /\ nodes' \in [Trusts -> [Miners -> Record]]
      /\ nodes'[a[1]][m] = UpdateNodeLastBlock(nodes[a[1]][m], a[2])
      /\ \A t \in Trusts, n \in Miners : ~(t = a[1] /\ n = m) => nodes'[t][n] = nodes[t][n]
  BY <1>0, <1>a, <1>u DEF RollInv, RollTypeOK, RecordsOK
<1>1. SyncOK' /\ RecordsOK' /\ Activated'
  BY <1>0, <1>n, Zenon DEF RollInv, RollTypeOK, SyncOK, RecordsOK, Known, Activated
<1>2. MinersOK'
  BY <1>0 DEF RollInv, RollTypeOK, MinersOK
<1>3. ASSUME NEW t \in Trusts, NEW n \in Miners
      PROVE  /\ nodes[t][n].known => nodes'[t][n].known
             /\ nodes'[t][n].last >= nodes[t][n].last
  <2>1. CASE t = a[1] /\ n = m
    BY <2>1, <1>n, <1>u, Zenon
  <2>2. CASE ~(t = a[1] /\ n = m)
    <3>1. nodes'[t][n] = nodes[t][n]
      BY <2>2, <1>n, Zenon
    <3>2. nodes[t][n].last >= nodes[t][n].last
      BY <1>r, SMT
    <3> QED
      BY <3>1, <3>2, Zenon
  <2> QED
    BY <2>1, <2>2
<1>4. ASSUME NEW n \in Miners, NEW c \in todo[n]
      PROVE  \/ c \in todo'[n]
             \/ nodes[c[1]][n].known => nodes'[c[1]][n].last >= c[2]
  <2>1. CASE n = m /\ c = a
    BY <2>1, <1>n, <1>u, Zenon
  <2>2. CASE ~(n = m /\ c = a)
    BY <2>2, <1>0, <1>a DEF RollInv, RollTypeOK, MinersOK
  <2> QED
    BY <2>1, <2>2
<1>5. Len(log)' >= Len(log)
  BY <1>0 DEF RollInv, RollTypeOK, SyncOK
<1> QED
  BY <1>0, <1>1, <1>2, <1>3, <1>4, <1>5, RecordsKeep, Zenon

LEMMA CheckExpireKeeps ==
  ASSUME RollInv, NEW t \in Trusts, CheckExpireMiners(t)
  PROVE  RollInv'
<1>0. /\ UNCHANGED <<view, synced, prev, sig, store, seen, todo, rollCalls, upFrom>>
      /\ roll' = [roll EXCEPT ![t] = 0] /\ roll[t] # 0 /\ Prompt(t)
      /\ wronged' = wronged \cup {m \in Expired(t) : upFrom[m] <= roll[t]}
  BY Zenon DEF CheckExpireMiners, syncVars, minerVars
<1>e. nodes' = [nodes EXCEPT ![t] =
        [m \in Miners |-> [nodes[t][m] EXCEPT !.inaction = @ \/ m \in Expired(t)]]]
  BY Zenon DEF CheckExpireMiners
<1>r. \A s \in Trusts, m \in Miners : nodes[s][m] \in Record /\ nodes[s][m].last \in Nat
  BY DEF RollInv, RollTypeOK, RecordsOK, Record
<1>v. roll[t] \in Nat /\ view[t] \in Nat /\ Len(log) \in Nat
  BY DEF RollInv, RollTypeOK, RecordsOK, SyncOK, Node
<1>w. wronged' = {}
  <2> SUFFICES ASSUME NEW m \in Expired(t), upFrom[m] <= roll[t] PROVE FALSE
    BY <1>0, Zenon DEF RollInv
  <2>1. m \in Miners /\ nodes[t][m].last + ExpireAfter < view[t]
    BY Zenon DEF Expired
  <2>2. /\ view[t] <= roll[t] + 1 /\ view[m] >= roll[t] /\ sig[m] = <<>>
        /\ \A a \in todo[m] : a[1] # t
    BY <1>0, <2>1, Zenon DEF Prompt
  <2>3. roll[t] \in 1..Len(log)
    BY <1>0, <1>v DEF RollInv, Started
  <2>4. Due(t, roll[t])
    BY <1>0, Zenon DEF Due, RollInv, Started
  <2>5. Passed(m, roll[t])
    BY <2>1, <2>2, <1>v DEF Passed, RollInv, RollTypeOK, SyncOK, Node
  <2>6. Answer(t, m, roll[t])
    BY <2>1, <2>3, <2>4, <2>5, Zenon DEF RollInv, Answered
  <2>7. ~Signalled(m, roll[t])
    BY <2>2 DEF Signalled
  <2>8. <<t, roll[t]>> \notin todo[m]
    BY <2>2
  <2>9. nodes[t][m].last >= roll[t]
    BY <2>6, <2>7, <2>8, Zenon DEF Answer
  <2> QED
    BY <2>1, <2>2, <2>9, <1>r, <1>v, RollCallAssumption
<1>n. /\ RecordsOK'
      /\ \A s \in Trusts, m \in Miners :
           nodes'[s][m].known = nodes[s][m].known /\ nodes'[s][m].last = nodes[s][m].last
  <2>1. ASSUME NEW m \in Miners
        PROVE  /\ [nodes[t][m] EXCEPT !.inaction = @ \/ m \in Expired(t)] \in Record
               /\ [nodes[t][m] EXCEPT !.inaction = @ \/ m \in Expired(t)].known = nodes[t][m].known
               /\ [nodes[t][m] EXCEPT !.inaction = @ \/ m \in Expired(t)].last = nodes[t][m].last
    <3>1. (nodes[t][m].inaction \/ m \in Expired(t)) \in BOOLEAN
      BY Zenon
    <3>2. nodes[t][m] \in Record
      BY <1>r, Zenon
    <3> QED
      BY <3>1, <3>2, Zenon DEF Record
  <2>2. /\ \A m \in Miners :
             nodes'[t][m] = [nodes[t][m] EXCEPT !.inaction = @ \/ m \in Expired(t)]
        /\ \A s \in Trusts : s # t => nodes'[s] = nodes[s]
    BY <1>e, Zenon DEF RollInv, RollTypeOK, RecordsOK
  <2>3. nodes' \in [Trusts -> [Miners -> Record]]
    BY <1>e, <2>1, Zenon DEF RollInv, RollTypeOK, RecordsOK
  <2>4. roll' \in [Trusts -> Nat]
    BY <1>0 DEF RollInv, RollTypeOK, RecordsOK
  <2>5. RecordsOK'
    BY <1>0, <2>3, <2>4, Zenon DEF RollInv, RollTypeOK, RecordsOK
  <2>6. ASSUME NEW s \in Trusts, NEW m \in Miners
        PROVE  nodes'[s][m].known = nodes[s][m].known /\ nodes'[s][m].last = nodes[s][m].last
    <3>1. CASE s = t
      <4>1. nodes'[s][m] = [nodes[t][m] EXCEPT !.inaction = @ \/ m \in Expired(t)]
        BY <3>1, <2>2, Zenon
      <4> QED
        BY <4>1, <3>1, <2>1, Zenon
    <3>2. CASE s # t
      BY <3>2, <2>2, Zenon
    <3> QED
      BY <3>1, <3>2, Zenon
  <2> QED
    BY <2>5, <2>6, Zenon
<1>g. \A s \in Trusts, m \in Miners :
        /\ nodes[s][m].known => nodes'[s][m].known
        /\ nodes'[s][m].last >= nodes[s][m].last
  <2>1. \A s \in Trusts, m \in Miners : nodes[s][m].last >= nodes[s][m].last
    BY <1>r, SMT
  <2> QED
    BY <1>n, <2>1, Zenon
<1>l. \A s \in Trusts : roll'[s] = roll[s] \/ roll'[s] = 0
  BY <1>0 DEF RollInv, RollTypeOK, RecordsOK
<1>c. wronged' = wronged
  BY <1>w, Zenon DEF RollInv
<1>1. CASE log' = log
  <2>1. SyncOK' /\ MinersOK' /\ Activated'
    BY <1>0, <1>1, Zenon DEF RollInv, RollTypeOK, SyncOK, MinersOK, Known, Activated
  <2>2. Len(log)' >= Len(log)
    BY <1>1, <1>v
  <2> QED
    BY <1>0, <1>1, <1>n, <1>g, <1>l, <1>c, <2>1, <2>2, RecordsKeep, Zenon
<1>2. CASE Expired(t) # {} /\ Inactives(Expired(t))
  <2>1. PICK m \in Expired(t) : log' = Append(log, <<m, FALSE>>)
    BY <1>2, Zenon DEF Inactives
  <2>2. <<m, FALSE>> \in Event
    BY Zenon DEF Event, Expired
  <2>3. Len(log) < MaxBlock
    BY <1>2, Zenon DEF CheckExpireMiners
  <2>4. /\ SyncOK' /\ MinersOK' /\ Len(log)' = Len(log) + 1 /\ Activated'
        /\ \A i \in 1..Len(log) : log'[i] = log[i]
    BY <2>1, <2>2, <2>3, <1>0, LogKeeps, Zenon DEF syncVars, minerVars
  <2>5. Len(log)' >= Len(log)
    BY <2>4, <1>v
  <2> QED
    BY <1>0, <1>n, <1>g, <1>l, <1>c, <2>4, <2>5, RecordsKeep, Zenon
<1>3. log' = log \/ (Expired(t) # {} /\ Inactives(Expired(t)))
  BY Zenon DEF CheckExpireMiners, Inactives
<1> QED
  BY <1>1, <1>2, <1>3, Zenon

LEMMA CheckInactionKeeps ==
  ASSUME RollInv, NEW t \in Trusts, NEW m \in Miners, CheckInactionTx(t, m)
  PROVE  RollInv'
<1>0. /\ UNCHANGED <<log, view, synced, prev, sig, store, roll, todo, rollCalls, upFrom, wronged>>
      /\ nodes' = [nodes EXCEPT ![t][m].inaction = FALSE]
  BY Zenon DEF CheckInactionTx, syncVars, minerVars
<1>r. \A s \in Trusts, n \in Miners : nodes[s][n] \in Record /\ nodes[s][n].last \in Nat
  BY DEF RollInv, RollTypeOK, RecordsOK, Record
<1>1. /\ [nodes[t][m] EXCEPT !.inaction = FALSE] \in Record
      /\ [nodes[t][m] EXCEPT !.inaction = FALSE].known = nodes[t][m].known
      /\ [nodes[t][m] EXCEPT !.inaction = FALSE].last = nodes[t][m].last
  BY <1>r, Zenon DEF Record
<1>2. /\ nodes' \in [Trusts -> [Miners -> Record]]
      /\ nodes'[t][m] = [nodes[t][m] EXCEPT !.inaction = FALSE]
      /\ \A s \in Trusts, n \in Miners : ~(s = t /\ n = m) => nodes'[s][n] = nodes[s][n]
  BY <1>0, <1>1, Zenon DEF RollInv, RollTypeOK, RecordsOK
<1>3. \A s \in Trusts, n \in Miners :
        nodes'[s][n].known = nodes[s][n].known /\ nodes'[s][n].last = nodes[s][n].last
  BY <1>1, <1>2, Zenon
<1>4. \A s \in Trusts, n \in Miners : nodes[s][n].last >= nodes[s][n].last
  BY <1>r, SMT
<1>5. SyncOK' /\ RecordsOK' /\ MinersOK' /\ Activated'
  BY <1>0, <1>2, Zenon DEF RollInv, RollTypeOK, SyncOK, RecordsOK, MinersOK, Known, Activated
<1>6. Len(log)' >= Len(log)
  BY <1>0 DEF RollInv, RollTypeOK, SyncOK
<1> QED
  BY <1>0, <1>3, <1>4, <1>5, <1>6, RecordsKeep, Zenon

\* What a node has lost when it starts again.
LEMMA RestartedSync ==
  ASSUME RollInv, NEW x \in Node, Restarted(x), log' = log, view' \in [Node -> Nat],
         \A y \in Node : view'[y] <= view[y] /\ (y # x => view'[y] = view[y]),
         prev' = [prev EXCEPT ![x] = view'[x]]
  PROVE  /\ SyncOK' /\ ~synced'[x] /\ sig'[x] = <<>>
         /\ \A y \in Node : y # x => synced'[y] = synced[y] /\ sig'[y] = sig[y]
<1>1. /\ synced' = [synced EXCEPT ![x] = FALSE] /\ sig' = [sig EXCEPT ![x] = <<>>]
  BY Zenon DEF Restarted
<1>2. /\ synced' \in [Node -> BOOLEAN] /\ ~synced'[x]
      /\ \A y \in Node : y # x => synced'[y] = synced[y]
  BY <1>1, Zenon DEF RollInv, RollTypeOK, SyncOK
<1>3. /\ sig' \in [Node -> Seq(Nat)] /\ sig'[x] = <<>>
      /\ \A y \in Node : y # x => sig'[y] = sig[y]
  BY <1>1 DEF RollInv, RollTypeOK, SyncOK
<1>4. prev' \in [Node -> Nat] /\ \A y \in Node : prev'[y] <= view'[y]
  BY DEF RollInv, RollTypeOK, SyncOK
<1>5. \A y \in Node : view'[y] <= Len(log)
  BY DEF RollInv, RollTypeOK, SyncOK
<1> QED
  BY <1>2, <1>3, <1>4, <1>5, Zenon DEF RollInv, RollTypeOK, SyncOK

LEMMA TrustRestartsKeeps ==
  ASSUME RollInv, NEW t \in Trusts, TrustRestarts(t)
  PROVE  RollInv'
<1>0. /\ UNCHANGED <<log, todo, rollCalls, upFrom, wronged>>
      /\ roll' = [roll EXCEPT ![t] = 0] /\ Restarted(t)
      /\ nodes' = [nodes EXCEPT ![t] = [m \in Miners |-> [store'[t][m] EXCEPT !.inaction = FALSE]]]
      /\ prev' = [prev EXCEPT ![t] = view'[t]]
  BY Zenon DEF TrustRestarts, minerVars
<1>t. t \in Node
  BY Zenon DEF Node
<1>r. /\ nodes \in [Trusts -> [Miners -> Record]] /\ store \in [Trusts -> [Miners -> Record]]
      /\ view \in [Node -> Nat]
  BY Zenon DEF RollInv, RollTypeOK, RecordsOK, SyncOK
<1>u. Unknown \in Record
  BY DEF Unknown, Record
\* The three ways to come back: with the records, the stored ones, or none.
<1>s. /\ store' \in [Trusts -> [Miners -> Record]]
      /\ \A s \in Trusts : s # t => store'[s] = store[s]
      /\ \/ view' = view /\ (store'[t] = nodes[t] \/ store'[t] = store[t])
         \/ view' = [view EXCEPT ![t] = 0]
  <2>1. CASE store' = [store EXCEPT ![t] = nodes[t]] /\ UNCHANGED view
    BY <2>1, <1>r, Zenon
  <2>2. CASE UNCHANGED <<store, view>>
    BY <2>2, <1>r, Zenon
  <2>3. CASE /\ store' = [store EXCEPT ![t] = [m \in Miners |-> Unknown]]
             /\ view' = [view EXCEPT ![t] = 0]
    BY <2>3, <1>r, <1>u, Zenon
  <2> QED
    BY <2>1, <2>2, <2>3, Zenon DEF TrustRestarts
<1>v. /\ view' \in [Node -> Nat]
      /\ \A y \in Node : view'[y] <= view[y] /\ (y # t => view'[y] = view[y])
  BY <1>s, <1>r
<1>1. /\ SyncOK' /\ ~synced'[t] /\ sig'[t] = <<>>
      /\ \A y \in Node : y # t => synced'[y] = synced[y] /\ sig'[y] = sig[y]
  BY <1>0, <1>t, <1>v, RestartedSync, Zenon
<1>n. /\ nodes' \in [Trusts -> [Miners -> Record]]
      /\ \A s \in Trusts : s # t => nodes'[s] = nodes[s]
      /\ \A m \in Miners : nodes'[t][m].known = store'[t][m].known
  <2>1. \A m \in Miners : /\ [store'[t][m] EXCEPT !.inaction = FALSE] \in Record
                          /\ [store'[t][m] EXCEPT !.inaction = FALSE].known = store'[t][m].known
    <3> SUFFICES ASSUME NEW m \in Miners
                 PROVE  /\ [store'[t][m] EXCEPT !.inaction = FALSE] \in Record
                        /\ [store'[t][m] EXCEPT !.inaction = FALSE].known = store'[t][m].known
      BY Zenon
    <3>1. PICK q \in Record : q = store'[t][m]
      BY <1>s, Zenon
    <3>2. [q EXCEPT !.inaction = FALSE] \in Record /\ [q EXCEPT !.inaction = FALSE].known = q.known
      BY Zenon DEF Record
    <3> QED
      BY <3>1, <3>2, Zenon
  <2>2. /\ \A s \in Trusts : s # t => nodes'[s] = nodes[s]
        /\ \A m \in Miners : nodes'[t][m] = [store'[t][m] EXCEPT !.inaction = FALSE]
    BY <1>0, <1>r, Zenon
  <2>3. nodes' \in [Trusts -> [Miners -> Record]]
    BY <1>0, <1>r, <2>1, Zenon
  <2> QED
    BY <2>1, <2>2, <2>3, Zenon
<1>l. /\ roll' \in [Trusts -> Nat] /\ roll'[t] = 0
      /\ \A s \in Trusts : s # t => roll'[s] = roll[s]
  BY <1>0 DEF RollInv, RollTypeOK, RecordsOK
<1>2. RecordsOK' /\ MinersOK'
  BY <1>0, <1>s, <1>n, <1>l, Zenon DEF RollInv, RollTypeOK, RecordsOK, MinersOK
<1>3. Known'
  <2>1. Activated'
    BY <1>0, Zenon DEF RollInv, Known, Activated
  <2> SUFFICES ASSUME NEW s \in Trusts, NEW m \in Miners PROVE KnownTo(s, m)'
    BY <2>1, Zenon DEF Known
  <2>2. KnownTo(s, m)
    BY Zenon DEF RollInv, Known
  <2>3. CASE s # t
    <3>1. s \in Node
      BY Zenon DEF Node
    <3> QED
      BY <2>2, <2>3, <3>1, <1>0, <1>s, <1>n, <1>v, <1>1, Zenon DEF KnownTo
  <2>4. CASE s = t
    <3>1. CASE view' = view /\ (store'[t] = nodes[t] \/ store'[t] = store[t])
      <4>1. \A i \in 1..view[t] : log[i] = <<m, TRUE>> => store'[t][m].known
        BY <2>2, <2>4, <3>1, Zenon DEF KnownTo
      <4> QED
        BY <4>1, <2>4, <3>1, <1>0, <1>1, <1>n, Zenon DEF KnownTo
    <3>2. CASE view' = [view EXCEPT ![t] = 0]
      <4>1. view'[t] = 0
        BY <3>2, <1>r, <1>t, Zenon
      <4>2. 1..view'[t] = {}
        BY <4>1
      <4> QED
        BY <4>2, <2>4, <1>1, Zenon DEF KnownTo
    <3> QED
      BY <3>1, <3>2, <1>s, Zenon
  <2> QED
    BY <2>3, <2>4, Zenon
<1>m. \A m \in Miners : m \in Node /\ m # t
  BY RollCallAssumption, Zenon DEF Node
<1>4. Started'
  <2>1. \A m \in Miners : ~synced'[m] => upFrom'[m] = MaxBlock + 1
    BY <1>0, <1>1, <1>m, Zenon DEF RollInv, Started
  <2>2. ASSUME NEW s \in Trusts
        PROVE  /\ ~synced'[s] => sig'[s] = <<>> /\ roll'[s] = 0
               /\ \A i \in 1..Len(sig'[s]) : sig'[s][i] \in 1..Len(log)
    <3>1. CASE s # t
      BY <3>1, <1>1, <1>l, Zenon DEF RollInv, Started, Node
    <3>2. CASE s = t
      BY <3>2, <1>1, <1>l
    <3> QED
      BY <3>1, <3>2, Zenon
  <2>3. ASSUME NEW s \in Trusts PROVE roll'[s] <= Len(log)
    <3>1. roll'[s] = roll[s] \/ roll'[s] = 0
      BY <1>l, Zenon
    <3>2. roll[s] <= Len(log) /\ 0 <= Len(log)
      BY DEF RollInv, Started, RollTypeOK, SyncOK
    <3> QED
      BY <3>1, <3>2, Zenon
  <2> QED
    BY <2>1, <2>2, <2>3, <1>0, Zenon DEF Started
<1>5. Answered'
  <2> SUFFICES ASSUME NEW s \in Trusts, NEW m \in Miners, NEW h \in 1..Len(log),
                      Due(s, h)', Passed(m, h)'
               PROVE  Answer(s, m, h)'
    BY <1>0, Zenon DEF Answered
  <2>1. s # t /\ s \in Node /\ m \in Node /\ m # t
    BY <1>1, <1>m, Zenon DEF Due, Node
  <2>2. Due(s, h) /\ Passed(m, h)
    BY <2>1, <1>0, <1>1, <1>v, <1>l, Zenon DEF Due, Passed, Signalled
  <2>3. Answer(s, m, h)
    BY <2>2, Zenon DEF RollInv, Answered
  <2> QED
    BY <2>1, <2>3, <1>0, <1>1, <1>n, Zenon DEF Answer, Signalled
<1> QED
  BY <1>0, <1>1, <1>2, <1>3, <1>4, <1>5, Zenon DEF RollInv, RollTypeOK

LEMMA MinerRestartsKeeps ==
  ASSUME RollInv, NEW m \in Miners, MinerRestarts(m)
  PROVE  RollInv'
<1>0. /\ UNCHANGED <<log, view, nodes, store, roll, wronged>> /\ Restarted(m)
      /\ prev' = [prev EXCEPT ![m] = view[m]]
      /\ todo' = [todo EXCEPT ![m] = {}] /\ rollCalls' = {a \in rollCalls : a[1] # m}
      /\ upFrom' = [upFrom EXCEPT ![m] = MaxBlock + 1]
  BY Zenon DEF MinerRestarts, recordVars
<1>t. m \in Node
  BY Zenon DEF Node
<1>v. view' \in [Node -> Nat] /\ \A y \in Node : view'[y] <= view[y] /\ (y # m => view'[y] = view[y])
  BY <1>0 DEF RollInv, RollTypeOK, SyncOK
<1>1. /\ SyncOK' /\ ~synced'[m] /\ sig'[m] = <<>>
      /\ \A y \in Node : y # m => synced'[y] = synced[y] /\ sig'[y] = sig[y]
  BY <1>0, <1>t, <1>v, RestartedSync, Zenon
<1>2. RecordsOK'
  BY <1>0, Zenon DEF RollInv, RollTypeOK, RecordsOK
<1>u. /\ upFrom' \in [Miners -> Nat] /\ upFrom'[m] = MaxBlock + 1
      /\ \A n \in Miners : n # m => upFrom'[n] = upFrom[n]
  BY <1>0, RollCallAssumption DEF RollInv, RollTypeOK, MinersOK
<1>d. /\ todo' \in [Miners -> SUBSET (Trusts \X Nat)]
      /\ \A n \in Miners : n # m => todo'[n] = todo[n]
  BY <1>0 DEF RollInv, RollTypeOK, MinersOK
<1>3. MinersOK'
  BY <1>0, <1>u, <1>d, Zenon DEF RollInv, RollTypeOK, MinersOK
<1>m. \A t \in Trusts : t \in Node /\ t # m
  BY RollCallAssumption, Zenon DEF Node
<1>4. Known'
  BY <1>0, <1>1, <1>m, Zenon DEF RollInv, Known, KnownTo, Activated
<1>5. Started'
  <2>1. \A n \in Miners : ~synced'[n] => upFrom'[n] = MaxBlock + 1
    BY <1>1, <1>u, Zenon DEF RollInv, Started, Node
  <2> QED
    BY <2>1, <1>0, <1>1, <1>m, Zenon DEF RollInv, Started
<1>6. Answered'
  <2> SUFFICES ASSUME NEW t \in Trusts, NEW n \in Miners, NEW h \in 1..Len(log),
                      Due(t, h)', Passed(n, h)'
               PROVE  Answer(t, n, h)'
    BY <1>0, Zenon DEF Answered
  <2>1. n # m
    <3> SUFFICES ASSUME n = m PROVE FALSE
      OBVIOUS
    <3>1. MaxBlock + 1 <= h
      BY <1>u, Zenon DEF Passed
    <3> QED
      BY <3>1, RollCallAssumption DEF RollInv, RollTypeOK, SyncOK
  <2>2. Due(t, h) /\ Passed(n, h)
    BY <2>1, <1>0, <1>1, <1>m, <1>u, Zenon DEF Due, Passed, Signalled
  <2>3. Answer(t, n, h)
    BY <2>2, Zenon DEF RollInv, Answered
  <2> QED
    BY <2>1, <2>3, <1>0, <1>1, <1>d, Zenon DEF Answer, Signalled, Node
<1> QED
  BY <1>0, <1>1, <1>2, <1>3, <1>4, <1>5, <1>6, Zenon DEF RollInv, RollTypeOK

-----------------------------------------------------------------------------
LEMMA RollStep == RollInv /\ [RollNext]_rollVars => RollInv'
<1> SUFFICES ASSUME RollInv, [RollNext]_rollVars PROVE RollInv'
  OBVIOUS
<1>1. CASE UNCHANGED rollVars
  <2>1. UNCHANGED <<log, view, synced, prev, sig, nodes, store, roll, upFrom, wronged, todo, rollCalls>>
    BY <1>1, Zenon DEF rollVars
  <2>2. MinersOK'
    BY <2>1, Zenon DEF RollInv, RollTypeOK, MinersOK
  <2> QED
    BY <2>1, <2>2, MoreToAnswer, Zenon
<1>2. CASE RollNext
  BY <1>2, MineBlockKeeps, UpdateKeeps, StartKeeps, PushKeeps, CheckExpireKeeps,
     TrustRestartsKeeps, OtherKeeps, CheckSelfKeeps, MinerRestartsKeeps, NotifyKeeps, SignKeeps,
     CheckInactionKeeps, Zenon DEF RollNext
<1> QED
  BY <1>1, <1>2, Zenon

\* A miner that was up when a roll call's block came is not made inactive by the
\* check of that roll call: for any miners and trust nodes, any expiry, any
\* number of restarts, and whatever a trust node forgot in a crash.
THEOREM UpMinersStayActive == RollSpec => []OnlineStaysActive
<1>1. RollInv => OnlineStaysActive
  BY Zenon DEF RollInv, OnlineStaysActive
<1> QED
  BY <1>1, RollStart, RollStep, PTL DEF RollSpec
=============================================================================
