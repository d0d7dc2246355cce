-------------------------- MODULE BatchStoreProofs --------------------------
(***************************************************************************)
(* Proof that the batch store is the view of the chain up to its block,    *)
(* through pages of logs, crashes and restarts (ViewOfChain), for any      *)
(* batches, values, depths, prices, page size and length of the chain.     *)
(***************************************************************************)
EXTENDS BatchStore, NaturalsInduction, WellFoundedInduction, TLAPS

\* Most leaves are first-order; the ones with arithmetic cite SMT.
USE Zenon

BatchRecord == [value : Nat, depth : Nat]
ContractState == [total : Nat, price : Nat, bal : [BatchIds -> BatchRecord]]
ChainState == [block : Nat, total : Nat, price : Nat]
Events == [type : {"none"}] \cup [type : {"price"}, price : Nat]
            \cup [type : {"created", "changed"}, batch : BatchIds, value : Nat, depth : Nat]
Block == [event : Events, after : ContractState]

\* What a block with event e does to the state of the contract.
Follows(st, e, after) ==
  /\ after.total = st.total + st.price
  /\ \/ e.type = "none" /\ after.price = st.price /\ after.bal = st.bal
     \/ e.type = "price" /\ after.price = e.price /\ after.bal = st.bal
     \/ /\ e.type \in {"created", "changed"} /\ after.price = st.price /\ e.batch \in BatchIds
        /\ after.bal = [st.bal EXCEPT ![e.batch] = [value |-> e.value, depth |-> e.depth]]
        /\ e.type = "changed" => st.bal[e.batch].value > after.total

ChainOK ==
  /\ chain \in Seq(Block)
  /\ \A n \in 1..Len(chain) : Follows(ContractAt(n - 1), EventAt(n), ContractAt(n))

\* Every batch is known as the contract has it, or has expired and is deleted.
Seen(bal, total) ==
  \A b \in BatchIds : /\ bal[b].value > total => batches[b] = bal[b]
                      /\ batches[b] # Absent => batches[b] = bal[b]

StoreTypes ==
  /\ pc \in {"idle", "events", "event", "evictOuter"}
  /\ from \in Nat /\ from # 0 /\ to \in Nat
  /\ cs \in ChainState /\ batches \in [BatchIds -> BatchRecord]

\* Between pages, and only then, the store is clean, and it holds the chain
\* state in memory.
Stored ==
  /\ dirtyDB <=> pc # "idle"
  /\ pcs = cs \/ (pcs = NoState /\ cs = NewChainState(0))

\* The next block is in the page, and the page in the chain.
InPage ==
  /\ from <= Len(chain) + 1
  /\ pc # "idle" => to <= Len(chain) /\ from <= to + 1
  /\ pc = "event" => from <= to /\ EventAt(from).type # "none"

\* The view is that of the block before the next, except that the block number
\* and the total are ahead of an event.
View ==
  /\ cs.block = IF pc = "event" THEN from ELSE from - 1
  /\ cs.total = ContractAt(IF pc = "event" THEN from ELSE from - 1).total
  /\ cs.price = ContractAt(from - 1).price
  /\ Seen(ContractAt(from - 1).bal, cs.total)

BatchInv == ChainOK /\ StoreTypes /\ Stored /\ InPage /\ View

-----------------------------------------------------------------------------
\* A set of numbers has a least element.
LEMMA MinIsLeast ==
  ASSUME NEW S, S \subseteq Nat, S # {}
  PROVE  Min(S) \in S /\ \A y \in S : Min(S) <= y
<1> DEFINE less == {q \in Nat \X Nat : q[1] < q[2]}
<1>1. IsWellFoundedOn(less, Nat)
  BY NatLessThanWellFounded DEF OpToRel
<1>2. PICK x \in S : \A y \in S : ~ (<<y, x>> \in less)
  BY <1>1, WFMin
<1>3. ASSUME NEW y \in S PROVE x <= y
  <2> DEFINE q == <<y, x>>
  <2>1. q \in Nat \X Nat /\ q[1] = y /\ q[2] = x
    BY SMT
  <2> HIDE DEF q
  <2>2. q[1] < q[2] => q \in less
    BY <2>1
  <2>3. ~(y < x)
    BY <1>2, <2>1, <2>2 DEF q
  <2> QED
    BY <2>3, SMT
<1>4. \E z \in S : \A y \in S : z <= y
  BY <1>3
<1> QED
  BY <1>4 DEF Min

LEMMA ContractTypes ==
  ASSUME ChainOK, NEW n \in 0..Len(chain)
  PROVE  ContractAt(n) \in ContractState
<1>1. CASE n = 0
  <2>1. Genesis \in ContractState
    BY SMT DEF Genesis, ContractState, Absent, BatchRecord
  <2> QED
    BY <1>1, <2>1 DEF ContractAt
<1>2. CASE n # 0
  <2>1. chain[n] \in Block
    BY <1>2, SMT DEF ChainOK
  <2> QED
    BY <1>2, <2>1 DEF ContractAt, Block
<1> QED
  BY <1>1, <1>2

\* While there are no events, only the total changes, by the price per block.
LEMMA Quiet ==
  ASSUME ChainOK, NEW k \in Nat, NEW n \in Nat, k <= n, n <= Len(chain),
         \A i \in k + 1..n : EventAt(i).type = "none"
  PROVE  /\ ContractAt(n).total = ContractAt(k).total + (n - k) * ContractAt(k).price
         /\ ContractAt(n).price = ContractAt(k).price /\ ContractAt(n).bal = ContractAt(k).bal
<1> DEFINE Good(j) ==
      /\ ContractAt(k + j).total = ContractAt(k).total + j * ContractAt(k).price
      /\ ContractAt(k + j).price = ContractAt(k).price
      /\ ContractAt(k + j).bal = ContractAt(k).bal
    Bad == {j \in 0..n - k : ~Good(j)}
<1>l. Len(chain) \in Nat
  BY SMT DEF ChainOK
<1>t. ContractAt(k).total \in Nat /\ ContractAt(k).price \in Nat
  <2>1. k \in 0..Len(chain)
    BY <1>l, SMT
  <2> QED
    BY <2>1, ContractTypes DEF ContractState
<1>1. Bad = {}
  <2> SUFFICES ASSUME Bad # {} PROVE FALSE
    OBVIOUS
  <2> DEFINE j == Min(Bad)
  <2>0. Bad \subseteq Nat
    BY SMT
  <2>1. j \in Bad /\ \A y \in Bad : j <= y
    BY <2>0, MinIsLeast
  <2> HIDE DEF j
  <2>2. j \in 0..n - k /\ ~Good(j)
    BY <2>1
  <2>3. j # 0
    <3> SUFFICES ASSUME j = 0 PROVE FALSE
      OBVIOUS
    <3>1. k + j = k /\ ContractAt(k).total = ContractAt(k).total + j * ContractAt(k).price
      BY <1>t, SMT
    <3> QED
      BY <3>1, <2>2
  <2>4. /\ j - 1 \in 0..n - k /\ j - 1 \notin Bad /\ j \in Nat /\ k + (j - 1) = (k + j) - 1
        /\ k + j \in k + 1..n /\ k + j \in 1..Len(chain)
    <3>1. j - 1 \in 0..n - k /\ j \in Nat /\ ~(j <= j - 1) /\ k + (j - 1) = (k + j) - 1
      BY <2>2, <2>3, SMT
    <3>2. k + j \in k + 1..n /\ k + j \in 1..Len(chain)
      BY <2>2, <2>3, <1>l, SMT
    <3> QED
      BY <3>1, <3>2, <2>1
  <2>5. Good(j - 1)
    BY <2>4
  <2>6. Follows(ContractAt((k + j) - 1), EventAt(k + j), ContractAt(k + j))
    BY <2>4 DEF ChainOK
  <2>7. EventAt(k + j).type = "none"
    BY <2>4
  <2>8. /\ ContractAt(k + j).total = ContractAt((k + j) - 1).total + ContractAt((k + j) - 1).price
        /\ ContractAt(k + j).price = ContractAt((k + j) - 1).price
        /\ ContractAt(k + j).bal = ContractAt((k + j) - 1).bal
    BY <2>6, <2>7 DEF Follows
  <2>9. (j - 1) * ContractAt(k).price + ContractAt(k).price = j * ContractAt(k).price
    BY <1>t, <2>4, SMT
  <2>10. ContractAt(k + j).total =
           ContractAt(k).total + (j - 1) * ContractAt(k).price + ContractAt(k).price
    BY <2>4, <2>5, <2>8
  <2>11. ContractAt(k + j).total = ContractAt(k).total + j * ContractAt(k).price
    BY <2>9, <2>10, <2>4, <1>t, SMT
  <2> QED
    BY <2>2, <2>4, <2>5, <2>8, <2>11
<1>2. n - k \in 0..n - k /\ k + (n - k) = n
  BY SMT
<1>3. Good(n - k)
  BY <1>1, <1>2
<1> QED
  BY <1>2, <1>3

-----------------------------------------------------------------------------
LEMMA BatchStart == BatchInit => BatchInv
<1> SUFFICES ASSUME BatchInit PROVE BatchInv
  OBVIOUS
<1>1. ChainOK
  BY SMT DEF BatchInit, ChainOK
<1>2. StoreTypes
  <2>1. /\ NewChainState(0) \in ChainState /\ Absent \in BatchRecord /\ 0 \in Nat /\ 1 \in Nat
        /\ 1 # 0
    BY SMT DEF NewChainState, ChainState, Absent, BatchRecord
  <2> QED
    BY <2>1 DEF BatchInit, StoreTypes
<1>3. Stored
  BY DEF BatchInit, Stored
<1>4. InPage
  BY SMT DEF BatchInit, InPage
<1>5. View
  <2>1. from - 1 = 0 /\ pc # "event"
    BY SMT DEF BatchInit
  <2>2. ContractAt(0) = Genesis
    BY DEF ContractAt
  <2>3. cs.block = 0 /\ cs.total = Genesis.total /\ cs.price = Genesis.price
    BY SMT DEF BatchInit, NewChainState, Genesis
  <2>4. \A b \in BatchIds : batches[b] = Absent /\ Genesis.bal[b] = Absent
    BY DEF BatchInit, Genesis
  <2> QED
    BY <2>1, <2>2, <2>3, <2>4 DEF View, Seen
<1> QED
  BY <1>1, <1>2, <1>3, <1>4, <1>5 DEF BatchInv

\* The block the contract adds follows from its state.
LEMMA MinedBlock ==
  ASSUME BatchInv, Mine
  PROVE  \E e \in Events, a \in ContractState :
           /\ chain' = Append(chain, [event |-> e, after |-> a])
           /\ Follows(ContractAt(Len(chain)), e, a)
<1> DEFINE st == ContractAt(Len(chain))
           at == [st EXCEPT !.total = @ + st.price]
<1>1. st \in ContractState
  <2>1. Len(chain) \in 0..Len(chain)
    BY SMT DEF BatchInv, ChainOK
  <2> QED
    BY <2>1, ContractTypes DEF BatchInv
<1> HIDE DEF st
<1>2. st.total \in Nat /\ st.price \in Nat /\ st.bal \in [BatchIds -> BatchRecord]
  BY <1>1 DEF ContractState
<1>3. /\ at \in ContractState /\ at.total = st.total + st.price /\ at.price = st.price
      /\ at.bal = st.bal
  BY <1>1, <1>2, SMT DEF ContractState
<1> HIDE DEF at
<1>4. CASE chain' = Append(chain, [event |-> [type |-> "none"], after |-> at])
  <2>1. [type |-> "none"] \in Events /\ [type |-> "none"].type = "none"
    BY DEF Events
  <2>2. Follows(st, [type |-> "none"], at)
    BY <2>1, <1>3 DEF Follows
  <2> QED
    BY <1>3, <1>4, <2>1, <2>2 DEF st
<1>5. CASE \E p \in Price \ {st.price} :
             chain' = Append(chain, [event |-> [type |-> "price", price |-> p],
                                     after |-> [at EXCEPT !.price = p]])
  <2>1. PICK p \in Price : chain' = Append(chain, [event |-> [type |-> "price", price |-> p],
                                                   after |-> [at EXCEPT !.price = p]])
    BY <1>5
  <2>2. p \in Nat
    BY BatchStoreAssumption
  <2> DEFINE e == [type |-> "price", price |-> p]
             a == [at EXCEPT !.price = p]
  <2>3. e \in Events /\ e.type = "price" /\ e.price = p
    BY <2>2 DEF Events
  <2>4. a \in ContractState /\ a.total = at.total /\ a.price = p /\ a.bal = at.bal
    BY <2>2, <1>3, SMT DEF ContractState
  <2> HIDE DEF e, a
  <2>5. Follows(st, e, a)
    BY <2>3, <2>4, <1>3 DEF Follows
  <2> QED
    BY <2>1, <2>3, <2>4, <2>5 DEF e, a, st
<1>6. CASE \E b \in BatchIds, v \in Value, d \in Depth :
             /\ v > at.total
             /\ at.bal[b] = Absent \/ Live(at, b)
             /\ chain' = Append(chain,
                  [event |-> [type |-> IF at.bal[b] = Absent THEN "created" ELSE "changed",
                              batch |-> b, value |-> v, depth |-> d],
                   after |-> [at EXCEPT !.bal[b] = [value |-> v, depth |-> d]]])
  <2>1. PICK b \in BatchIds, v \in Value, d \in Depth :
             /\ v > at.total
             /\ at.bal[b] = Absent \/ Live(at, b)
             /\ chain' = Append(chain,
                  [event |-> [type |-> IF at.bal[b] = Absent THEN "created" ELSE "changed",
                              batch |-> b, value |-> v, depth |-> d],
                   after |-> [at EXCEPT !.bal[b] = [value |-> v, depth |-> d]]])
    BY <1>6
  <2>2. v \in Nat /\ d \in Nat
    BY BatchStoreAssumption
  <2>3. PICK y \in {"created", "changed"} :
          y = IF at.bal[b] = Absent THEN "created" ELSE "changed"
    OBVIOUS
  <2> DEFINE e == [type |-> y, batch |-> b, value |-> v, depth |-> d]
             a == [at EXCEPT !.bal[b] = [value |-> v, depth |-> d]]
  <2>4. e \in Events /\ e.type = y /\ e.batch = b /\ e.value = v /\ e.depth = d
    BY <2>2 DEF Events
  <2>5. [value |-> v, depth |-> d] \in BatchRecord
    BY <2>2 DEF BatchRecord
  <2>6. a.total = at.total /\ a.price = at.price
        /\ a.bal = [at.bal EXCEPT ![b] = [value |-> v, depth |-> d]]
    BY <1>3, SMT DEF ContractState
  <2>7. a \in ContractState
    <3>1. a = [at EXCEPT !.bal = [at.bal EXCEPT ![b] = [value |-> v, depth |-> d]]]
      BY SMT
    <3>2. [at.bal EXCEPT ![b] = [value |-> v, depth |-> d]] \in [BatchIds -> BatchRecord]
      BY <1>2, <1>3, <2>5
    <3> HIDE DEF a
    <3> QED
      BY <3>1, <3>2, <1>3 DEF ContractState
  <2>8. y = "changed" => Live(at, b)
    BY <2>1, <2>3
  <2>9. chain' = Append(chain, [event |-> e, after |-> a])
    BY <2>1, <2>3
  <2> HIDE DEF e, a
  <2>10. Follows(st, e, a)
    BY <2>4, <2>6, <2>8, <1>3 DEF Follows, Live
  <2> QED
    BY <2>4, <2>7, <2>9, <2>10 DEF st
<1> QED
  BY <1>4, <1>5, <1>6 DEF Mine, st, at

LEMMA MineKeeps ==
  ASSUME BatchInv, Mine
  PROVE  BatchInv'
<1>1. PICK e \in Events, a \in ContractState :
        /\ chain' = Append(chain, [event |-> e, after |-> a])
        /\ Follows(ContractAt(Len(chain)), e, a)
  BY MinedBlock
<1>2. PICK B \in Block : B = [event |-> e, after |-> a] /\ B.event = e /\ B.after = a
  <2> DEFINE C == [event |-> e, after |-> a]
  <2>1. C \in Block
    BY DEF Block
  <2>2. C.event = e /\ C.after = a
    OBVIOUS
  <2> HIDE DEF C
  <2> QED
    BY <2>1, <2>2 DEF C
<1>3. chain \in Seq(Block) /\ Len(chain) \in Nat
  BY SMT DEF BatchInv, ChainOK
<1>4. /\ chain' \in Seq(Block) /\ Len(chain') = Len(chain) + 1
      /\ chain'[Len(chain) + 1] = B
      /\ \A n \in 1..Len(chain) : chain'[n] = chain[n]
  <2>1. chain' = Append(chain, B)
    BY <1>1, <1>2
  <2> QED
    BY <2>1, <1>3, SMT
<1>5. \A n \in 0..Len(chain) : ContractAt(n)' = ContractAt(n)
  <2>1. \A n \in 0..Len(chain) : n # 0 => n \in 1..Len(chain)
    BY SMT
  <2> QED
    BY <2>1, <1>4 DEF ContractAt
<1>6. \A n \in 1..Len(chain) : EventAt(n)' = EventAt(n)
  BY <1>4 DEF EventAt
<1>7. ChainOK'
  <2> SUFFICES ASSUME NEW n \in 1..Len(chain')
               PROVE  Follows(ContractAt(n - 1)', EventAt(n)', ContractAt(n)')
    BY <1>4 DEF ChainOK, Follows
  <2>1. CASE n <= Len(chain)
    <3>1. n \in 1..Len(chain) /\ n \in 0..Len(chain) /\ n - 1 \in 0..Len(chain)
      BY <2>1, <1>3, SMT
    <3> QED
      BY <3>1, <1>5, <1>6 DEF BatchInv, ChainOK
  <2>2. CASE ~(n <= Len(chain))
    <3>1. n = Len(chain) + 1 /\ n - 1 = Len(chain) /\ n - 1 \in 0..Len(chain) /\ n # 0
      BY <2>2, <1>3, <1>4, SMT
    <3>2. EventAt(n)' = e /\ ContractAt(n)' = a
      BY <3>1, <1>2, <1>4 DEF EventAt, ContractAt
    <3>3. ContractAt(n - 1)' = ContractAt(Len(chain))
      BY <3>1, <1>5
    <3> QED
      BY <3>2, <3>3, <1>1
  <2> QED
    BY <2>1, <2>2
<1>8. UNCHANGED <<batches, pcs, dirtyDB, cs, from, pc, to>> /\ pc = "idle"
  BY DEF Mine
<1>9. StoreTypes' /\ Stored'
  BY <1>8 DEF BatchInv, StoreTypes, Stored
<1>10. InPage'
  <2>1. from <= Len(chain') + 1
    BY <1>3, <1>4, SMTT(20) DEF BatchInv, StoreTypes, InPage
  <2> QED
    BY <2>1, <1>8 DEF InPage
<1>11. View'
  <2>1. PICK k : k = from - 1
    OBVIOUS
  <2>2. k \in 0..Len(chain) /\ from' - 1 = k
    BY <2>1, <1>3, <1>8, SMTT(20) DEF BatchInv, StoreTypes, InPage
  <2>3. ContractAt(k)' = ContractAt(k)
    BY <2>2, <1>5
  <2> QED
    BY <2>1, <2>2, <2>3, <1>8 DEF BatchInv, View, Seen
<1> QED
  BY <1>7, <1>9, <1>10, <1>11 DEF BatchInv

-----------------------------------------------------------------------------
\* Storing a chain state deletes only what has expired.
LEMMA Purged ==
  ASSUME StoreTypes, NEW c \in ChainState, PutChainState(c), NEW f \in [BatchIds -> BatchRecord],
         Seen(f, cs.total), cs.total <= c.total
  PROVE  /\ batches' \in [BatchIds -> BatchRecord] /\ cs' = c /\ pcs' = c
         /\ Seen(f, c.total)'
<1>1. cs' = c /\ pcs' = c
  BY DEF PutChainState
<1>2. PICK E : batches' = [b \in BatchIds |->
                 IF b \in E /\ batches[b].value <= c.total THEN Absent ELSE batches[b]]
  BY DEF PutChainState, EvictExpired
<1>3. Absent \in BatchRecord
  BY SMT DEF Absent, BatchRecord
<1>4. batches' \in [BatchIds -> BatchRecord]
  BY <1>2, <1>3 DEF StoreTypes
<1>5. ASSUME NEW b \in BatchIds
      PROVE  /\ f[b].value > c.total => batches'[b] = f[b]
             /\ batches'[b] # Absent => batches'[b] = f[b]
  <2>1. c.total \in Nat /\ cs.total \in Nat /\ f[b].value \in Nat
    BY DEF ChainState, StoreTypes, BatchRecord
  <2>2. f[b].value > c.total => f[b].value > cs.total /\ ~(f[b].value <= c.total)
    BY <2>1, SMT
  <2>3. /\ f[b].value > cs.total => batches[b] = f[b]
        /\ batches[b] # Absent => batches[b] = f[b]
    BY DEF Seen
  <2>4. batches'[b] = IF b \in E /\ batches[b].value <= c.total THEN Absent ELSE batches[b]
    BY <1>2
  <2> QED
    BY <2>2, <2>3, <2>4
<1>6. \A b \in BatchIds : /\ f[b].value > c.total => batches'[b] = f[b]
                          /\ batches'[b] # Absent => batches'[b] = f[b]
  BY <1>5
<1> QED
  BY <1>1, <1>4, <1>6 DEF Seen

\* The block number moves on; the total with it, by the price per block.
LEMMA Advanced ==
  ASSUME StoreTypes, Stored, NEW n \in Nat, cs.block <= n, UpdateBlockNumber(n),
         NEW f \in [BatchIds -> BatchRecord], Seen(f, cs.total)
  PROVE  /\ batches' \in [BatchIds -> BatchRecord] /\ cs' \in ChainState
         /\ pcs' = cs' \/ (pcs' = NoState /\ cs' = NewChainState(0))
         /\ cs'.block = n /\ cs'.price = cs.price
         /\ cs'.total = cs.total + (n - cs.block) * cs.price
         /\ \A t : t = cs'.total => Seen(f, t)'
<1>t. cs.block \in Nat /\ cs.total \in Nat /\ cs.price \in Nat
  BY DEF StoreTypes, ChainState
<1>1. CASE n = cs.block
  <2>1. UNCHANGED <<cs, pcs, batches>>
    BY <1>1 DEF UpdateBlockNumber
  <2>2. cs.total = cs.total + (n - cs.block) * cs.price
    BY <1>1, <1>t, SMT
  <2> QED
    BY <2>1, <2>2, <1>1 DEF StoreTypes, Stored, Seen
<1>2. CASE n # cs.block
  <2>0. PICK T : T = cs.total + (n - cs.block) * cs.price
    OBVIOUS
  <2>1. T \in Nat /\ cs.total <= T
    <3>1. PICK d \in Nat : d = n - cs.block
      BY <1>t, SMT
    <3>2. d * cs.price \in Nat
      BY <1>t, SMT
    <3> QED
      BY <2>0, <3>1, <3>2, <1>t, SMTT(20)
  <2>2. PICK c : c = [cs EXCEPT !.block = n, !.total = T]
    OBVIOUS
  <2>3. c \in ChainState /\ c.block = n /\ c.total = T /\ c.price = cs.price
    <3>1. cs \in ChainState
      BY DEF StoreTypes
    <3> QED
      BY <3>1, <2>1, <2>2 DEF ChainState
  <2>4. PutChainState(c)
    <3>1. PutChainState([cs EXCEPT !.block = n, !.total = @ + (n - cs.block) * cs.price])
      BY <1>2 DEF UpdateBlockNumber
    <3>2. c = [cs EXCEPT !.block = n, !.total = @ + (n - cs.block) * cs.price]
      BY <2>0, <2>2, SMT DEF StoreTypes, ChainState
    <3> QED
      BY <3>1, <3>2
  <2>5. /\ batches' \in [BatchIds -> BatchRecord] /\ cs' = c /\ pcs' = c
        /\ Seen(f, c.total)'
    BY <2>1, <2>3, <2>4, Purged
  <2> QED
    BY <2>0, <2>3, <2>5
<1> QED
  BY <1>1, <1>2

-----------------------------------------------------------------------------
\* The chain is not the node's to change.
LEMMA SameChain ==
  ASSUME ChainOK, chain' = chain
  PROVE  ChainOK' /\ (\A n : ContractAt(n)' = ContractAt(n)) /\ (\A n : EventAt(n)' = EventAt(n))
<1>1. (\A n : ContractAt(n)' = ContractAt(n)) /\ (\A n : EventAt(n)' = EventAt(n))
  BY DEF ContractAt, EventAt
<1>2. ASSUME NEW n \in 1..Len(chain')
      PROVE  Follows(ContractAt(n - 1)', EventAt(n)', ContractAt(n)')
  BY <1>1 DEF ChainOK
<1>3. ChainOK'
  BY <1>2 DEF ChainOK, Follows
<1> QED
  BY <1>1, <1>3

LEMMA SyncPageKeeps ==
  ASSUME BatchInv, SyncPage
  PROVE  BatchInv'
<1>0. /\ UNCHANGED <<chain, batches, pcs, cs, from>> /\ pc = "idle" /\ pc' = "events"
      /\ dirtyDB' = TRUE
  BY DEF SyncPage, TransactionStart
<1>1. ChainOK' /\ (\A n : ContractAt(n)' = ContractAt(n)) /\ (\A n : EventAt(n)' = EventAt(n))
  BY <1>0, SameChain DEF BatchInv
<1>2. to' \in Nat /\ to' <= Len(chain) /\ from <= to'
  <2>1. from \in Nat /\ Len(chain) \in Nat /\ TailSize \in Nat /\ BlockPage \in Nat
    BY BatchStoreAssumption, SMT DEF BatchInv, StoreTypes, ChainOK
  <2>2. /\ to' = IF Len(chain) - TailSize - from > BlockPage
                 THEN from + BlockPage ELSE Len(chain) - TailSize
        /\ Len(chain) - TailSize >= from
    BY DEF SyncPage
  <2> QED
    BY <2>1, <2>2, SMT
<1>3. StoreTypes' /\ Stored'
  BY <1>0, <1>2 DEF BatchInv, StoreTypes, Stored
<1>4. InPage'
  <2>1. from <= to' + 1
    <3>1. PICK t \in Nat, n \in Nat : t = to' /\ n = from
      BY <1>2 DEF BatchInv, StoreTypes
    <3>2. n <= t
      BY <3>1, <1>2
    <3>3. n <= t + 1
      BY <3>2, SMT
    <3> QED
      BY <3>1, <3>3
  <2> QED
    BY <2>1, <1>0, <1>2 DEF BatchInv, InPage
<1>5. View'
  <2>1. PICK k : k = from - 1
    OBVIOUS
  <2> QED
    BY <2>1, <1>0, <1>1 DEF BatchInv, View, Seen
<1> QED
  BY <1>1, <1>3, <1>4, <1>5 DEF BatchInv

LEMMA SyncBlockKeeps ==
  ASSUME BatchInv, SyncBlock
  PROVE  BatchInv'
<1>0. /\ UNCHANGED <<chain, dirtyDB, to>> /\ pc = "events" /\ pc' = "event" /\ Pending # {}
      /\ UpdateBlockNumber(Min(Pending)) /\ from' = Min(Pending)
  BY DEF SyncBlock
<1>1. ChainOK' /\ (\A n : ContractAt(n)' = ContractAt(n)) /\ (\A n : EventAt(n)' = EventAt(n))
  BY <1>0, SameChain DEF BatchInv
<1>2. from \in Nat /\ from # 0 /\ to \in Nat /\ to <= Len(chain) /\ Len(chain) \in Nat
  <2>1. Len(chain) \in Nat
    BY SMT DEF BatchInv, ChainOK
  <2> QED
    BY <2>1, <1>0 DEF BatchInv, StoreTypes, InPage
<1>3. PICK n : n = Min(Pending)
  OBVIOUS
<1>4. n \in from..to /\ EventAt(n).type # "none" /\ \A y \in Pending : n <= y
  <2>1. Pending \subseteq Nat
    BY <1>2, SMT DEF Pending
  <2>2. n \in Pending /\ \A y \in Pending : n <= y
    BY <2>1, <1>0, <1>3, MinIsLeast
  <2> QED
    BY <2>2 DEF Pending
<1>5. PICK k : k = from - 1
  OBVIOUS
<1>6. /\ k \in Nat /\ n \in Nat /\ n # 0 /\ n - 1 \in Nat /\ k <= n - 1 /\ n - 1 <= Len(chain)
      /\ k \in 0..Len(chain) /\ k <= n /\ n \in 1..Len(chain)
  BY <1>2, <1>4, <1>5, SMTT(20)
<1>7. \A i \in k + 1..n - 1 : EventAt(i).type = "none"
  <2> SUFFICES ASSUME NEW i \in k + 1..n - 1 PROVE EventAt(i).type = "none"
    OBVIOUS
  <2>1. i \in from..to /\ ~(n <= i)
    BY <1>2, <1>4, <1>5, SMTT(20)
  <2> QED
    BY <2>1, <1>4 DEF Pending
<1>8. /\ ContractAt(n - 1).total = ContractAt(k).total + ((n - 1) - k) * ContractAt(k).price
      /\ ContractAt(n - 1).price = ContractAt(k).price
      /\ ContractAt(n - 1).bal = ContractAt(k).bal
  BY <1>6, <1>7, Quiet DEF BatchInv
<1>9. ContractAt(n).total = ContractAt(n - 1).total + ContractAt(n - 1).price
  BY <1>6 DEF BatchInv, ChainOK, Follows
<1>10. /\ ContractAt(k) \in ContractState /\ ContractAt(k).bal \in [BatchIds -> BatchRecord]
       /\ ContractAt(k).total \in Nat /\ ContractAt(k).price \in Nat
  BY <1>6, ContractTypes DEF BatchInv, ContractState
<1>11. /\ cs.block = k /\ cs.total = ContractAt(k).total /\ cs.price = ContractAt(k).price
       /\ Seen(ContractAt(k).bal, cs.total)
  BY <1>0, <1>5 DEF BatchInv, View
<1>12. PICK f \in [BatchIds -> BatchRecord] : f = ContractAt(k).bal
  BY <1>10
<1>13. /\ batches' \in [BatchIds -> BatchRecord] /\ cs' \in ChainState
       /\ pcs' = cs' \/ (pcs' = NoState /\ cs' = NewChainState(0))
       /\ cs'.block = n /\ cs'.price = cs.price
       /\ cs'.total = cs.total + (n - cs.block) * cs.price
       /\ \A t : t = cs'.total => Seen(f, t)'
  BY <1>0, <1>3, <1>6, <1>11, <1>12, Advanced DEF BatchInv
<1>14. cs'.total = ContractAt(n).total
  <2>1. ((n - 1) - k) * ContractAt(k).price + ContractAt(k).price = (n - k) * ContractAt(k).price
    BY <1>6, <1>10, SMT
  <2>2. ContractAt(n).total =
          ContractAt(k).total + ((n - 1) - k) * ContractAt(k).price + ContractAt(k).price
    BY <1>8, <1>9
  <2>3. cs'.total = ContractAt(k).total + (n - k) * ContractAt(k).price
    BY <1>11, <1>13
  <2>4. ((n - 1) - k) * ContractAt(k).price \in Int /\ (n - k) * ContractAt(k).price \in Int
    BY <1>6, <1>10, SMTT(20)
  <2> QED
    BY <2>1, <2>2, <2>3, <2>4, <1>10, SMTT(20)
<1>15. StoreTypes'
  BY <1>0, <1>2, <1>3, <1>6, <1>13 DEF StoreTypes
<1>16. Stored'
  BY <1>0, <1>13 DEF BatchInv, Stored
<1>17. InPage'
  <2>1. n <= Len(chain) + 1 /\ n <= to + 1 /\ n <= to
    BY <1>2, <1>4, SMT
  <2> QED
    BY <2>1, <1>0, <1>1, <1>2, <1>3, <1>4 DEF InPage
<1>18. View'
  <2>1. PICK t : t = cs'.total
    OBVIOUS
  <2>2. Seen(f, t)'
    BY <2>1, <1>13
  <2>3. ContractAt(n - 1)' = ContractAt(n - 1) /\ ContractAt(n)' = ContractAt(n) /\ from' = n
    BY <1>0, <1>1, <1>3
  <2> QED
    BY <2>1, <2>2, <2>3, <1>0, <1>8, <1>11, <1>12, <1>13, <1>14 DEF View
<1> QED
  BY <1>1, <1>15, <1>16, <1>17, <1>18 DEF BatchInv

LEMMA EndPageKeeps ==
  ASSUME BatchInv, EndPage
  PROVE  BatchInv'
<1>0. /\ UNCHANGED <<chain, to>> /\ pc = "events" /\ pc' = "idle" /\ Pending = {}
      /\ UpdateBlockNumber(to) /\ from' = to + 1 /\ dirtyDB' = FALSE
  BY DEF EndPage, TransactionEnd
<1>1. ChainOK' /\ (\A n : ContractAt(n)' = ContractAt(n))
  BY <1>0, SameChain DEF BatchInv
<1>2. /\ from \in Nat /\ from # 0 /\ to \in Nat /\ to <= Len(chain) /\ Len(chain) \in Nat
      /\ from <= to + 1
  <2>1. Len(chain) \in Nat
    BY SMT DEF BatchInv, ChainOK
  <2> QED
    BY <2>1, <1>0 DEF BatchInv, StoreTypes, InPage
<1>5. PICK k : k = from - 1
  OBVIOUS
<1>6. k \in Nat /\ k <= to /\ k \in 0..Len(chain) /\ k + 1 = from
  BY <1>2, <1>5, SMT
<1>7. \A i \in k + 1..to : EventAt(i).type = "none"
  BY <1>0, <1>6 DEF Pending
<1>8. /\ ContractAt(to).total = ContractAt(k).total + (to - k) * ContractAt(k).price
      /\ ContractAt(to).price = ContractAt(k).price
      /\ ContractAt(to).bal = ContractAt(k).bal
  BY <1>2, <1>6, <1>7, Quiet DEF BatchInv
<1>10. ContractAt(k).bal \in [BatchIds -> BatchRecord]
  BY <1>6, ContractTypes DEF BatchInv, ContractState
<1>11. /\ cs.block = k /\ cs.total = ContractAt(k).total /\ cs.price = ContractAt(k).price
       /\ Seen(ContractAt(k).bal, cs.total)
  BY <1>0, <1>5 DEF BatchInv, View
<1>12. PICK f \in [BatchIds -> BatchRecord] : f = ContractAt(k).bal
  BY <1>10
<1>13. PICK n \in Nat : n = to
  BY <1>2
<1>14. /\ batches' \in [BatchIds -> BatchRecord] /\ cs' \in ChainState
       /\ pcs' = cs' \/ (pcs' = NoState /\ cs' = NewChainState(0))
       /\ cs'.block = n /\ cs'.price = cs.price
       /\ cs'.total = cs.total + (n - cs.block) * cs.price
       /\ \A t : t = cs'.total => Seen(f, t)'
  BY <1>0, <1>6, <1>11, <1>12, <1>13, Advanced DEF BatchInv
<1>15. to + 1 \in Nat /\ to + 1 # 0 /\ to + 1 <= Len(chain) + 1 /\ (to + 1) - 1 = to
  BY <1>2, SMT
<1>16. StoreTypes'
  BY <1>0, <1>2, <1>14, <1>15 DEF StoreTypes
<1>17. Stored' /\ InPage'
  BY <1>0, <1>14, <1>15 DEF Stored, InPage
<1>18. View'
  <2>1. PICK t : t = cs'.total
    OBVIOUS
  <2>2. Seen(f, t)'
    BY <2>1, <1>14
  <2>3. ContractAt(n)' = ContractAt(n) /\ from' - 1 = n /\ pc' # "event"
    BY <1>0, <1>1, <1>13, <1>15
  <2> QED
    BY <2>1, <2>2, <2>3, <1>8, <1>11, <1>12, <1>13, <1>14 DEF View
<1> QED
  BY <1>1, <1>16, <1>17, <1>18 DEF BatchInv

\* Steps that touch only the reserve state and the unreserve queue.
LEMMA ReserveSteps ==
  ASSUME BatchInv, EvictOuter \/ Unreserve \/ UNCHANGED batchVars
  PROVE  BatchInv'
<1>1. /\ UNCHANGED <<chain, batches, pcs, dirtyDB, cs, from, to>>
      /\ pc' = pc \/ (pc = "evictOuter" /\ pc' = "events")
  BY DEF EvictOuter, Unreserve, batchVars
<1>2. ChainOK' /\ (\A n : ContractAt(n)' = ContractAt(n)) /\ (\A n : EventAt(n)' = EventAt(n))
  BY <1>1, SameChain DEF BatchInv
<1>3. StoreTypes' /\ Stored'
  BY <1>1 DEF BatchInv, StoreTypes, Stored
<1>4. PICK k, n : k = from - 1 /\ n = from
  OBVIOUS
<1>5. InPage'
  BY <1>1, <1>2, <1>4 DEF BatchInv, InPage
<1>6. View'
  BY <1>1, <1>2, <1>4 DEF BatchInv, View, Seen
<1> QED
  BY <1>2, <1>3, <1>5, <1>6 DEF BatchInv

LEMMA RestartKeeps ==
  ASSUME BatchInv, RestartService
  PROVE  BatchInv'
<1>0. UNCHANGED chain /\ dirtyDB' = FALSE /\ from' = cs'.block + 1 /\ pc' = "idle" /\ to' = 0
  BY DEF RestartService, StartSync
<1>1. ChainOK' /\ (\A n : ContractAt(n)' = ContractAt(n)) /\ Len(chain) \in Nat
  <2>1. Len(chain) \in Nat
    BY SMT DEF BatchInv, ChainOK
  <2> QED
    BY <2>1, <1>0, SameChain DEF BatchInv
<1>2. CASE dirtyDB
  <2>1. /\ batches' = [b \in BatchIds |-> Absent] /\ pcs' = NoState /\ cs' = NewChainState(0)
    BY <1>2 DEF RestartService, Reset
  <2>2. /\ NewChainState(0) \in ChainState /\ Absent \in BatchRecord /\ 0 \in Nat /\ 1 \in Nat
        /\ 1 # 0 /\ NewChainState(0).block = 0 /\ NewChainState(0).total = 0
        /\ NewChainState(0).price = 0 /\ 0 + 1 = 1 /\ 1 - 1 = 0 /\ 1 <= Len(chain) + 1
    BY <1>1, SMT DEF NewChainState, ChainState, Absent, BatchRecord
  <2>3. StoreTypes' /\ Stored' /\ InPage'
    BY <1>0, <2>1, <2>2 DEF StoreTypes, Stored, InPage
  <2>4. ContractAt(0)' = Genesis /\ Genesis.total = 0 /\ Genesis.price = 0
    BY DEF ContractAt, Genesis
  <2>5. \A b \in BatchIds : batches'[b] = Absent /\ Genesis.bal[b] = Absent
    BY <2>1 DEF Genesis
  <2>6. View'
    <3>1. from' - 1 = 0 /\ pc' # "event"
      BY <1>0, <2>1, <2>2
    <3>2. cs'.block = 0 /\ cs'.total = Genesis.total /\ cs'.price = Genesis.price
      BY <2>1, <2>2, <2>4
    <3>4. PICK z : z = 0
      OBVIOUS
    <3>5. ContractAt(z)' = Genesis
      BY <3>4, <1>1 DEF ContractAt
    <3>6. PICK f, t : f = Genesis.bal /\ t = cs'.total
      OBVIOUS
    <3>7. Seen(f, t)'
      <4>1. \A b \in BatchIds : batches'[b] = f[b]
        BY <2>5, <3>6
      <4> QED
        BY <4>1 DEF Seen
    <3>8. from' - 1 = z /\ cs'.block = z
      BY <3>1, <3>2, <3>4
    <3> QED
      BY <3>1, <3>2, <3>5, <3>6, <3>7, <3>8 DEF View
  <2> QED
    BY <1>1, <2>3, <2>6 DEF BatchInv
<1>3. CASE ~dirtyDB
  <2>1. pc = "idle" /\ cs \in ChainState
    BY <1>3 DEF BatchInv, Stored, StoreTypes
  <2>2. UNCHANGED <<batches, pcs>> /\ cs' = IF pcs = NoState THEN NewChainState(0) ELSE pcs
    BY <1>3 DEF RestartService, ReadStates
  <2>3. cs' = cs
    <3>1. cs # NoState
      <4>1. DOMAIN cs = {"block", "total", "price"}
        BY <2>1, SMT DEF ChainState
      <4>2. DOMAIN NoState = {"none"}
        BY SMT DEF NoState
      <4> QED
        BY <4>1, <4>2, SMT
    <3> QED
      BY <2>2, <3>1 DEF BatchInv, Stored
  <2>4. cs.block = from - 1 /\ from \in Nat
    BY <2>1 DEF BatchInv, View, StoreTypes
  <2>5. cs.block + 1 = from
    BY <2>4, SMT
  <2>6. StoreTypes' /\ Stored' /\ InPage'
    <3>1. 0 \in Nat
      BY SMT
    <3> QED
      BY <1>0, <2>1, <2>2, <2>3, <2>5, <3>1 DEF BatchInv, StoreTypes, Stored, InPage
  <2>7. PICK k : k = from - 1
    OBVIOUS
  <2>8. View'
    BY <1>0, <1>1, <2>1, <2>2, <2>3, <2>5, <2>7 DEF BatchInv, View, Seen
  <2> QED
    BY <1>1, <2>6, <2>8 DEF BatchInv
<1> QED
  BY <1>2, <1>3

\* Every event is one the node can apply, and brings its view to that of the
\* block.
LEMMA ProcessEventKeeps ==
  ASSUME BatchInv, ProcessEvent
  PROVE  BatchInv'
<1>0. /\ UNCHANGED <<chain, dirtyDB, to>> /\ pc = "event" /\ from' = from + 1
  BY DEF ProcessEvent
<1>1. ChainOK' /\ (\A i : ContractAt(i)' = ContractAt(i))
  BY <1>0, SameChain DEF BatchInv
<1>2. PICK n, k : n = from /\ k = from - 1
  OBVIOUS
<1>3. /\ n \in Nat /\ n # 0 /\ to \in Nat /\ n <= to /\ to <= Len(chain) /\ Len(chain) \in Nat
      /\ EventAt(n).type # "none"
  <2>1. Len(chain) \in Nat
    BY SMT DEF BatchInv, ChainOK
  <2> QED
    BY <2>1, <1>0, <1>2 DEF BatchInv, StoreTypes, InPage
<1>4. /\ n \in 1..Len(chain) /\ k = n - 1 /\ k \in 0..Len(chain) /\ n \in 0..Len(chain)
      /\ n + 1 \in Nat /\ n + 1 # 0 /\ (n + 1) - 1 = n /\ n + 1 <= to + 1
      /\ n + 1 <= Len(chain) + 1
  BY <1>2, <1>3, SMT
<1>5. PICK st, e, after : st = ContractAt(k) /\ e = EventAt(n) /\ after = ContractAt(n)
  OBVIOUS
<1>6. Follows(st, e, after)
  BY <1>4, <1>5 DEF BatchInv, ChainOK
<1>7. st \in ContractState /\ after \in ContractState
  BY <1>4, <1>5, ContractTypes DEF BatchInv
<1>8. /\ cs \in ChainState /\ batches \in [BatchIds -> BatchRecord]
      /\ cs.block = n /\ cs.total = after.total /\ cs.price = st.price /\ Seen(st.bal, cs.total)
      /\ dirtyDB /\ cs.total \in Nat
  BY <1>0, <1>2, <1>5 DEF BatchInv, StoreTypes, Stored, View, ChainState
<1>9. SUFFICES /\ pc' \in {"events", "evictOuter"} /\ cs' \in ChainState
               /\ batches' \in [BatchIds -> BatchRecord]
               /\ pcs' = cs' \/ (pcs' = NoState /\ cs' = NewChainState(0))
               /\ cs'.block = n /\ cs'.total = after.total /\ cs'.price = after.price
               /\ \A t : t = cs'.total => Seen(after.bal, t)'
  <2>1. StoreTypes' /\ Stored' /\ InPage'
    BY <1>0, <1>2, <1>3, <1>4, <1>8, <1>9 DEF StoreTypes, Stored, InPage
  <2>2. from' - 1 = n /\ ContractAt(n)' = after /\ pc' # "event"
    BY <1>0, <1>1, <1>2, <1>4, <1>5, <1>9
  <2>3. PICK t : t = cs'.total
    OBVIOUS
  <2>4. View'
    BY <2>2, <2>3, <1>9 DEF View
  <2> QED
    BY <2>1, <2>4, <1>1 DEF BatchInv
<1>10. CASE e.type = "price"
  <2>1. after.price = e.price /\ after.bal = st.bal /\ after.price \in Nat
    BY <1>6, <1>7, <1>10 DEF Follows, ContractState
  <2>2. PutChainState([cs EXCEPT !.price = e.price]) /\ pc' = "events"
    BY <1>2, <1>5, <1>10 DEF ProcessEvent, UpdatePrice
  <2>3. PICK c : c = [cs EXCEPT !.price = e.price]
    OBVIOUS
  <2>4. /\ c \in ChainState /\ c.block = n /\ c.total = after.total /\ c.price = after.price
    BY <2>1, <2>3, <1>8 DEF ChainState
  <2>5. cs.total <= c.total /\ c.total = cs.total
    BY <1>8, <2>4, SMT
  <2>6. PICK f \in [BatchIds -> BatchRecord] : f = st.bal
    BY <1>7 DEF ContractState
  <2>7. /\ batches' \in [BatchIds -> BatchRecord] /\ cs' = c /\ pcs' = c
        /\ Seen(f, c.total)'
    <3>1. StoreTypes /\ PutChainState(c) /\ Seen(f, cs.total)
      BY <2>2, <2>3, <2>6, <1>8 DEF BatchInv
    <3> QED
      BY <3>1, <2>4, <2>5, Purged
  <2> QED
    BY <2>1, <2>2, <2>4, <2>6, <2>7
<1>11. CASE e.type \in {"created", "changed"}
  <2>1. /\ e.batch \in BatchIds /\ after.price = st.price
        /\ after.bal = [st.bal EXCEPT ![e.batch] = [value |-> e.value, depth |-> e.depth]]
        /\ e.type = "changed" => st.bal[e.batch].value > after.total
    BY <1>6, <1>11 DEF Follows
  <2>2. e.type = "changed" => Known(e)
    <3> SUFFICES ASSUME e.type = "changed" PROVE Known(e)
      OBVIOUS
    <3>1. st.bal[e.batch].value > cs.total
      BY <2>1, <1>8
    <3>2. batches[e.batch] = st.bal[e.batch]
      BY <3>1, <2>1, <1>8 DEF Seen
    <3>3. Absent.value = 0 /\ ~(0 > cs.total)
      BY <1>8, SMT DEF Absent
    <3> QED
      BY <3>1, <3>2, <3>3 DEF Known
  <2>3. \E old : PutBatch(e.batch, old, e.value, e.depth)
    <3>1. CASE e.type = "created"
      BY <3>1, <1>2, <1>5 DEF ProcessEvent, Create
    <3>2. CASE e.type = "changed"
      BY <3>2, <2>2, <1>2, <1>5 DEF ProcessEvent, ChangeBatch
    <3> QED
      BY <3>1, <3>2, <1>11
  <2>4. PICK r : r = [value |-> e.value, depth |-> e.depth]
    OBVIOUS
  <2>5. /\ batches' = [batches EXCEPT ![e.batch] = r] /\ UNCHANGED <<pcs, cs>>
        /\ pc' \in {"events", "evictOuter"}
    BY <2>3, <2>4 DEF PutBatch, Update, AfterUpdate
  <2>6. st.bal \in [BatchIds -> BatchRecord] /\ after.bal \in [BatchIds -> BatchRecord]
    BY <1>7 DEF ContractState
  <2>7. after.bal[e.batch] = r /\ \A b \in BatchIds : b # e.batch => after.bal[b] = st.bal[b]
    BY <2>1, <2>4, <2>6
  <2>8. r \in BatchRecord
    BY <2>1, <2>6, <2>7
  <2>9. /\ batches'[e.batch] = r /\ batches' \in [BatchIds -> BatchRecord]
        /\ \A b \in BatchIds : b # e.batch => batches'[b] = batches[b]
    BY <2>1, <2>5, <2>8, <1>8
  <2>10. \A b \in BatchIds : /\ after.bal[b].value > cs.total => batches'[b] = after.bal[b]
                             /\ batches'[b] # Absent => batches'[b] = after.bal[b]
    BY <2>7, <2>9, <1>8 DEF Seen
  <2>11. \A t : t = cs.total => Seen(after.bal, t)'
    BY <2>10 DEF Seen
  <2> QED
    BY <2>1, <2>5, <2>9, <2>11, <1>8 DEF BatchInv, Stored
<1> QED
  BY <1>3, <1>5, <1>6, <1>10, <1>11 DEF Follows

-----------------------------------------------------------------------------
LEMMA BatchStep == BatchInv /\ [BatchNext]_batchVars => BatchInv'
  BY MineKeeps, SyncPageKeeps, SyncBlockKeeps, ProcessEventKeeps, EndPageKeeps, ReserveSteps,
     RestartKeeps DEF BatchNext

\* Between pages the node's view is the contract's, and no event stops the
\* syncer: for any batches, prices, pages and chains, and whatever crashes and
\* resynchronisations came before (ViewOfChain).
THEOREM ViewIsOfChain == BatchSpec => []ViewOfChain
<1>1. BatchInv => ViewOfChain
  <2> SUFFICES ASSUME BatchInv PROVE ViewOfChain
    OBVIOUS
  <2>1. pc # "stopped"
    BY DEF BatchInv, StoreTypes
  <2>2. pc = "idle" => cs.block = from - 1 /\ cs.total = ContractAt(cs.block).total
    BY DEF BatchInv, View
  <2>3. pc = "idle" => cs.price = ContractAt(cs.block).price
    BY <2>2 DEF BatchInv, View
  <2>4. ASSUME pc = "idle", NEW b \in BatchIds
        PROVE  /\ Live(ContractAt(cs.block), b) => batches[b] = ContractAt(cs.block).bal[b]
               /\ batches[b] # Absent => batches[b] = ContractAt(cs.block).bal[b]
    <3>1. Seen(ContractAt(cs.block).bal, ContractAt(cs.block).total)
      BY <2>2, <2>4 DEF BatchInv, View
    <3> QED
      BY <3>1 DEF Seen, Live
  <2> QED
    BY <2>1, <2>2, <2>3, <2>4 DEF ViewOfChain
<1> QED
  BY <1>1, BatchStart, BatchStep, PTL DEF BatchSpec
=============================================================================
