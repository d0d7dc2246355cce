------------------------- MODULE TransactionProofs -------------------------
(***************************************************************************)
(* Proofs that two requests never get one nonce and that a transaction     *)
(* reported as cancelled never is in the chain (NoncesUnique and           *)
(* CancelledIsFinal of Transactions), for any number of requests,          *)
(* cancellations, blocks, dropped transactions, reorganisations, failed    *)
(* calls and crashes.                                                      *)
(***************************************************************************)
EXTENDS Transactions, TLAPS, FiniteSetTheorems, SequenceTheorems, WellFoundedInduction

\* Most leaves are first-order; the ones with arithmetic cite SMT.
USE Zenon

\* A nonempty set of natural numbers has a least one.
LEMMA LeastExists ==
  ASSUME NEW S, S \subseteq Nat, S # {}
  PROVE  \E x \in S : \A y \in S : x <= y
<1> DEFINE less == {q \in Nat \X Nat : q[1] < q[2]}
<1>1. IsWellFoundedOn(less, Nat)
  BY NatLessThanWellFounded, Zenon DEF OpToRel
<1>2. PICK x \in S : \A y \in S : ~ (<<y, x>> \in less)
  BY <1>1, WFMin, Zenon
<1>3. \A y \in S : ~ (y < x)
  <2> TAKE y \in S
  <2> DEFINE q == <<y, x>>
  <2>1. q \in Nat \X Nat /\ q[1] = y /\ q[2] = x
    OBVIOUS
  <2> HIDE DEF q
  <2>2. q[1] < q[2] => q \in less
    BY <2>1
  <2> QED
    BY <1>2, <2>1, <2>2 DEF q
<1>4. \A y \in S : x <= y
  BY <1>3, SMT
<1> QED
  BY <1>4, Zenon

\* So Min is defined on it.
LEMMA MinIsMember ==
  ASSUME NEW S, S \subseteq Nat, S # {}
  PROVE  Min(S) \in S
BY LeastExists, Zenon DEF Min

\* The nonce of the sender at a block counts its transactions.
LEMMA NonceAtType ==
  ASSUME NEW b \in Nat
  PROVE  NonceAt(b) \in Nat
<1> DEFINE used == {i \in 1..b : i <= Len(blocks) /\ blocks[i] # NoTx}
<1>1. IsFiniteSet(1..b) /\ used \subseteq 1..b
  BY FS_Interval, SMT
<1>2. IsFiniteSet(used)
  BY <1>1, FS_Subset
<1> QED
  BY <1>2, FS_CardinalityType DEF NonceAt

\* PendingNonceAt is defined: a pool of k transactions leaves one of k + 1
\* successive nonces free.
LEMMA PendingNonceType ==
  ASSUME Len(blocks) \in Nat, IsFiniteSet(pool), \A p \in pool : p.nonce \in Nat
  PROVE  PendingNonceAt \in Nat
<1> DEFINE mined == NonceAt(Len(blocks))
           size == Cardinality(pool)
           free == {n \in mined..mined + size : n \notin PoolNonces}
           f == [p \in pool |-> p.nonce]
<1>1. mined \in Nat /\ size \in Nat
  BY NonceAtType, FS_CardinalityType
<1>2. IsFiniteSet(PoolNonces) /\ Cardinality(PoolNonces) <= size
  <2>1. f \in [pool -> Nat]
    OBVIOUS
  <2>2. PoolNonces = {f[p] : p \in pool}
    BY DEF PoolNonces
  <2>3. f \in Surjection(pool, PoolNonces)
    BY <2>1, <2>2 DEF Surjection
  <2> QED
    BY <2>3, FS_Surjection
<1> HIDE DEF mined, size
<1>3. Cardinality(mined..mined + size) = size + 1
  BY <1>1, FS_Interval, SMT
<1>4. free # {}
  <2> SUFFICES ASSUME free = {} PROVE FALSE
    OBVIOUS
  <2>1. mined..mined + size \subseteq PoolNonces
    OBVIOUS
  <2>2. Cardinality(mined..mined + size) <= Cardinality(PoolNonces)
    BY <2>1, <1>2, FS_Subset, Zenon
  <2>3. Cardinality(PoolNonces) \in Nat
    BY <1>2, FS_CardinalityType
  <2> QED
    BY <2>2, <2>3, <1>1, <1>2, <1>3, SMT
<1>5. free \subseteq Nat
  BY <1>1, SMT
<1>6. Min(free) \in free
  BY <1>4, <1>5, MinIsMember
<1> QED
  BY <1>5, <1>6 DEF PendingNonceAt, mined, size

-----------------------------------------------------------------------------
Request(r) == <<r, "request">>

CallState == [tx : Tx \cup {NoTx}, nonce : Nat, step : {"idle", "sent", "nonce", "stored"}]

TxTypes ==
  /\ blocks \in Seq(Tx \cup {NoTx})
  /\ IsFiniteSet(pool) /\ \A p \in pool : p.tx \in Tx /\ p.nonce \in Nat
  /\ nonceStore \in Nat \cup {NoNonce}
  /\ stored \in [Tx -> Nat \cup {NoNonce}]
  /\ sending \in [Call -> CallState]

\* Send works on requests and CancelTransaction on cancellations, which starts
\* where a nonce is known.
CallsApart ==
  /\ sending["send"].step # "idle" => \E r \in Req : sending["send"].tx = Request(r)
  /\ sending["cancel"].step # "idle" =>
       \E r \in Cancellable : sending["cancel"].tx = <<r, "cancel">>
  /\ sending["cancel"].step # "sent"

\* The nonces that are stored with requests lie below the next nonce; so does
\* that of the call in progress once the next nonce is stored, and not before.
BelowNext ==
  /\ \A r \in Req : stored[Request(r)] # NoNonce => stored[Request(r)] < nonceStore
  /\ sending["send"].step = "sent" => sending["send"].nonce >= nonceStore
  /\ sending["send"].step = "nonce" =>
       /\ sending["send"].nonce < nonceStore
       /\ \A r \in Req : stored[Request(r)] # sending["send"].nonce

IInv == TxTypes /\ CallsApart /\ BelowNext /\ NoncesUnique

-----------------------------------------------------------------------------
\* Nothing is sent and nothing stored when the node starts for the first time.
LEMMA TxInitially ==
  ASSUME Cancellable \subseteq Req, TxInit
  PROVE  IInv
<1>1. IsFiniteSet(pool)
  BY FS_EmptySet DEF TxInit
<1>2. \A r \in Req : Request(r) \in Tx
  BY DEF Tx, Request
<1>3. \A k \in Call : sending[k] = NoCall
  BY DEF TxInit
<1>4. NoCall \in CallState /\ NoCall.step = "idle"
  BY DEF NoCall, CallState
<1>5. "send" \in Call /\ "cancel" \in Call
  BY DEF Call
<1>6. sending \in [Call -> CallState]
  BY <1>4 DEF TxInit
<1>7. TxTypes
  BY <1>1, <1>6, SMT DEF TxInit, TxTypes
<1>8. CallsApart
  BY <1>3, <1>4, <1>5 DEF CallsApart
<1>9. \A r \in Req : stored[Request(r)] = NoNonce
  BY <1>2 DEF TxInit
<1>10. BelowNext
  BY <1>3, <1>4, <1>5, <1>9 DEF BelowNext
<1>11. NoncesUnique
  BY <1>9 DEF NoncesUnique, Request
<1> QED
  BY <1>7, <1>8, <1>10, <1>11 DEF IInv

\* The invariant is kept by a step that leaves the stores and the calls alone,
\* when the chain keeps its types.
LEMMA ChainKeepsInv ==
  ASSUME IInv, UNCHANGED <<nonceStore, stored, sending>>,
         blocks' \in Seq(Tx \cup {NoTx}), IsFiniteSet(pool'),
         \A p \in pool' : p.tx \in Tx /\ p.nonce \in Nat
  PROVE  IInv'
<1>1. TxTypes'
  BY DEF IInv, TxTypes
<1>2. CallsApart' /\ BelowNext'
  BY DEF IInv, CallsApart, BelowNext
<1>3. NoncesUnique'
  BY DEF IInv, NoncesUnique
<1> QED
  BY <1>1, <1>2, <1>3 DEF IInv

\* The pool after a transaction was accepted.
LEMMA InPoolType ==
  ASSUME NEW t \in Tx, NEW n \in Nat, TxTypes, pool' = InPool(t, n)
  PROVE  IsFiniteSet(pool') /\ \A p \in pool' : p.tx \in Tx /\ p.nonce \in Nat
<1> DEFINE others == {p \in pool : p.nonce # n}
           new == [tx |-> t, nonce |-> n]
<1>1. IsFiniteSet(others)
  BY FS_Subset DEF TxTypes
<1>2. pool' = others \cup {new}
  BY DEF InPool
<1>3. new.tx = t /\ new.nonce = n
  OBVIOUS
<1>4. \A p \in others : p.tx \in Tx /\ p.nonce \in Nat
  BY DEF TxTypes
<1> HIDE DEF others, new
<1>5. IsFiniteSet(others \cup {new})
  BY <1>1, FS_AddElement
<1> QED
  BY <1>2, <1>3, <1>4, <1>5

\* The chain: mining, a reorganisation and a dropped transaction.
LEMMA ChainSteps ==
  ASSUME IInv, MineTx \/ Reorg \/ (\E p \in pool : Drop(p))
  PROVE  IInv'
<1> USE DEF IInv
<1>1. UNCHANGED <<nonceStore, stored, sending>>
  BY DEF MineTx, Reorg, Drop, storeVars
<1>2. Len(blocks) \in Nat /\ NoTx \in Tx \cup {NoTx}
  BY SMT DEF TxTypes
<1>3. CASE MineTx
  <2>1. CASE blocks' = Append(blocks, NoTx) /\ UNCHANGED pool
    <3>1. blocks' \in Seq(Tx \cup {NoTx})
      BY <2>1, <1>2, AppendProperties DEF TxTypes
    <3> QED
      BY <1>1, <2>1, <3>1, ChainKeepsInv DEF TxTypes
  <2>2. ASSUME NEW p \in pool, blocks' = Append(blocks, p.tx),
               pool' = {q \in pool : q.nonce # p.nonce}
        PROVE  IInv'
    <3>1. blocks' \in Seq(Tx \cup {NoTx})
      BY <2>2, AppendProperties DEF TxTypes
    <3>2. IsFiniteSet(pool') /\ pool' \subseteq pool
      BY <2>2, FS_Subset DEF TxTypes
    <3> QED
      BY <1>1, <3>1, <3>2, ChainKeepsInv DEF TxTypes
  <2> QED
    BY <1>3, <2>1, <2>2 DEF MineTx
<1>4. CASE Reorg
  <2> DEFINE top == Len(blocks)
             back == [tx |-> blocks[top], nonce |-> NonceAt(top) - 1]
  <2>1. /\ blocks # <<>> /\ blocks[top] # NoTx
        /\ blocks' = [blocks EXCEPT ![top] = NoTx]
        /\ pool' = pool \/ pool' = pool \cup {back}
    BY <1>4 DEF Reorg
  <2>2. top \in 1..Len(blocks)
    BY <2>1, <1>2, EmptySeq, SMT DEF TxTypes
  <2>3. blocks' \in Seq(Tx \cup {NoTx})
    BY <2>1, <2>2, <1>2, ExceptSeq DEF TxTypes
  <2>4. blocks[top] \in Tx
    BY <2>1, <2>2, SMT DEF TxTypes
  <2>5. NonceAt(top) \in Nat /\ NonceAt(top) # 0
    <3> DEFINE used == {i \in 1..top : i <= Len(blocks) /\ blocks[i] # NoTx}
    <3>1. top \in used
      BY <2>1, <2>2, <1>2, SMT
    <3>2. IsFiniteSet(1..top) /\ used \subseteq 1..top
      BY <1>2, FS_Interval, SMT
    <3>3. IsFiniteSet(used)
      BY <3>2, FS_Subset
    <3>4. Cardinality(used) # 0
      BY <3>1, <3>3, FS_EmptySet
    <3> QED
      BY <3>4, <1>2, NonceAtType DEF NonceAt
  <2>6. back.tx \in Tx /\ back.nonce \in Nat
    BY <2>4, <2>5, SMT
  <2> HIDE DEF top, back
  <2>7. IsFiniteSet(pool')
    BY <2>1, FS_AddElement, SMT DEF TxTypes
  <2>8. \A p \in pool' : p.tx \in Tx /\ p.nonce \in Nat
    BY <2>1, <2>6 DEF TxTypes
  <2> QED
    BY <1>1, <2>3, <2>7, <2>8, ChainKeepsInv
<1>5. ASSUME NEW p \in pool, Drop(p)
      PROVE  IInv'
  <2>1. pool' = pool \ {p} /\ blocks' = blocks
    BY <1>5 DEF Drop
  <2>2. IsFiniteSet(pool')
    BY <2>1, FS_RemoveElement DEF TxTypes
  <2> QED
    BY <1>1, <2>1, <2>2, ChainKeepsInv DEF TxTypes
<1> QED
  BY <1>3, <1>4, <1>5

\* The monitor, the goroutines that wait and resending touch no nonce.
LEMMA OtherSteps ==
  ASSUME IInv, Monitor \/ (\E t \in Tx : ResendTransaction(t) \/ Unregister(t)) \/ UNCHANGED txVars
  PROVE  IInv'
<1>1. UNCHANGED <<nonceStore, stored, sending, blocks>>
  BY DEF Monitor, CheckPending, Receipts, Notify, CheckFails, ResendTransaction, Unregister,
         chainVars, storeVars, txVars
<1>2. ASSUME NEW t \in Tx, ResendTransaction(t)
      PROVE  IInv'
  <2>1. stored[t] \in Nat /\ pool' = InPool(t, stored[t])
    BY <1>2 DEF ResendTransaction, IInv, TxTypes
  <2>2. IsFiniteSet(pool') /\ \A p \in pool' : p.tx \in Tx /\ p.nonce \in Nat
    BY <2>1, InPoolType DEF IInv
  <2> QED
    BY <1>1, <2>2, ChainKeepsInv DEF IInv, TxTypes
<1>3. CASE UNCHANGED pool
  BY <1>1, <1>3, ChainKeepsInv DEF IInv, TxTypes
<1> QED
  BY <1>2, <1>3 DEF Monitor, CheckPending, Receipts, Notify, CheckFails, Unregister,
         chainVars, txVars

\* What one of the two calls holds, and that the calls are different.
LEMMA CallFacts ==
  ASSUME TxTypes
  PROVE  /\ "send" \in Call /\ "cancel" \in Call /\ "send" # "cancel"
         /\ \A k \in Call : /\ sending[k].nonce \in Nat
                            /\ sending[k] \in CallState
         /\ \A k \in Call : k = "send" \/ k = "cancel"
         /\ NoCall \in CallState /\ NoCall.step = "idle"
BY DEF TxTypes, Call, CallState, NoCall

\* The nonce that Send chooses is at least the stored one.
LEMMA NextNonceBound ==
  ASSUME TxTypes
  PROVE  NextNonce \in Nat /\ NextNonce >= nonceStore
<1>1. PendingNonceAt \in Nat
  BY PendingNonceType, SMT DEF TxTypes
<1> QED
  BY <1>1, SMT DEF NextNonce, TxTypes, NoNonce

\* Send: the call holds a nonce at or above the stored one, or failed although
\* the transaction is in the pool.
LEMMA SendKeepsInv ==
  ASSUME IInv, NEW r \in Req, Send(r)
  PROVE  IInv'
<1> DEFINE t == Request(r)
           n == NextNonce
           c == [tx |-> t, nonce |-> n, step |-> "sent"]
<1> USE DEF IInv
<1>1. t \in Tx /\ n \in Nat /\ n >= nonceStore
  BY NextNonceBound DEF Tx, Request
<1>2. /\ pool' = InPool(t, n)
      /\ UNCHANGED <<blocks, nonceStore, stored>>
      /\ sending' = [sending EXCEPT !["send"] = c] \/ sending' = sending
  BY DEF Send, Request, storeVars
<1>3. c \in CallState /\ c.tx = t /\ c.nonce = n /\ c.step = "sent"
  BY <1>1 DEF CallState
<1> HIDE DEF n, c
<1>4. IsFiniteSet(pool') /\ \A p \in pool' : p.tx \in Tx /\ p.nonce \in Nat
  BY <1>1, <1>2, InPoolType
<1>5. CASE sending' = sending
  BY <1>2, <1>4, <1>5, ChainKeepsInv DEF TxTypes
<1>6. CASE sending' = [sending EXCEPT !["send"] = c]
  <2>1. /\ sending' \in [Call -> CallState]
        /\ sending'["send"] = c /\ sending'["cancel"] = sending["cancel"]
    BY <1>3, <1>6, CallFacts DEF TxTypes
  <2>2. TxTypes'
    BY <1>2, <1>4, <2>1 DEF TxTypes
  <2>3. CallsApart'
    BY <1>3, <2>1 DEF CallsApart
  <2>4. BelowNext'
    BY <1>1, <1>2, <1>3, <2>1 DEF BelowNext
  <2>5. NoncesUnique'
    BY <1>2 DEF NoncesUnique
  <2> QED
    BY <2>2, <2>3, <2>4, <2>5
<1> QED
  BY <1>2, <1>5, <1>6

\* The nonce is stored: it is above those of all requests stored before.
LEMMA PutNonceKeepsInv ==
  ASSUME IInv, PutNonce
  PROVE  IInv'
<1> DEFINE s == sending["send"]
           c == [s EXCEPT !.step = "nonce"]
<1> USE DEF IInv
<1>1. /\ s.step = "sent" /\ nonceStore' = s.nonce + 1
      /\ sending' = [sending EXCEPT !["send"] = c]
      /\ UNCHANGED <<blocks, pool, stored>>
  BY DEF PutNonce, chainVars
<1>2. s \in CallState /\ s.nonce \in Nat
  BY CallFacts
<1>3. c \in CallState /\ c.tx = s.tx /\ c.nonce = s.nonce /\ c.step = "nonce"
  BY <1>2 DEF CallState
<1> HIDE DEF c
<1>4. /\ sending' \in [Call -> CallState]
      /\ sending'["send"] = c /\ sending'["cancel"] = sending["cancel"]
  BY <1>1, <1>3, CallFacts DEF TxTypes
<1>5. TxTypes'
  BY <1>1, <1>2, <1>4, SMT DEF TxTypes
<1>6. CallsApart'
  BY <1>1, <1>3, <1>4 DEF CallsApart
<1>7. \A q \in Req : stored[Request(q)] # NoNonce => stored[Request(q)] < s.nonce
  <2> TAKE q \in Req
  <2>1. stored[Request(q)] \in Nat \cup {NoNonce} /\ nonceStore \in Nat \cup {NoNonce}
    BY DEF TxTypes, Tx, Request
  <2>2. nonceStore <= s.nonce
    BY <1>1, <1>2, <2>1 DEF BelowNext, NoNonce
  <2> QED
    BY <1>2, <2>1, <2>2, SMT DEF BelowNext, NoNonce
<1>8. \A q \in Req : stored[Request(q)] \in Nat \cup {NoNonce}
  BY DEF TxTypes, Tx, Request
<1>9. BelowNext'
  BY <1>1, <1>2, <1>3, <1>4, <1>7, <1>8, SMT DEF BelowNext, NoNonce
<1>10. NoncesUnique'
  BY <1>1 DEF NoncesUnique
<1> QED
  BY <1>5, <1>6, <1>9, <1>10

\* The record of a transaction is stored: a request's nonce is one that no other
\* request has; a cancellation is not a request.
LEMMA PutStoredKeepsInv ==
  ASSUME Cancellable \subseteq Req, IInv, NEW k \in Call, PutStored(k)
  PROVE  IInv'
<1> DEFINE s == sending[k]
           c == [s EXCEPT !.step = "stored"]
<1> USE DEF IInv
<1>1. /\ s.step = "nonce" /\ stored' = [stored EXCEPT ![s.tx] = s.nonce]
      /\ sending' = [sending EXCEPT ![k] = c]
      /\ UNCHANGED <<blocks, pool, nonceStore>>
  BY DEF PutStored, chainVars
<1>2. s \in CallState /\ s.nonce \in Nat
  BY CallFacts
<1>3. c \in CallState /\ c.tx = s.tx /\ c.nonce = s.nonce /\ c.step = "stored"
  BY <1>2 DEF CallState
<1>4. s.tx \in Tx
  <2>1. CASE k = "send"
    <3>1. PICK r \in Req : s.tx = Request(r)
      BY <1>1, <2>1 DEF CallsApart
    <3> QED
      BY <3>1, SMT DEF Tx, Request
  <2>2. CASE k = "cancel"
    <3>1. PICK r \in Cancellable : s.tx = <<r, "cancel">>
      BY <1>1, <2>2 DEF CallsApart
    <3> QED
      BY <3>1, SMT DEF Tx
  <2> QED
    BY <2>1, <2>2, CallFacts
<1> HIDE DEF c
<1>5. /\ sending' \in [Call -> CallState] /\ sending'[k] = c
      /\ \A j \in Call : j # k => sending'[j] = sending[j]
  BY <1>1, <1>3, CallFacts DEF TxTypes
<1>6. stored' \in [Tx -> Nat \cup {NoNonce}]
  BY <1>1, <1>2, <1>4 DEF TxTypes
<1>7. TxTypes'
  BY <1>1, <1>5, <1>6 DEF TxTypes
<1>8. CASE k = "cancel"
  <2>1. PICK r \in Cancellable : s.tx = <<r, "cancel">>
    BY <1>1, <1>8 DEF CallsApart
  <2>2. \A q \in Req : Request(q) \in Tx /\ Request(q) # s.tx
    BY <2>1, SMT DEF Request, Tx
  <2>3. \A q \in Req : stored'[Request(q)] = stored[Request(q)]
    BY <1>1, <2>2 DEF TxTypes
  <2>4. sending'["send"] = sending["send"] /\ sending'["cancel"] = c
    BY <1>5, <1>8, CallFacts
  <2>5. CallsApart'
    BY <1>3, <2>1, <2>4 DEF CallsApart
  <2>6. BelowNext'
    BY <1>1, <2>3, <2>4 DEF BelowNext
  <2>7. NoncesUnique'
    BY <2>3 DEF NoncesUnique, Request
  <2> QED
    BY <1>7, <2>5, <2>6, <2>7
<1>9. CASE k = "send"
  <2>1. PICK r \in Req : s.tx = Request(r)
    BY <1>1, <1>9 DEF CallsApart
  <2>2. \A q \in Req : Request(q) \in Tx /\ (Request(q) = s.tx => q = r)
    BY <2>1, SMT DEF Request, Tx
  <2>3. \A q \in Req : stored'[Request(q)] = IF q = r THEN s.nonce ELSE stored[Request(q)]
    BY <1>1, <2>1, <2>2 DEF TxTypes
  <2>4. s.nonce < nonceStore /\ \A q \in Req : stored[Request(q)] # s.nonce
    BY <1>1, <1>9 DEF BelowNext
  <2>5. sending'["cancel"] = sending["cancel"] /\ sending'["send"] = c
    BY <1>5, <1>9, CallFacts
  <2>6. CallsApart'
    BY <1>1, <1>3, <1>9, <2>5 DEF CallsApart
  <2>7. BelowNext'
    BY <1>1, <1>3, <2>3, <2>4, <2>5 DEF BelowNext
  <2>8. \A p, q \in Req : p # q /\ stored'[Request(p)] # NoNonce
                            => stored'[Request(p)] # stored'[Request(q)]
    BY <2>3, <2>4 DEF NoncesUnique, Request
  <2>9. NoncesUnique'
    BY <2>8 DEF NoncesUnique, Request
  <2> QED
    BY <1>7, <2>6, <2>7, <2>9
<1> QED
  BY <1>8, <1>9, CallFacts

\* A call ends.
LEMMA PutPendingKeepsInv ==
  ASSUME IInv, NEW k \in Call, PutPending(k)
  PROVE  IInv'
<1> USE DEF IInv
<1>1. sending' = [sending EXCEPT ![k] = NoCall] /\ UNCHANGED <<blocks, pool, nonceStore, stored>>
  BY DEF PutPending, chainVars
<1>2. /\ sending' \in [Call -> CallState] /\ sending'[k] = NoCall
      /\ \A j \in Call : j # k => sending'[j] = sending[j]
  BY <1>1, CallFacts DEF TxTypes
<1>3. TxTypes'
  BY <1>1, <1>2 DEF TxTypes
<1>4. CallsApart'
  BY <1>2, CallFacts DEF CallsApart
<1>5. BelowNext'
  BY <1>1, <1>2, CallFacts DEF BelowNext
<1>6. NoncesUnique'
  BY <1>1 DEF NoncesUnique
<1> QED
  BY <1>3, <1>4, <1>5, <1>6

\* A cancellation takes over the nonce of its request, under a record of its own.
LEMMA CancelKeepsInv ==
  ASSUME Cancellable \subseteq Req, IInv, NEW r \in Cancellable, CancelTransaction(r)
  PROVE  IInv'
<1> DEFINE t == <<r, "cancel">>
           n == stored[Request(r)]
           c == [tx |-> t, nonce |-> n, step |-> "nonce"]
<1> USE DEF IInv
<1>1. /\ n # NoNonce /\ pool' = InPool(t, n) /\ sending' = [sending EXCEPT !["cancel"] = c]
      /\ UNCHANGED <<blocks, nonceStore, stored>>
  BY DEF CancelTransaction, Request, storeVars
<1>2. t \in Tx /\ n \in Nat
  BY <1>1 DEF TxTypes, Tx, Request
<1>3. c \in CallState /\ c.tx = t /\ c.step = "nonce"
  BY <1>2 DEF CallState
<1> HIDE DEF n, c
<1>4. IsFiniteSet(pool') /\ \A p \in pool' : p.tx \in Tx /\ p.nonce \in Nat
  BY <1>1, <1>2, InPoolType
<1>5. /\ sending' \in [Call -> CallState]
      /\ sending'["cancel"] = c /\ sending'["send"] = sending["send"]
  BY <1>1, <1>3, CallFacts DEF TxTypes
<1>6. TxTypes'
  BY <1>1, <1>4, <1>5, Zenon DEF TxTypes
<1>7. CallsApart'
  BY <1>3, <1>5 DEF CallsApart
<1>8. BelowNext'
  BY <1>1, <1>5 DEF BelowNext
<1>9. NoncesUnique'
  BY <1>1 DEF NoncesUnique
<1> QED
  BY <1>6, <1>7, <1>8, <1>9

\* A crash ends both calls wherever they are; what was stored stays.
LEMMA RestartTxKeepsInv ==
  ASSUME IInv, RestartTx
  PROVE  IInv'
<1> USE DEF IInv
<1>1. sending' = [k \in Call |-> NoCall] /\ UNCHANGED <<blocks, pool, nonceStore, stored>>
  BY DEF RestartTx, storeVars
<1>2. sending' \in [Call -> CallState] /\ sending'["send"] = NoCall /\ sending'["cancel"] = NoCall
  BY <1>1, CallFacts
<1>3. TxTypes'
  BY <1>1, <1>2 DEF TxTypes
<1>4. CallsApart' /\ BelowNext'
  BY <1>1, <1>2, CallFacts DEF CallsApart, BelowNext
<1>5. NoncesUnique'
  BY <1>1 DEF NoncesUnique
<1> QED
  BY <1>3, <1>4, <1>5

-----------------------------------------------------------------------------
\* Every step keeps the invariant.
LEMMA TxStep ==
  ASSUME IInv, [TxNext]_txVars
  PROVE  IInv'
<1>1. CASE MineTx \/ Reorg \/ \E p \in pool : Drop(p)
  BY <1>1, ChainSteps
<1>2. CASE Monitor \/ (\E t \in Tx : ResendTransaction(t) \/ Unregister(t)) \/ UNCHANGED txVars
  BY <1>2, OtherSteps
<1>3. CASE PutNonce
  BY <1>3, PutNonceKeepsInv
<1>4. CASE RestartTx
  BY <1>4, RestartTxKeepsInv
<1>5. CASE \E r \in Req : Send(r)
  BY <1>5, SendKeepsInv
<1>6. CASE \E r \in Cancellable : CancelTransaction(r)
  BY <1>6, CancelKeepsInv, TransactionsAssumption
<1>7. CASE \E k \in Call : PutStored(k) \/ PutPending(k)
  BY <1>7, PutStoredKeepsInv, PutPendingKeepsInv, TransactionsAssumption
<1> QED
  BY <1>1, <1>2, <1>3, <1>4, <1>5, <1>6, <1>7 DEF TxNext

\* Two requests never get one nonce, whatever the pool drops, however blocks are
\* replaced and wherever Send is interrupted: the next nonce is stored before the
\* record of the transaction is (nextNonce, putNonce, Send).
THEOREM NoncesAreUnique == TxSpec => []NoncesUnique
<1>1. TxInit => IInv
  BY TxInitially, TransactionsAssumption
<1>2. IInv /\ [TxNext]_txVars => IInv'
  BY TxStep
<1>3. IInv => NoncesUnique
  BY DEF IInv
<1> QED
  BY <1>1, <1>2, <1>3, PTL DEF TxSpec

-----------------------------------------------------------------------------

\* Block i holds a transaction of the sender.
Holds(i) == i \in 1..Len(blocks) /\ blocks[i] # NoTx

\* The nonce at a block is the number of transactions up to it.
LEMMA NonceNext ==
  ASSUME Len(blocks) \in Nat, NEW b \in Nat
  PROVE  NonceAt(b + 1) = IF Holds(b + 1) THEN NonceAt(b) + 1 ELSE NonceAt(b)
<1> DEFINE used(c) == {i \in 1..c : i <= Len(blocks) /\ blocks[i] # NoTx}
<1>1. IsFiniteSet(used(b))
  <2>1. IsFiniteSet(1..b)
    BY FS_Interval, SMT
  <2>2. used(b) \in SUBSET (1..b)
    OBVIOUS
  <2> QED
    BY <2>1, <2>2, FS_Subset
<1>2. b + 1 \notin used(b)
  BY SMT
<1>3. used(b + 1) = IF Holds(b + 1) THEN used(b) \cup {b + 1} ELSE used(b)
  BY SMT DEF Holds
<1>4. NonceAt(b + 1) = Cardinality(used(b + 1)) /\ NonceAt(b) = Cardinality(used(b))
  BY DEF NonceAt
<1> HIDE DEF used
<1>5. Cardinality(used(b) \cup {b + 1}) = Cardinality(used(b)) + 1
  BY <1>1, <1>2, FS_AddElement
<1> QED
  BY <1>3, <1>4, <1>5

\* It never falls along the chain.
LEMMA NonceMonotone ==
  ASSUME NEW a \in Nat, NEW b \in Nat, a <= b
  PROVE  NonceAt(a) <= NonceAt(b)
<1> DEFINE used(c) == {i \in 1..c : i <= Len(blocks) /\ blocks[i] # NoTx}
<1>0. IsFiniteSet(1..b)
  BY FS_Interval, SMT
<1>1. IsFiniteSet(1..b) /\ used(b) \in SUBSET (1..b)
  BY <1>0
<1>2. IsFiniteSet(used(b))
  BY <1>1, FS_Subset
<1>3. used(a) \in SUBSET used(b)
  BY SMT
<1>4. NonceAt(a) = Cardinality(used(a)) /\ NonceAt(b) = Cardinality(used(b))
  BY ZenonT(40) DEF NonceAt
<1> HIDE DEF used
<1> QED
  BY <1>2, <1>3, <1>4, FS_Subset

\* Two blocks with transactions stand for two nonces.
LEMMA NonceInjective ==
  ASSUME Len(blocks) \in Nat, NEW i, NEW j, Holds(i), Holds(j), NonceAt(i - 1) = NonceAt(j - 1)
  PROVE  i = j
<1>1. i \in Nat /\ j \in Nat /\ i > 0 /\ j > 0 /\ i - 1 \in Nat /\ j - 1 \in Nat
      /\ (i - 1) + 1 = i /\ (j - 1) + 1 = j
  BY SMT DEF Holds
<1>2. NonceAt(i) = NonceAt(i - 1) + 1 /\ NonceAt(j) = NonceAt(j - 1) + 1
  <2>1. NonceAt((i - 1) + 1) = NonceAt(i - 1) + 1
    BY <1>1, NonceNext
  <2>2. NonceAt((j - 1) + 1) = NonceAt(j - 1) + 1
    BY <1>1, NonceNext
  <2> QED
    BY <1>1, <2>1, <2>2
<1>3. NonceAt(i - 1) \in Nat /\ NonceAt(j - 1) \in Nat
  BY <1>1, NonceAtType
<1>4. i <= j - 1 => NonceAt(i) <= NonceAt(j - 1)
  BY <1>1, NonceMonotone
<1>5. j <= i - 1 => NonceAt(j) <= NonceAt(i - 1)
  BY <1>1, NonceMonotone
<1> QED
  BY <1>1, <1>2, <1>3, <1>4, <1>5, SMT

\* Every nonce below that of a block was used by a transaction up to it.
LEMMA NonceUsed ==
  ASSUME Len(blocks) \in Nat, NEW b \in Nat, NEW n \in Nat, n < NonceAt(b)
  PROVE  \E i \in 1..b : Holds(i) /\ NonceAt(i - 1) = n
<1> DEFINE above == {c \in Nat : n < NonceAt(c)}
<1>1. PICK x \in above : \A y \in above : x <= y
  BY LeastExists
<1>2. x \in Nat /\ n < NonceAt(x) /\ x <= b
  BY <1>1
<1>3. NonceAt(0) = 0
  <2>1. {i \in 1..0 : i <= Len(blocks) /\ blocks[i] # NoTx} = {}
    BY SMT
  <2> QED
    BY <2>1, FS_EmptySet DEF NonceAt
<1>4. x # 0
  BY <1>2, <1>3, SMT
<1>5. x - 1 \in Nat /\ (x - 1) + 1 = x /\ x \in 1..b /\ ~ (x <= x - 1)
  BY <1>2, <1>4, SMT
<1>6. x - 1 \notin above
  BY <1>1, <1>5
<1>7. NonceAt(x - 1) \in Nat /\ ~ (n < NonceAt(x - 1))
  BY <1>5, <1>6, NonceAtType
<1>8. NonceAt(x) = IF Holds(x) THEN NonceAt(x - 1) + 1 ELSE NonceAt(x - 1)
  <2>1. NonceAt((x - 1) + 1) = IF Holds((x - 1) + 1) THEN NonceAt(x - 1) + 1 ELSE NonceAt(x - 1)
    BY <1>5, NonceNext
  <2> QED
    BY <1>5, <2>1
<1>9. Holds(x)
  BY <1>2, <1>7, <1>8
<1>10. NonceAt(x - 1) = n
  BY <1>2, <1>7, <1>8, <1>9, SMT
<1> QED
  BY <1>5, <1>9, <1>10

\* It depends on the blocks up to that one only.
LEMMA NonceStable ==
  ASSUME Len(blocks) \in Nat, Len(blocks') \in Nat, NEW b \in Nat,
         b <= Len(blocks), b <= Len(blocks'), \A i \in 1..b : blocks'[i] = blocks[i]
  PROVE  NonceAt(b)' = NonceAt(b)
<1>1. {i \in 1..b : i <= Len(blocks) /\ blocks[i] # NoTx}
        = {i \in 1..b : i <= Len(blocks') /\ blocks'[i] # NoTx}
  BY SMT
<1> QED
  BY <1>1 DEF NonceAt

-----------------------------------------------------------------------------
\* A call whose transaction has a nonce that is not stored with it yet.
Open(k) == sending[k].step \in {"sent", "nonce"}

\* n agrees with everything the node knows of the nonce of t: the record of t,
\* that of the request t cancels, and the calls.
IsNonceOf(n, t) ==
  /\ stored[t] # NoNonce => n = stored[t]
  /\ \A r \in Cancellable : t = <<r, "cancel">> => n = stored[Request(r)]
  /\ \A k \in Call : Open(k) /\ sending[k].tx = t => n = sending[k].nonce

\* A transaction has one nonce wherever it is: in the pool, in the chain (where it
\* is the number of transactions before it), in its record and in a call.
PoolFixed == \A p \in pool : IsNonceOf(p.nonce, p.tx)
ChainFixed ==
  \A i \in 1..Len(blocks) : blocks[i] # NoTx => IsNonceOf(NonceAt(i - 1), blocks[i])
StoresFixed ==
  /\ \A t \in Tx : stored[t] # NoNonce => IsNonceOf(stored[t], t)
  /\ \A k \in Call : Open(k) => IsNonceOf(sending[k].nonce, sending[k].tx)
  /\ \A k \in Call : sending[k].step = "stored" => stored[sending[k].tx] # NoNonce

Recorded(t) == t \in Tx /\ stored[t] # NoNonce

\* What is pending or watched has a record, also after a crash.
WatchedRecorded == \A t \in watches \cup pendingTx \cup check.missing : Recorded(t)

\* When the monitor found no receipt, the transaction is not in a block up to the
\* one it checks; it may be mined later, or be in a block that is replaced.
CheckSound ==
  /\ check.block \in 0..Len(blocks)
  /\ check.step = "notify" => \A i \in 1..check.block : blocks[i] \notin check.missing

\* Another transaction has the nonce of t, below the blocks that can be replaced.
Beaten(t) ==
  \E i \in 1..Len(blocks) - CancellationDepth :
    blocks[i] # NoTx /\ blocks[i] # t /\ NonceAt(i - 1) = stored[t]

CInv ==
  /\ PoolFixed /\ ChainFixed /\ StoresFixed /\ WatchedRecorded /\ CheckSound
  /\ \A t \in cancelledTx : Recorded(t) /\ Beaten(t)

LEMMA NoTxApart == NoTx \notin Tx
BY SMT DEF NoTx, Tx

\* A call that is under way has a transaction.
LEMMA CallHasTx ==
  ASSUME CallsApart, NEW k \in Call, sending[k].step # "idle"
  PROVE  sending[k].tx \in Tx
<1>1. \A r \in Req : Request(r) \in Tx
  BY SMT DEF Request, Tx
<1>2. \A r \in Cancellable : <<r, "cancel">> \in Tx
  BY SMT DEF Tx
<1> QED
  BY <1>1, <1>2 DEF CallsApart, Call

\* A transaction that another one has beaten is not in the chain.
LEMMA BeatenNotMined ==
  ASSUME IInv, CInv
  PROVE  CancelledIsFinal
<1>0. Len(blocks) \in Nat /\ DOMAIN blocks = 1..Len(blocks)
  BY SMT DEF IInv, TxTypes
<1> SUFFICES ASSUME NEW t \in cancelledTx, t \in MinedTx PROVE FALSE
  BY DEF CancelledIsFinal
<1>1. PICK j \in 1..Len(blocks) : blocks[j] = t /\ t # NoTx
  BY <1>0 DEF MinedTx
<1>2. Recorded(t) /\ Beaten(t)
  BY DEF CInv
<1>3. NonceAt(j - 1) = stored[t]
  BY <1>1, <1>2 DEF CInv, ChainFixed, IsNonceOf, Recorded
<1>4. PICK i \in 1..Len(blocks) - CancellationDepth :
        blocks[i] # NoTx /\ blocks[i] # t /\ NonceAt(i - 1) = stored[t]
  BY <1>2 DEF Beaten
<1>5. i \in 1..Len(blocks)
  BY <1>0, <1>4, TransactionsAssumption, SMT
<1>6. i = j
  BY <1>0, <1>1, <1>3, <1>4, <1>5, NonceInjective, ZenonT(40) DEF Holds
<1> QED
  BY <1>1, <1>4, <1>6

LEMMA CancelInitially ==
  ASSUME TxInit
  PROVE  CInv
<1>1. pool = {} /\ cancelledTx = {} /\ watches = {} /\ pendingTx = {} /\ check = NoCheck
  BY DEF TxInit
<1>2. Len(blocks) = 0
  BY SMT DEF TxInit
<1>3. \A k \in Call : sending[k] = NoCall
  BY DEF TxInit
<1>4. NoCall.step = "idle" /\ NoCheck.step = "wait" /\ NoCheck.block = 0 /\ NoCheck.missing = {}
  BY DEF NoCall, NoCheck
<1>5. PoolFixed /\ WatchedRecorded
  BY <1>1, <1>4 DEF PoolFixed, WatchedRecorded
<1>6. ChainFixed /\ CheckSound
  BY <1>1, <1>2, <1>4, SMT DEF ChainFixed, CheckSound
<1>7. \A t \in Tx : stored[t] = NoNonce
  BY DEF TxInit
<1>8. StoresFixed
  BY <1>3, <1>4, <1>7 DEF StoresFixed, Open
<1> QED
  BY <1>1, <1>5, <1>6, <1>8 DEF CInv

-----------------------------------------------------------------------------
\* The chain changes at its newest block only: what lies below stays, and the
\* newest block keeps its transaction or loses it.
Grown ==
  /\ Len(blocks') \in Nat /\ Len(blocks) <= Len(blocks')
  /\ \A i \in 1..Len(blocks) - 1 : blocks'[i] = blocks[i]
  /\ \A i \in 1..Len(blocks) : blocks'[i] = blocks[i] \/ blocks'[i] = NoTx

\* The nonce before a block of the chain is not touched by that.
LEMMA GrownNonce ==
  ASSUME Len(blocks) \in Nat, Grown, NEW i \in 1..Len(blocks)
  PROVE  NonceAt(i - 1)' = NonceAt(i - 1)
<1> DEFINE b == i - 1
<1>1. b \in Nat /\ b <= Len(blocks) /\ b <= Len(blocks') /\ \A j \in 1..b : j \in 1..Len(blocks) - 1
  BY SMT DEF Grown
<1>2. \A j \in 1..b : blocks'[j] = blocks[j]
  BY <1>1 DEF Grown
<1>3. Len(blocks') \in Nat
  BY DEF Grown
<1> HIDE DEF b
<1>4. NonceAt(b)' = NonceAt(b)
  BY <1>1, <1>2, <1>3, NonceStable, ZenonT(40)
<1> QED
  BY <1>4 DEF b

\* A transaction that is beaten stays so.
LEMMA BeatenStays ==
  ASSUME Len(blocks) \in Nat, Grown, NEW t, Beaten(t), stored'[t] = stored[t]
  PROVE  Beaten(t)'
<1>1. PICK i \in 1..Len(blocks) - CancellationDepth :
        blocks[i] # NoTx /\ blocks[i] # t /\ NonceAt(i - 1) = stored[t]
  BY DEF Beaten
<1>2. i \in 1..Len(blocks) - 1 /\ i \in 1..Len(blocks') - CancellationDepth /\ i \in 1..Len(blocks)
  BY <1>1, TransactionsAssumption, SMT DEF Grown
<1>3. blocks'[i] = blocks[i]
  BY <1>2 DEF Grown
<1>4. NonceAt(i - 1)' = NonceAt(i - 1)
  BY <1>2, GrownNonce
<1> QED
  BY <1>1, <1>2, <1>3, <1>4 DEF Beaten

\* The invariant is kept by a step of the chain or the pool alone, when what is
\* new in them has its nonce.
LEMMA ChainKeepsCancel ==
  ASSUME IInv, CInv, Grown,
         UNCHANGED <<stored, sending, watches, pendingTx, check, cancelledTx>>,
         \A p \in pool' : p \in pool \/ IsNonceOf(p.nonce, p.tx),
         \A i \in 1..Len(blocks') : i \notin 1..Len(blocks) /\ blocks'[i] # NoTx =>
           IsNonceOf(NonceAt(i - 1)', blocks'[i])
  PROVE  CInv'
<1>0. Len(blocks) \in Nat /\ Len(blocks') \in Nat /\ Len(blocks) <= Len(blocks')
  BY SMT DEF IInv, TxTypes, Grown
<1>1. \A n, t : IsNonceOf(n, t) => IsNonceOf(n, t)'
  BY DEF IsNonceOf, Open
<1>2. PoolFixed'
  BY <1>1 DEF CInv, PoolFixed
<1>3. ChainFixed'
  <2> SUFFICES ASSUME NEW i \in 1..Len(blocks'), blocks'[i] # NoTx
               PROVE  IsNonceOf(NonceAt(i - 1)', blocks'[i])
    BY <1>1 DEF ChainFixed
  <2>1. CASE i \in 1..Len(blocks)
    <3>1. blocks'[i] = blocks[i] /\ NonceAt(i - 1)' = NonceAt(i - 1)
      BY <1>0, <2>1, GrownNonce DEF Grown
    <3> QED
      BY <2>1, <3>1 DEF CInv, ChainFixed
  <2> QED
    BY <2>1
<1>4. StoresFixed'
  BY <1>1 DEF CInv, StoresFixed, Open
<1>5. WatchedRecorded'
  BY DEF CInv, WatchedRecorded, Recorded
<1>6. CheckSound'
  <2>1. check.block \in 0..Len(blocks') /\ \A i \in 1..check.block : i \in 1..Len(blocks)
    BY <1>0, SMT DEF CInv, CheckSound
  <2>2. NoTx \notin check.missing
    BY NoTxApart DEF CInv, WatchedRecorded, Recorded
  <2>3. check.step = "notify" => \A i \in 1..check.block : blocks'[i] \notin check.missing
    BY <2>1, <2>2 DEF CInv, CheckSound, Grown
  <2> QED
    BY <2>1, <2>3 DEF CInv, CheckSound
<1>7. \A t \in cancelledTx' : Recorded(t)' /\ Beaten(t)'
  BY <1>0, BeatenStays DEF CInv, Recorded
<1> QED
  BY <1>2, <1>3, <1>4, <1>5, <1>6, <1>7, ZenonT(40) DEF CInv

\* The chain: mining takes a transaction whose nonce is next; a block that is
\* replaced hands its transaction back under the nonce it had.
LEMMA ChainStepsCancel ==
  ASSUME IInv, CInv, MineTx \/ Reorg \/ (\E p \in pool : Drop(p))
  PROVE  CInv'
<1>0. blocks \in Seq(Tx \cup {NoTx}) /\ Len(blocks) \in Nat
  BY SMT DEF IInv, TxTypes
<1>1. UNCHANGED <<stored, sending, watches, pendingTx, check, cancelledTx>>
  BY DEF MineTx, Reorg, Drop, storeVars, monitorVars
<1>2. CASE MineTx
  <2>1. PICK e \in Tx \cup {NoTx} :
          /\ blocks' = Append(blocks, e) /\ pool' \subseteq pool
          /\ e # NoTx => IsNonceOf(NonceAt(Len(blocks)), e)
    <3>1. CASE blocks' = Append(blocks, NoTx) /\ UNCHANGED pool
      BY <3>1
    <3>2. ASSUME NEW p \in pool, p.nonce = NonceAt(Len(blocks)), blocks' = Append(blocks, p.tx),
                 pool' = {q \in pool : q.nonce # p.nonce}
          PROVE  \E e \in Tx \cup {NoTx} :
                   /\ blocks' = Append(blocks, e) /\ pool' \subseteq pool
                   /\ e # NoTx => IsNonceOf(NonceAt(Len(blocks)), e)
      <4>1. p.tx \in Tx /\ IsNonceOf(p.nonce, p.tx)
        BY DEF IInv, TxTypes, CInv, PoolFixed
      <4>2. pool' \subseteq pool
        BY <3>2
      <4> QED
        BY <3>2, <4>1, <4>2
    <3> QED
      BY <1>2, <3>1, <3>2, ZenonT(40) DEF MineTx
  <2>2. /\ Len(blocks') = Len(blocks) + 1 /\ blocks'[Len(blocks) + 1] = e
        /\ \A i \in 1..Len(blocks) : blocks'[i] = blocks[i]
    BY <1>0, <2>1, AppendProperties, SMT
  <2>3. Grown
    BY <1>0, <2>2, SMT DEF Grown
  <2>4. ASSUME NEW i \in 1..Len(blocks'), i \notin 1..Len(blocks), blocks'[i] # NoTx
        PROVE  IsNonceOf(NonceAt(i - 1)', blocks'[i])
    <3>1. PICK b \in Nat : b = Len(blocks)
      BY <1>0
    <3>2. i = b + 1 /\ i - 1 = b
      BY <1>0, <2>2, <2>4, <3>1, SMT
    <3>3. Len(blocks') \in Nat /\ b <= Len(blocks) /\ b <= Len(blocks')
      BY <1>0, <2>2, <3>1, SMT
    <3>4. NonceAt(b)' = NonceAt(b)
      BY <1>0, <2>2, <3>1, <3>3, NonceStable
    <3> QED
      BY <2>1, <2>2, <2>4, <3>1, <3>2, <3>4
  <2> QED
    BY <1>1, <2>1, <2>3, <2>4, ChainKeepsCancel
<1>3. CASE Reorg
  <2>1. PICK top \in Nat : top = Len(blocks)
    BY <1>0
  <2> DEFINE back == [tx |-> blocks[top], nonce |-> NonceAt(top) - 1]
  <2>2. /\ blocks # <<>> /\ blocks[top] # NoTx
        /\ blocks' = [blocks EXCEPT ![top] = NoTx]
        /\ pool' = pool \/ pool' = pool \cup {back}
    BY <1>3, <2>1, ZenonT(40) DEF Reorg
  <2>3. top \in 1..Len(blocks) /\ top - 1 \in Nat /\ (top - 1) + 1 = top
    BY <1>0, <2>1, <2>2, EmptySeq, SMT
  <2>4. /\ Len(blocks') = Len(blocks)
        /\ \A i \in 1..Len(blocks) : blocks'[i] = IF i = top THEN NoTx ELSE blocks[i]
    <3>1. NoTx \in Tx \cup {NoTx}
      OBVIOUS
    <3> QED
      BY <1>0, <2>2, <2>3, <3>1, ExceptSeq, SMT
  <2>5. Grown
    BY <1>0, <2>1, <2>4, SMT DEF Grown
  <2>6. back.tx = blocks[top] /\ back.nonce = NonceAt(top - 1)
    <3>1. NonceAt((top - 1) + 1) = NonceAt(top - 1) + 1
      <4>1. Holds((top - 1) + 1)
        BY <2>2, <2>3, SMT DEF Holds
      <4> QED
        BY <1>0, <2>3, <4>1, NonceNext, ZenonT(40)
    <3>2. NonceAt(top - 1) \in Nat
      BY <2>3, NonceAtType
    <3>3. NonceAt(top) - 1 = NonceAt(top - 1)
      BY <2>3, <3>1, <3>2, SMT
    <3> QED
      BY <3>3
  <2> HIDE DEF back
  <2>7. IsNonceOf(back.nonce, back.tx)
    BY <2>2, <2>3, <2>6 DEF CInv, ChainFixed
  <2>8. \A p \in pool' : p \in pool \/ IsNonceOf(p.nonce, p.tx)
    BY <2>2, <2>7
  <2> QED
    BY <1>1, <2>4, <2>5, <2>8, ChainKeepsCancel
<1>4. ASSUME NEW p \in pool, Drop(p)
      PROVE  CInv'
  <2>1. pool' \subseteq pool /\ blocks' = blocks
    BY <1>4 DEF Drop
  <2>2. Grown
    BY <1>0, <2>1, SMT DEF Grown
  <2> QED
    BY <1>1, <2>1, <2>2, ChainKeepsCancel
<1> QED
  BY <1>2, <1>3, <1>4

\* Resending puts a transaction into the pool under the nonce of its record.
LEMMA ResendKeepsCancel ==
  ASSUME IInv, CInv, NEW t \in Tx, ResendTransaction(t)
  PROVE  CInv'
<1> DEFINE new == [tx |-> t, nonce |-> stored[t]]
<1>1. /\ stored[t] # NoNonce /\ pool' = InPool(t, stored[t]) /\ blocks' = blocks
      /\ UNCHANGED <<stored, sending, watches, pendingTx, check, cancelledTx>>
  BY DEF ResendTransaction, storeVars, monitorVars
<1>2. new.tx = t /\ new.nonce = stored[t] /\ \A p \in pool' : p \in pool \/ p = new
  BY <1>1 DEF InPool
<1>3. IsNonceOf(stored[t], t)
  BY <1>1 DEF CInv, StoresFixed
<1> HIDE DEF new
<1>4. Grown
  BY <1>1, SMT DEF Grown, IInv, TxTypes
<1> QED
  BY <1>1, <1>2, <1>3, <1>4, ChainKeepsCancel

-----------------------------------------------------------------------------
\* The invariant is kept by a step that leaves the chain alone when the nonces
\* stay what they are.
LEMMA CallsKeepCancel ==
  ASSUME IInv, CInv, blocks' = blocks, UNCHANGED <<check, cancelledTx>>,
         \A t \in Tx : stored[t] # NoNonce => stored'[t] = stored[t],
         PoolFixed', StoresFixed', WatchedRecorded',
         \A i \in 1..Len(blocks) : blocks[i] # NoTx => IsNonceOf(NonceAt(i - 1), blocks[i])'
  PROVE  CInv'
<1>1. Grown /\ Len(blocks) \in Nat
  BY SMT DEF Grown, IInv, TxTypes
<1>2. ChainFixed'
  BY DEF ChainFixed
<1>3. CheckSound'
  BY DEF CInv, CheckSound
<1>4. \A t \in cancelledTx' : Recorded(t)' /\ Beaten(t)'
  <2> TAKE t \in cancelledTx'
  <2>1. Recorded(t) /\ Beaten(t)
    BY DEF CInv
  <2>2. stored'[t] = stored[t]
    BY <2>1 DEF Recorded
  <2> QED
    BY <1>1, <2>1, <2>2, BeatenStays DEF Recorded
<1> QED
  BY <1>2, <1>3, <1>4 DEF CInv

\* Send hands over a transaction that is nowhere yet.
LEMMA SendKeepsCancel ==
  ASSUME IInv, CInv, NEW r \in Req, Send(r)
  PROVE  CInv'
<1>0. PICK n : n = NextNonce
  OBVIOUS
<1> DEFINE t == Request(r)
           c == [tx |-> t, nonce |-> n, step |-> "sent"]
           new == [tx |-> t, nonce |-> n]
<1>1. t \in Tx /\ n \in Nat /\ t \notin {<<q, "cancel">> : q \in Cancellable} /\ t # NoTx
  BY <1>0, NextNonceBound, SMT DEF Tx, Request, IInv, NoTx
<1>2. /\ sending["send"] = NoCall /\ stored[t] = NoNonce /\ t \notin MinedTx
      /\ \A p \in pool : p.tx # t
      /\ pool' = InPool(t, n)
      /\ sending' = [sending EXCEPT !["send"] = c] \/ sending' = sending
      /\ UNCHANGED <<blocks, stored, watches, pendingTx, check, cancelledTx>>
  BY <1>0 DEF Send, Request, storeVars, monitorVars
<1>3. c.tx = t /\ c.nonce = n /\ c.step = "sent" /\ new.tx = t /\ new.nonce = n
  OBVIOUS
<1>4. \A p \in pool' : p \in pool \/ p = new
  BY <1>2 DEF InPool
<1>5. /\ "send" \in Call /\ "cancel" \in Call /\ "send" # "cancel"
      /\ NoCall.step = "idle" /\ DOMAIN sending = Call
      /\ \A k \in Call : k = "send" \/ k = "cancel"
  BY CallFacts DEF IInv, TxTypes
<1> HIDE DEF t, c, new
<1>6. /\ sending'["send"] = c \/ sending'["send"] = sending["send"]
      /\ sending'["cancel"] = sending["cancel"]
  BY <1>2, <1>5
<1>7. \A m, u : u # t /\ IsNonceOf(m, u) => IsNonceOf(m, u)'
  BY <1>2, <1>3, <1>5, <1>6, ZenonT(40) DEF IsNonceOf, Open
<1>8. sending["cancel"].tx # t \/ ~ Open("cancel")
  BY <1>1 DEF IInv, CallsApart, Open
<1>9. IsNonceOf(n, t)'
  BY <1>1, <1>2, <1>3, <1>5, <1>6, <1>8 DEF IsNonceOf, Open
<1>10. PoolFixed'
  BY <1>2, <1>3, <1>4, <1>7, <1>9 DEF CInv, PoolFixed
<1>11. StoresFixed'
  <2>1. \A u \in Tx : stored[u] # NoNonce => IsNonceOf(stored[u], u)'
    BY <1>2, <1>7 DEF CInv, StoresFixed
  <2>2. Open("cancel")' => IsNonceOf(sending["cancel"].nonce, sending["cancel"].tx)'
    BY <1>5, <1>6, <1>7, <1>8 DEF CInv, StoresFixed, Open
  <2>3. Open("send")' => sending'["send"] = c
    BY <1>2, <1>5, <1>6 DEF Open
  <2>4. \A k \in Call : Open(k)' => IsNonceOf(sending[k].nonce, sending[k].tx)'
    BY <1>3, <1>5, <1>9, <2>2, <2>3, ZenonT(40)
  <2>5. \A k \in Call : sending'[k].step = "stored" => stored'[sending'[k].tx] # NoNonce
    <3>1. \A k \in Call : sending'[k].step = "stored" => sending'[k] = sending[k]
      BY <1>3, <1>5, <1>6
    <3> QED
      BY <1>2, <3>1 DEF CInv, StoresFixed
  <2> QED
    BY <1>2, <2>1, <2>4, <2>5 DEF StoresFixed
<1>12. WatchedRecorded'
  BY <1>2 DEF CInv, WatchedRecorded, Recorded
<1>13. ASSUME NEW i \in 1..Len(blocks), blocks[i] # NoTx
       PROVE  IsNonceOf(NonceAt(i - 1), blocks[i])'
  <2>1. DOMAIN blocks = 1..Len(blocks)
    BY SMT DEF IInv, TxTypes
  <2>2. blocks[i] # t
    BY <1>2, <1>13, <2>1 DEF MinedTx
  <2>3. IsNonceOf(NonceAt(i - 1), blocks[i])
    BY <1>13 DEF CInv, ChainFixed
  <2>4. NonceAt(i - 1)' = NonceAt(i - 1)
    BY <1>2 DEF NonceAt
  <2> QED
    BY <1>2, <1>7, <2>2, <2>3, <2>4
<1> QED
  BY <1>2, <1>10, <1>11, <1>12, <1>13, CallsKeepCancel

\* The nonce before a block is what it is when the blocks stay.
LEMMA SameBlocks ==
  ASSUME CInv, blocks' = blocks, \A m, u : IsNonceOf(m, u) => IsNonceOf(m, u)',
         NEW i \in 1..Len(blocks), blocks[i] # NoTx
  PROVE  IsNonceOf(NonceAt(i - 1), blocks[i])'
<1>1. IsNonceOf(NonceAt(i - 1), blocks[i])
  BY DEF CInv, ChainFixed
<1>2. NonceAt(i - 1)' = NonceAt(i - 1)
  BY DEF NonceAt
<1> QED
  BY <1>1, <1>2

\* A call goes on or ends without a record: no nonce changes.
LEMMA PutNonceKeepsCancel ==
  ASSUME IInv, CInv, PutNonce
  PROVE  CInv'
<1> DEFINE s == sending["send"]
           c == [s EXCEPT !.step = "nonce"]
<1>1. /\ s.step = "sent" /\ sending' = [sending EXCEPT !["send"] = c]
      /\ UNCHANGED <<blocks, pool, stored, watches, pendingTx, check, cancelledTx>>
  BY DEF PutNonce, chainVars, monitorVars
<1>2. c.tx = s.tx /\ c.nonce = s.nonce /\ c.step = "nonce"
  BY CallFacts, SMT DEF CallState, IInv
<1>3. "send" \in Call /\ DOMAIN sending = Call
  BY CallFacts DEF IInv, TxTypes
<1> HIDE DEF c
<1>4. sending'["send"] = c /\ \A k \in Call : k # "send" => sending'[k] = sending[k]
  BY <1>1, <1>3
<1>5. \A k \in Call : /\ Open(k)' <=> Open(k)
                      /\ sending'[k].tx = sending[k].tx /\ sending'[k].nonce = sending[k].nonce
                      /\ sending'[k].step = "stored" => sending[k].step = "stored"
  BY <1>1, <1>2, <1>4 DEF Open
<1> HIDE DEF s
<1>6. \A m, u : IsNonceOf(m, u) => IsNonceOf(m, u)'
  BY <1>1, <1>5 DEF IsNonceOf
<1>7. PoolFixed' /\ WatchedRecorded'
  BY <1>1, <1>6 DEF CInv, PoolFixed, WatchedRecorded, Recorded
<1>8. StoresFixed'
  BY <1>1, <1>5, <1>6 DEF CInv, StoresFixed
<1> QED
  BY <1>1, <1>6, <1>7, <1>8, SameBlocks, CallsKeepCancel

\* The record of a transaction gets the nonce that the call holds; no record that
\* was there changes.
LEMMA PutStoredKeepsCancel ==
  ASSUME IInv, CInv, NEW k \in Call, PutStored(k)
  PROVE  CInv'
<1>0. PICK s \in CallState : s = sending[k]
  BY CallFacts DEF IInv
<1> DEFINE c == [s EXCEPT !.step = "stored"]
<1>1. /\ s.step = "nonce" /\ sending' = [sending EXCEPT ![k] = c]
      /\ stored' = [stored EXCEPT ![s.tx] = s.nonce]
      /\ UNCHANGED <<blocks, pool, watches, pendingTx, check, cancelledTx>>
  BY <1>0 DEF PutStored, chainVars, monitorVars
<1>2. c.tx = s.tx /\ c.nonce = s.nonce /\ c.step = "stored" /\ s.nonce \in Nat /\ s.nonce # NoNonce
  BY <1>0, SMT DEF CallState, NoNonce
<1>3. s.tx \in Tx
  BY <1>0, <1>1, CallHasTx DEF IInv, Open
<1>4. DOMAIN sending = Call /\ DOMAIN stored = Tx
  BY DEF IInv, TxTypes
<1> HIDE DEF c
<1>5. sending'[k] = c /\ \A j \in Call : j # k => sending'[j] = sending[j]
  BY <1>1, <1>4
<1>6. /\ \A j \in Call : Open(j)' => Open(j) /\ j # k
      /\ \A j \in Call : sending'[j].tx = sending[j].tx /\ sending'[j].nonce = sending[j].nonce
  BY <1>0, <1>2, <1>5 DEF Open
<1>7. IsNonceOf(s.nonce, s.tx)
  BY <1>0, <1>1 DEF CInv, StoresFixed, Open
<1>8. /\ \A t \in Tx : stored[t] # NoNonce => stored'[t] = stored[t]
      /\ stored'[s.tx] = s.nonce /\ \A t \in Tx : t # s.tx => stored'[t] = stored[t]
  BY <1>1, <1>3, <1>4, <1>7, ZenonT(40) DEF IsNonceOf
<1>9. ASSUME NEW m \in Nat, NEW u \in Tx, IsNonceOf(m, u)
      PROVE  IsNonceOf(m, u)'
  <2>1. u = s.tx => m = s.nonce
    BY <1>0, <1>1, <1>9 DEF IsNonceOf, Open
  <2>2. stored'[u] # NoNonce => m = stored'[u]
    BY <1>8, <1>9, <2>1 DEF IsNonceOf
  <2>3. ASSUME NEW r \in Cancellable, u = <<r, "cancel">>
        PROVE  m = stored'[Request(r)]
    <3>1. m = stored[Request(r)] /\ m # NoNonce
      BY <1>9, <2>3, SMT DEF IsNonceOf, NoNonce
    <3>2. Request(r) \in Tx
      BY TransactionsAssumption, SMT DEF Request, Tx
    <3> QED
      BY <1>8, <3>1, <3>2, ZenonT(40)
  <2>4. \A j \in Call : Open(j)' /\ sending'[j].tx = u => m = sending'[j].nonce
    BY <1>6, <1>9 DEF IsNonceOf
  <2> QED
    BY <2>2, <2>3, <2>4 DEF IsNonceOf
<1>10. PoolFixed'
  BY <1>1, <1>9, ZenonT(40) DEF CInv, PoolFixed, IInv, TxTypes
<1>11. StoresFixed'
  <2>1. ASSUME NEW t \in Tx, stored'[t] # NoNonce
        PROVE  IsNonceOf(stored[t], t)'
    <3>1. PICK m \in Nat : m = stored'[t] /\ IsNonceOf(m, t)
      <4>1. CASE t = s.tx
        BY <1>2, <1>7, <1>8, <4>1
      <4>2. CASE t # s.tx
        <5>1. stored'[t] = stored[t] /\ stored[t] \in Nat
          BY <1>8, <2>1, <4>2, ZenonT(40) DEF IInv, TxTypes
        <5> QED
          BY <2>1, <5>1 DEF CInv, StoresFixed
      <4> QED
        BY <4>1, <4>2
    <3> QED
      BY <1>9, <3>1
  <2>2. ASSUME NEW j \in Call, Open(j)'
        PROVE  IsNonceOf(sending[j].nonce, sending[j].tx)'
    <3>1. PICK m \in Nat, u \in Tx : m = sending[j].nonce /\ u = sending[j].tx
      <4>1. sending[j].step # "idle"
        BY <1>6, <2>2 DEF Open
      <4> QED
        BY <4>1, CallHasTx, CallFacts DEF IInv
    <3>2. IsNonceOf(m, u)
      BY <1>6, <2>2, <3>1 DEF CInv, StoresFixed
    <3> QED
      BY <1>6, <1>9, <3>1, <3>2
  <2>3. ASSUME NEW j \in Call, sending'[j].step = "stored"
        PROVE  stored'[sending'[j].tx] # NoNonce
    <3>1. CASE j = k
      BY <1>2, <1>5, <1>8, <3>1, ZenonT(40)
    <3>2. CASE j # k
      <4>1. /\ sending'[j] = sending[j] /\ sending[j].step = "stored"
            /\ stored[sending[j].tx] # NoNonce
        BY <1>5, <2>3, <3>2 DEF CInv, StoresFixed
      <4>2. sending[j].tx \in Tx
        BY <4>1, CallHasTx DEF IInv
      <4> QED
        BY <1>8, <4>1, <4>2
    <3> QED
      BY <3>1, <3>2
  <2> QED
    BY <2>1, <2>2, <2>3 DEF StoresFixed
<1>12. WatchedRecorded'
  BY <1>1, <1>8 DEF CInv, WatchedRecorded, Recorded
<1>13. ASSUME NEW i \in 1..Len(blocks), blocks[i] # NoTx
       PROVE  IsNonceOf(NonceAt(i - 1), blocks[i])'
  <2>1. PICK m \in Nat, u \in Tx : m = NonceAt(i - 1) /\ u = blocks[i]
    <3>1. i - 1 \in Nat /\ blocks[i] \in Tx
      BY <1>13, SMT DEF IInv, TxTypes
    <3> QED
      BY <3>1, NonceAtType
  <2>2. IsNonceOf(m, u)'
    BY <1>9, <1>13, <2>1 DEF CInv, ChainFixed
  <2>3. m = NonceAt(i - 1)'
    BY <1>1, <2>1 DEF NonceAt
  <2> QED
    BY <1>1, <2>1, <2>2, <2>3
<1> QED
  BY <1>1, <1>8, <1>10, <1>11, <1>12, <1>13, CallsKeepCancel

\* A call ends with its transaction pending and watched.
LEMMA PutPendingKeepsCancel ==
  ASSUME IInv, CInv, NEW k \in Call, PutPending(k)
  PROVE  CInv'
<1> DEFINE t == sending[k].tx
<1>1. /\ sending[k].step = "stored" /\ sending' = [sending EXCEPT ![k] = NoCall]
      /\ pendingTx' = pendingTx \cup {t} /\ watches' = watches \cup {t}
      /\ UNCHANGED <<blocks, pool, stored, check, cancelledTx>>
  BY DEF PutPending, Watch, chainVars
<1>2. Recorded(t)
  BY <1>1, CallHasTx DEF IInv, CInv, StoresFixed, Recorded
<1>3. DOMAIN sending = Call /\ NoCall.step = "idle"
  BY CallFacts DEF IInv, TxTypes
<1>4. sending'[k] = NoCall /\ \A j \in Call : j # k => sending'[j] = sending[j]
  BY <1>1, <1>3
<1>5. \A j \in Call : sending'[j].step # "idle" => sending'[j] = sending[j]
  BY <1>3, <1>4
<1>6. \A j \in Call : Open(j)' => Open(j) /\ sending'[j] = sending[j]
  BY <1>3, <1>4 DEF Open
<1>7. \A m, u : IsNonceOf(m, u) => IsNonceOf(m, u)'
  BY <1>1, <1>6 DEF IsNonceOf
<1>8. PoolFixed'
  BY <1>1, <1>7 DEF CInv, PoolFixed
<1>9. StoresFixed'
  <2>1. \A u \in Tx : stored'[u] # NoNonce => IsNonceOf(stored[u], u)'
    BY <1>1, <1>7 DEF CInv, StoresFixed
  <2>2. \A j \in Call : Open(j)' => IsNonceOf(sending[j].nonce, sending[j].tx)'
    BY <1>6, <1>7 DEF CInv, StoresFixed
  <2>3. \A j \in Call : sending'[j].step = "stored" => stored'[sending'[j].tx] # NoNonce
    BY <1>1, <1>5 DEF CInv, StoresFixed
  <2> QED
    BY <2>1, <2>2, <2>3 DEF StoresFixed
<1> HIDE DEF t
<1>10. WatchedRecorded'
  BY <1>1, <1>2 DEF CInv, WatchedRecorded, Recorded
<1> QED
  BY <1>1, <1>7, <1>8, <1>9, <1>10, SameBlocks, CallsKeepCancel

\* A cancellation has the nonce of its request, also when an earlier one of the
\* same request was handed over before a crash.
LEMMA CancelKeepsCancel ==
  ASSUME IInv, CInv, NEW r \in Cancellable, CancelTransaction(r)
  PROVE  CInv'
<1>0. PICK n : n = stored[Request(r)]
  OBVIOUS
<1> DEFINE t == <<r, "cancel">>
           c == [tx |-> t, nonce |-> n, step |-> "nonce"]
           new == [tx |-> t, nonce |-> n]
<1>1. /\ n # NoNonce /\ stored[t] = NoNonce /\ sending["cancel"] = NoCall
      /\ pool' = InPool(t, n) /\ sending' = [sending EXCEPT !["cancel"] = c]
      /\ UNCHANGED <<blocks, stored, watches, pendingTx, check, cancelledTx>>
  BY <1>0 DEF CancelTransaction, Request, storeVars, monitorVars
<1>2. c.tx = t /\ c.nonce = n /\ c.step = "nonce" /\ new.tx = t /\ new.nonce = n
  OBVIOUS
<1>3. \A p \in pool' : p \in pool \/ p = new
  BY <1>1 DEF InPool
<1>4. /\ "send" \in Call /\ "cancel" \in Call /\ "send" # "cancel" /\ NoCall.step = "idle"
      /\ DOMAIN sending = Call /\ \A k \in Call : k = "send" \/ k = "cancel"
  BY CallFacts DEF IInv, TxTypes
<1>5. /\ \A q \in Cancellable : t = <<q, "cancel">> => q = r
      /\ \A q \in Req : t # Request(q)
  BY SMT DEF Request
<1> HIDE DEF t, c, new
<1>6. sending'["cancel"] = c /\ sending'["send"] = sending["send"]
  BY <1>1, <1>4
<1>7. \A m, u : IsNonceOf(m, u) => IsNonceOf(m, u)'
  <2> SUFFICES ASSUME NEW m, NEW u, IsNonceOf(m, u)
               PROVE  IsNonceOf(m, u)'
    OBVIOUS
  <2>1. u = t => m = n
    BY <1>0 DEF IsNonceOf, t
  <2>2. \A k \in Call : Open(k)' /\ sending'[k].tx = u => m = sending'[k].nonce
    BY <1>2, <1>4, <1>6, <2>1, ZenonT(40) DEF IsNonceOf, Open
  <2> QED
    BY <1>1, <2>2 DEF IsNonceOf
<1>8. IsNonceOf(n, t)'
  <2>1. ~ Open("send") \/ sending["send"].tx # t
    BY <1>5 DEF IInv, CallsApart, Open
  <2>2. \A k \in Call : Open(k)' /\ sending'[k].tx = t => n = sending'[k].nonce
    BY <1>2, <1>4, <1>6, <2>1 DEF Open
  <2>3. \A q \in Cancellable : t = <<q, "cancel">> => n = stored'[Request(q)]
    BY <1>0, <1>1, <1>5, ZenonT(40)
  <2> QED
    BY <1>1, <2>2, <2>3 DEF IsNonceOf
<1>9. PoolFixed'
  BY <1>2, <1>3, <1>7, <1>8 DEF CInv, PoolFixed
<1>10. StoresFixed'
  <2>1. \A u \in Tx : stored'[u] # NoNonce => IsNonceOf(stored[u], u)'
    BY <1>1, <1>7 DEF CInv, StoresFixed
  <2>2. Open("send")' => IsNonceOf(sending["send"].nonce, sending["send"].tx)'
    BY <1>4, <1>6, <1>7, ZenonT(40) DEF CInv, StoresFixed, Open
  <2>3. IsNonceOf(sending["cancel"].nonce, sending["cancel"].tx)'
    BY <1>2, <1>6, <1>8
  <2>4. \A k \in Call : sending'[k].step = "stored" => sending'[k] = sending[k]
    BY <1>2, <1>4, <1>6, ZenonT(40)
  <2>5. \A k \in Call : sending'[k].step = "stored" => stored'[sending'[k].tx] # NoNonce
    BY <1>1, <2>4 DEF CInv, StoresFixed
  <2> QED
    BY <1>4, <2>1, <2>2, <2>3, <2>5, ZenonT(40) DEF StoresFixed
<1>11. WatchedRecorded'
  BY <1>1, ZenonT(40) DEF CInv, WatchedRecorded, Recorded
<1> QED
  BY <1>1, <1>7, <1>9, <1>10, <1>11, SameBlocks, CallsKeepCancel, ZenonT(40)

\* A crash ends the calls and the check; what is pending is watched again.
LEMMA RestartKeepsCancel ==
  ASSUME IInv, CInv, RestartTx
  PROVE  CInv'
<1>1. /\ sending' = [k \in Call |-> NoCall] /\ check' = NoCheck /\ watches' = pendingTx
      /\ UNCHANGED <<blocks, pool, stored, pendingTx, cancelledTx>>
  BY DEF RestartTx, storeVars
<1>2. \A k \in Call : sending'[k].step = "idle"
  BY <1>1, CallFacts DEF IInv
<1>3. \A k \in Call : ~ Open(k)'
  BY <1>2 DEF Open
<1>4. \A m, u : IsNonceOf(m, u) => IsNonceOf(m, u)'
  BY <1>1, <1>3 DEF IsNonceOf
<1>5. PoolFixed'
  BY <1>1, <1>4 DEF CInv, PoolFixed
<1>6. ChainFixed'
  <2> SUFFICES ASSUME NEW i \in 1..Len(blocks), blocks[i] # NoTx
               PROVE  IsNonceOf(NonceAt(i - 1), blocks[i])'
    BY <1>1 DEF ChainFixed
  <2> QED
    BY <1>1, <1>4, SameBlocks
<1>7. StoresFixed'
  <2>1. \A u \in Tx : stored'[u] # NoNonce => IsNonceOf(stored[u], u)'
    BY <1>1, <1>4 DEF CInv, StoresFixed
  <2> QED
    BY <1>2, <1>3, <2>1 DEF StoresFixed
<1>8. check'.missing = {} /\ check'.step = "wait" /\ check'.block = 0
  BY <1>1 DEF NoCheck
<1>9. WatchedRecorded'
  BY <1>1, <1>8 DEF CInv, WatchedRecorded, Recorded
<1>10. CheckSound'
  BY <1>1, <1>8, SMT DEF CheckSound, IInv, TxTypes
<1>11. \A t \in cancelledTx' : Recorded(t)' /\ Beaten(t)'
  BY <1>1, ZenonT(40) DEF CInv, Recorded, Beaten, NonceAt
<1> QED
  BY <1>5, <1>6, <1>7, <1>9, <1>10, <1>11 DEF CInv

\* The invariant is kept by a step of the monitor when its check stays sound and
\* what it reports as cancelled is beaten.
LEMMA MonitorKeepsCancel ==
  ASSUME CInv, UNCHANGED <<blocks, pool, stored, sending>>,
         pendingTx' \subseteq pendingTx, watches' \subseteq watches,
         check'.missing \subseteq watches \cup check.missing, CheckSound',
         \A t \in cancelledTx' : t \in cancelledTx \/ (Recorded(t) /\ Beaten(t))
  PROVE  CInv'
<1>1. \A m, u : IsNonceOf(m, u) => IsNonceOf(m, u)'
  BY DEF IsNonceOf, Open
<1>2. PoolFixed' /\ StoresFixed'
  BY DEF CInv, PoolFixed, StoresFixed, IsNonceOf, Open
<1>3. ChainFixed'
  <2> SUFFICES ASSUME NEW i \in 1..Len(blocks), blocks[i] # NoTx
               PROVE  IsNonceOf(NonceAt(i - 1), blocks[i])'
    BY DEF ChainFixed
  <2> QED
    BY <1>1, SameBlocks
<1>4. WatchedRecorded'
  BY DEF CInv, WatchedRecorded, Recorded
<1>5. \A t \in cancelledTx' : Recorded(t)' /\ Beaten(t)'
  BY ZenonT(40) DEF CInv, Recorded, Beaten, NonceAt
<1> QED
  BY <1>2, <1>3, <1>4, <1>5 DEF CInv

\* The monitor: a transaction without a receipt whose nonce was used
\* CancellationDepth blocks below the block that is checked is beaten.
LEMMA MonitorStepsCancel ==
  ASSUME IInv, CInv, Monitor
  PROVE  CInv'
<1>0. Len(blocks) \in Nat /\ DOMAIN blocks = 1..Len(blocks)
  BY SMT DEF IInv, TxTypes
<1>1. UNCHANGED <<blocks, pool, stored, sending, pendingTx>>
  BY DEF Monitor, CheckPending, Receipts, Notify, CheckFails, chainVars, storeVars
<1>2. NoCheck.missing = {} /\ NoCheck.step = "wait" /\ NoCheck.block = 0
  BY DEF NoCheck
<1>3. check' = NoCheck => CheckSound' /\ check'.missing = {}
  BY <1>0, <1>1, <1>2, SMT DEF CheckSound
<1>4. CASE CheckPending
  <2>1. PICK b, m : b = Len(blocks) /\ m = Confirmable(NonceAt(Len(blocks)))
    OBVIOUS
  <2>2. /\ check' = [step |-> "receipts", block |-> b, found |-> {}, missing |-> m]
        /\ UNCHANGED <<watches, cancelledTx>> /\ m \subseteq watches
    BY <1>4, <2>1, ZenonT(40) DEF CheckPending, Confirmable
  <2>3. check'.step = "receipts" /\ check'.block = b /\ check'.missing = m
    BY <2>2
  <2>4. CheckSound'
    BY <1>0, <1>1, <2>1, <2>3, SMT DEF CheckSound
  <2> QED
    BY <1>1, <2>2, <2>3, <2>4, MonitorKeepsCancel, ZenonT(40)
<1>5. CASE Receipts
  <2>1. /\ check' = [step |-> "notify", block |-> check.block, found |-> check.missing \cap MinedTx,
                     missing |-> check.missing \ MinedTx]
        /\ UNCHANGED <<watches, cancelledTx>>
    BY <1>5 DEF Receipts
  <2>2. check'.block = check.block /\ check'.missing = check.missing \ MinedTx
    BY <2>1
  <2>3. check.block \in 0..Len(blocks) /\ \A i \in 1..check.block : i \in 1..Len(blocks)
    BY <1>0, SMT DEF CInv, CheckSound
  <2>4. NoTx \notin check.missing
    BY NoTxApart DEF CInv, WatchedRecorded, Recorded
  <2>5. \A i \in 1..check.block : blocks[i] \notin check'.missing
    BY <1>0, <2>2, <2>3, <2>4, ZenonT(40) DEF MinedTx
  <2>6. CheckSound'
    BY <1>1, <2>2, <2>3, <2>5 DEF CheckSound
  <2> QED
    BY <1>1, <2>1, <2>2, <2>6, MonitorKeepsCancel
<1>6. CASE Notify
  <2>1. PICK gone : gone = {t \in check.missing : stored[t] < FinalNonce(check.block)}
    OBVIOUS
  <2>2. /\ check.step = "notify" /\ check' = NoCheck
        /\ check.missing # {} => check.block >= CancellationDepth
        /\ cancelledTx' = cancelledTx \cup gone /\ watches' \subseteq watches
    BY <1>6, <2>1, ZenonT(40) DEF Notify
  <2>3. ASSUME NEW t \in gone
        PROVE  Recorded(t) /\ Beaten(t)
    <3>1. /\ t \in check.missing /\ stored[t] < FinalNonce(check.block)
          /\ check.block >= CancellationDepth
      BY <2>1, <2>2
    <3>2. Recorded(t)
      BY <3>1 DEF CInv, WatchedRecorded
    <3>3. PICK b \in Nat :
            /\ b = check.block - CancellationDepth /\ b <= Len(blocks) - CancellationDepth
            /\ \A i \in 1..b :
                 i \in 1..check.block /\ i \in 1..Len(blocks) - CancellationDepth
      BY <1>0, <3>1, TransactionsAssumption, SMT DEF CInv, CheckSound
    <3>4. PICK n \in Nat : n = stored[t]
      BY <3>2 DEF Recorded, IInv, TxTypes
    <3>5. n < NonceAt(b)
      BY <3>1, <3>3, <3>4, ZenonT(40) DEF FinalNonce
    <3>6. PICK i \in 1..b : Holds(i) /\ NonceAt(i - 1) = n
      BY <1>0, <3>5, NonceUsed
    <3>7. blocks[i] # t
      BY <2>2, <3>1, <3>3, <3>6, ZenonT(40) DEF CInv, CheckSound
    <3> QED
      BY <3>2, <3>3, <3>4, <3>6, <3>7 DEF Beaten, Holds
  <2> QED
    BY <1>1, <1>3, <2>2, <2>3, MonitorKeepsCancel
<1>7. CASE CheckFails
  <2>1. check' = NoCheck /\ UNCHANGED <<watches, cancelledTx>>
    BY <1>7 DEF CheckFails
  <2> QED
    BY <1>1, <1>3, <2>1, MonitorKeepsCancel
<1> QED
  BY <1>4, <1>5, <1>6, <1>7 DEF Monitor

\* The goroutine that waits for a result, and steps that change nothing.
LEMMA UnregisterKeepsCancel ==
  ASSUME IInv, CInv, (\E t \in Tx : Unregister(t)) \/ UNCHANGED txVars
  PROVE  CInv'
<1>1. /\ UNCHANGED <<blocks, pool, stored, sending, watches, check, cancelledTx>>
      /\ pendingTx' \subseteq pendingTx
  BY DEF Unregister, chainVars, txVars
<1>2. CheckSound'
  BY <1>1 DEF CInv, CheckSound
<1> QED
  BY <1>1, <1>2, MonitorKeepsCancel

\* A transaction that was reported as cancelled never is in the chain, whatever the
\* pool drops, wherever the node crashes, and also when a block is replaced between
\* the receipts and the report (watchPending, checkPending, CancelTransaction).
THEOREM CancellationIsFinal == TxSpec => []CancelledIsFinal
<1>1. TxInit => IInv /\ CInv
  BY TxInitially, CancelInitially, TransactionsAssumption
<1>2. IInv /\ CInv /\ [TxNext]_txVars => IInv' /\ CInv'
  <2> SUFFICES ASSUME IInv, CInv, [TxNext]_txVars PROVE IInv' /\ CInv'
    OBVIOUS
  <2>1. IInv'
    BY TxStep, ZenonT(40)
  <2>2. CInv'
    <3>1. CASE MineTx \/ Reorg \/ \E p \in pool : Drop(p)
      BY <3>1, ChainStepsCancel
    <3>2. CASE Monitor
      BY <3>2, MonitorStepsCancel
    <3>3. CASE (\E t \in Tx : Unregister(t)) \/ UNCHANGED txVars
      BY <3>3, UnregisterKeepsCancel, ZenonT(40)
    <3>4. CASE \E t \in Tx : ResendTransaction(t)
      BY <3>4, ResendKeepsCancel
    <3>5. CASE PutNonce
      BY <3>5, PutNonceKeepsCancel
    <3>6. CASE RestartTx
      BY <3>6, RestartKeepsCancel
    <3>7. CASE \E r \in Req : Send(r)
      BY <3>7, SendKeepsCancel
    <3>8. CASE \E r \in Cancellable : CancelTransaction(r)
      BY <3>8, CancelKeepsCancel
    <3>9. CASE \E k \in Call : PutStored(k) \/ PutPending(k)
      BY <3>9, PutStoredKeepsCancel, PutPendingKeepsCancel
    <3> QED
      BY <3>1, <3>2, <3>3, <3>4, <3>5, <3>6, <3>7, <3>8, <3>9 DEF TxNext
  <2> QED
    BY <2>1, <2>2
<1>3. IInv /\ CInv => CancelledIsFinal
  BY BeatenNotMined
<1> QED
  BY <1>1, <1>2, <1>3, PTL DEF TxSpec
=============================================================================
