--------------------------- MODULE ServiceProofs ---------------------------
(***************************************************************************)
(* Proofs about the process and two of its services: the identity of a     *)
(* node and the order in which it closes its parts (OneIdentity and        *)
(* StoresCloseLast of Node), the deposits of the mine worker               *)
(* (DepositRepeatedOnlyAfterTimeout of MineWorker) and the stamps          *)
(* (StampsUniqueAndValid of Stamps), for any number of starts, crashes,    *)
(* calls, trust nodes, batches, buckets and blocks.                        *)
(***************************************************************************)
EXTENDS Node, MineWorker, Stamps, TLAPS

-----------------------------------------------------------------------------
(* Stamps.                                                                 *)

Issuer == [batch : Owned, block : Nat, buckets : [Bucket -> 0..Slots]]

StampTypes ==
  /\ height \in Nat /\ csBlock \in Nat /\ csBlock <= height
  /\ created \in [Owned -> Nat] /\ \A b \in Owned : created[b] <= height
  /\ issuers \in Seq(Issuer) /\ saved \in Seq(Issuer)
  /\ issued \in [Owned \X Bucket \X (0..Slots) -> Nat]

\* A list of issuers, in the service or in the store, has one issuer for a
\* batch, made with the block the batch was created in.
WellFormed(list) ==
  /\ \A i \in 1..Len(list) : created[list[i].batch] # 0 /\ list[i].block = created[list[i].batch]
  /\ \A i, j \in 1..Len(list) : list[i].batch = list[j].batch => i = j

\* An issuer that an upload holds was usable when it was asked for.
Matured(i) == issuers[i].block + BlockThreshold <= height

SessionsMatured == \A i \in sessions : i \in 1..Len(issuers) /\ Matured(i)

\* A stamp index that was used lies below the counter of the batch's issuer.
UsedIsCounted ==
  \A b \in Owned, k \in Bucket, n \in 0..Slots :
    issued[<<b, k, n>>] > 0 =>
      /\ issued[<<b, k, n>>] = 1
      /\ \E i \in 1..Len(issuers) :
           issuers[i].batch = b /\ n < issuers[i].buckets[k] /\ Matured(i)

IInv ==
  /\ StampTypes /\ WellFormed(issuers) /\ WellFormed(saved)
  /\ SessionsMatured /\ UsedIsCounted

-----------------------------------------------------------------------------
\* A sequence with one more element at its end.
LEMMA Appended ==
  ASSUME NEW S, NEW seq \in Seq(S), NEW e \in S
  PROVE  /\ Append(seq, e) \in Seq(S)
         /\ Len(seq) \in Nat /\ Len(Append(seq, e)) = Len(seq) + 1
         /\ \A i \in 1..Len(seq) : Append(seq, e)[i] = seq[i]
         /\ Append(seq, e)[Len(seq) + 1] = e
  OBVIOUS

\* A sequence with another element in one place.
LEMMA Replaced ==
  ASSUME NEW S, NEW seq \in Seq(S), NEW i \in 1..Len(seq), NEW e \in S
  PROVE  /\ [seq EXCEPT ![i] = e] \in Seq(S)
         /\ Len([seq EXCEPT ![i] = e]) = Len(seq)
         /\ \A j \in 1..Len(seq) : [seq EXCEPT ![i] = e][j] = IF j = i THEN e ELSE seq[j]
  OBVIOUS

\* What the members of a list of issuers have.
LEMMA MemberTypes ==
  ASSUME NEW l \in Seq(Issuer), NEW i \in 1..Len(l)
  PROVE  /\ l[i] \in Issuer /\ l[i].batch \in Owned /\ l[i].block \in Nat
         /\ l[i].buckets \in [Bucket -> 0..Slots]
<1>1. l[i] \in Issuer
  OBVIOUS
<1> QED
  BY <1>1 DEF Issuer

\* Add (issuers are added by the receipt and by the event) keeps the list in
\* order, and only adds to it.
LEMMA AddKeepsList ==
  ASSUME NEW b \in Owned, NEW n \in Nat, Slots \in Nat,
         issuers \in Seq(Issuer), WellFormed(issuers),
         created \in [Owned -> Nat], created[b] = n, n # 0,
         Add(NewStampIssuer(b, n))
  PROVE  /\ issuers' \in Seq(Issuer)
         /\ Len(issuers') >= Len(issuers)
         /\ \A i \in 1..Len(issuers) : issuers'[i] = issuers[i]
         /\ \A i \in 1..Len(issuers') :
              created[issuers'[i].batch] # 0 /\ issuers'[i].block = created[issuers'[i].batch]
         /\ \A i, j \in 1..Len(issuers') : issuers'[i].batch = issuers'[j].batch => i = j
<1> DEFINE st == NewStampIssuer(b, n)
<1>1. st \in Issuer /\ st.batch = b /\ st.block = n
  BY DEF NewStampIssuer, Issuer
<1>2. DOMAIN issuers = 1..Len(issuers) /\ Len(issuers) \in Nat
  OBVIOUS
<1>3. CASE \E i \in DOMAIN issuers : issuers[i].batch = st.batch
  <2>1. issuers' = issuers
    BY <1>3 DEF Add
  <2> QED
    BY <2>1, <1>2 DEF WellFormed
<1>4. CASE ~ \E i \in DOMAIN issuers : issuers[i].batch = st.batch
  <2> HIDE DEF st
  <2>1. issuers' = Append(issuers, st)
    BY <1>4 DEF Add, st
  <2>2. /\ issuers' \in Seq(Issuer) /\ Len(issuers') = Len(issuers) + 1
        /\ \A i \in 1..Len(issuers) : issuers'[i] = issuers[i]
        /\ issuers'[Len(issuers) + 1] = st
    BY <2>1, <1>1, <1>2, Appended
  <2>3. \A i \in 1..Len(issuers') : i \in 1..Len(issuers) \/ i = Len(issuers) + 1
    BY <2>2, <1>2
  <2>4. \A i \in 1..Len(issuers) : issuers'[i].batch # st.batch
    BY <2>2, <1>2, <1>4, Zenon
  <2>5. \A i \in 1..Len(issuers') :
          created[issuers'[i].batch] # 0 /\ issuers'[i].block = created[issuers'[i].batch]
    BY <2>2, <2>3, <1>1 DEF WellFormed
  <2>6. \A i, j \in 1..Len(issuers') : issuers'[i].batch = issuers'[j].batch => i = j
    BY <2>2, <2>3, <2>4, <1>1 DEF WellFormed
  <2> QED
    BY <2>2, <2>5, <2>6, <1>2
<1> QED
  BY <1>3, <1>4

-----------------------------------------------------------------------------
\* The node starts with empty lists and no stamps.
LEMMA StampsInitially ==
  ASSUME Slots \in Nat, BlockThreshold \in Nat, StampsInit
  PROVE  IInv
<1>1. issuers \in Seq(Issuer) /\ saved \in Seq(Issuer) /\ Len(issuers) = 0 /\ Len(saved) = 0
  BY DEF StampsInit
<1>2. issued \in [Owned \X Bucket \X (0..Slots) -> Nat]
  BY DEF StampsInit
<1>3. \A b \in Owned, k \in Bucket, n \in 0..Slots : issued[<<b, k, n>>] = 0
  BY DEF StampsInit
<1>4. StampTypes
  BY <1>1, <1>2 DEF StampsInit, StampTypes
<1>5. WellFormed(issuers) /\ WellFormed(saved)
  BY <1>1 DEF WellFormed
<1>6. SessionsMatured
  BY DEF StampsInit, SessionsMatured
<1>7. UsedIsCounted
  BY <1>3 DEF UsedIsCounted
<1> QED
  BY <1>4, <1>5, <1>6, <1>7 DEF IInv

\* Receipt and Handle: adding an issuer keeps the invariant.
LEMMA AddKeepsInv ==
  ASSUME Slots \in Nat, BlockThreshold \in Nat, IInv,
         NEW b \in Owned, NEW n \in Nat, created[b] = n, n # 0,
         Add(NewStampIssuer(b, n)),
         csBlock' \in Nat, csBlock' <= height,
         UNCHANGED <<height, created, saved, sessions, issued>>
  PROVE  IInv'
<1>1. /\ issuers' \in Seq(Issuer)
      /\ Len(issuers') >= Len(issuers)
      /\ \A i \in 1..Len(issuers) : issuers'[i] = issuers[i]
      /\ \A i \in 1..Len(issuers') :
           created[issuers'[i].batch] # 0 /\ issuers'[i].block = created[issuers'[i].batch]
      /\ \A i, j \in 1..Len(issuers') : issuers'[i].batch = issuers'[j].batch => i = j
  BY AddKeepsList DEF IInv, StampTypes
<1>2. Len(issuers) \in Nat /\ Len(issuers') \in Nat
  BY <1>1 DEF IInv, StampTypes
<1>3. \A i \in 1..Len(issuers) : i \in 1..Len(issuers')
  BY <1>1, <1>2
<1>4. StampTypes'
  BY <1>1 DEF IInv, StampTypes
<1>5. WellFormed(issuers)' /\ WellFormed(saved)'
  BY <1>1 DEF IInv, WellFormed
<1>6. SessionsMatured'
  BY <1>1, <1>3 DEF IInv, SessionsMatured, Matured
<1>7. UsedIsCounted'
  <2> SUFFICES ASSUME NEW c \in Owned, NEW k \in Bucket, NEW m \in 0..Slots, issued[<<c, k, m>>] > 0
               PROVE  /\ issued[<<c, k, m>>] = 1
                      /\ \E i \in 1..Len(issuers') :
                           issuers'[i].batch = c /\ m < issuers'[i].buckets[k] /\ Matured(i)'
    BY DEF UsedIsCounted
  <2>1. PICK i \in 1..Len(issuers) :
          issuers[i].batch = c /\ m < issuers[i].buckets[k] /\ Matured(i)
    BY DEF IInv, UsedIsCounted
  <2>2. Matured(i)'
    BY <2>1, <1>1 DEF Matured
  <2> QED
    BY <2>1, <2>2, <1>1, <1>3 DEF IInv, UsedIsCounted
<1> QED
  BY <1>4, <1>5, <1>6, <1>7 DEF IInv

\* MineBlock: a batch is created in a new block only while it has no issuer.
LEMMA MineBlockKeepsInv ==
  ASSUME Slots \in Nat, BlockThreshold \in Nat, IInv, MineBlock
  PROVE  IInv'
<1> USE DEF IInv
<1>1. height' = height + 1 /\ UNCHANGED <<csBlock, issuers, saved, sessions, issued>>
  BY DEF MineBlock
<1>2. /\ created' \in [Owned -> Nat] /\ \A b \in Owned : created'[b] <= height'
      /\ \A b \in Owned : created[b] # 0 => created'[b] = created[b]
  <2>1. CASE UNCHANGED created
    BY <1>1, <2>1 DEF StampTypes
  <2>2. ASSUME NEW b \in Owned, created[b] = 0, created' = [created EXCEPT ![b] = height']
        PROVE  /\ created' \in [Owned -> Nat] /\ \A c \in Owned : created'[c] <= height'
               /\ \A c \in Owned : created[c] # 0 => created'[c] = created[c]
    BY <1>1, <2>2 DEF StampTypes
  <2> QED
    BY <2>1, <2>2 DEF MineBlock
<1>3. StampTypes'
  BY <1>1, <1>2 DEF StampTypes
<1>4. \A l \in Seq(Issuer) : \A i \in 1..Len(l) : l[i].batch \in Owned
  BY MemberTypes
<1>5. WellFormed(issuers)' /\ WellFormed(saved)'
  BY <1>1, <1>2, <1>4 DEF WellFormed, StampTypes
<1>6. \A i \in 1..Len(issuers) : Matured(i) => Matured(i)'
  <2> TAKE i \in 1..Len(issuers)
  <2>1. issuers[i].block \in Nat
    BY MemberTypes DEF StampTypes
  <2> QED
    BY <1>1, <2>1 DEF Matured, StampTypes
<1>7. SessionsMatured'
  BY <1>1, <1>6 DEF SessionsMatured
<1>8. UsedIsCounted'
  BY <1>1, <1>6 DEF UsedIsCounted
<1> QED
  BY <1>3, <1>5, <1>7, <1>8

\* Stamp: the index that is taken was not used before, because the batch has one
\* issuer and used indexes lie below its counter.
LEMMA StampKeepsInv ==
  ASSUME Slots \in Nat, BlockThreshold \in Nat, IInv,
         NEW i \in DOMAIN issuers, NEW k \in Bucket, Stamp(i, k)
  PROVE  IInv'
<1> DEFINE st == issuers[i]
           n  == st.buckets[k]
           e  == [st EXCEPT !.buckets[k] = @ + 1]
<1> USE DEF IInv
<1>1. /\ i \in sessions /\ i \in 1..Len(issuers) /\ Matured(i)
      /\ UNCHANGED <<height, created, csBlock, saved, sessions>>
  BY DEF Stamp, SessionsMatured
<1>2. /\ st \in Issuer /\ st.batch \in Owned /\ st.block \in Nat
      /\ st.buckets \in [Bucket -> 0..Slots] /\ n \in 0..Slots /\ n # Slots
  <2>1. /\ st \in Issuer /\ st.batch \in Owned /\ st.block \in Nat
        /\ st.buckets \in [Bucket -> 0..Slots]
    BY <1>1, MemberTypes DEF StampTypes
  <2> QED
    BY <2>1 DEF Stamp, Inc, BucketFull
<1>3. /\ e \in Issuer /\ e.batch = st.batch /\ e.block = st.block
      /\ e.buckets[k] = n + 1
      /\ \A q \in Bucket : st.buckets[q] <= e.buckets[q]
  BY <1>2 DEF Issuer
<1>4. issuers' = [issuers EXCEPT ![i] = e]
  BY DEF Stamp, Inc
<1> HIDE DEF st, n, e
<1>5. /\ issuers' \in Seq(Issuer) /\ Len(issuers') = Len(issuers)
      /\ \A j \in 1..Len(issuers) : issuers'[j] = IF j = i THEN e ELSE issuers[j]
  BY <1>1, <1>3, <1>4, Replaced DEF StampTypes
<1>6. \A j \in 1..Len(issuers) :
        /\ issuers'[j].batch = issuers[j].batch /\ issuers'[j].block = issuers[j].block
        /\ \A q \in Bucket : issuers[j].buckets[q] \in Nat /\ issuers'[j].buckets[q] \in Nat
                             /\ issuers[j].buckets[q] <= issuers'[j].buckets[q]
  <2> TAKE j \in 1..Len(issuers)
  <2>1. issuers[j].buckets \in [Bucket -> 0..Slots] /\ issuers'[j].buckets \in [Bucket -> 0..Slots]
    BY <1>5, MemberTypes DEF StampTypes
  <2>2. CASE j = i
    <3>1. issuers'[j] = e /\ issuers[j] = st
      BY <1>5, <2>2 DEF st
    <3> QED
      BY <1>3, <2>1, <3>1
  <2>3. CASE j # i
    <3>1. issuers'[j] = issuers[j]
      BY <1>5, <2>3
    <3> QED
      BY <2>1, <3>1
  <2> QED
    BY <2>2, <2>3
<1>7. issued' = [issued EXCEPT ![<<st.batch, k, n>>] = issued[<<st.batch, k, n>>] + 1]
  BY DEF Stamp, st, n
<1>8. <<st.batch, k, n>> \in Owned \X Bucket \X (0..Slots)
  BY <1>2
<1>9. issued' \in [Owned \X Bucket \X (0..Slots) -> Nat]
  BY <1>7, <1>8 DEF StampTypes
<1>10. StampTypes'
  BY <1>1, <1>5, <1>9 DEF StampTypes
<1>11. WellFormed(issuers)' /\ WellFormed(saved)'
  BY <1>1, <1>5, <1>6 DEF WellFormed
<1>12. \A j \in 1..Len(issuers) : Matured(j) => Matured(j)'
  BY <1>1, <1>6 DEF Matured
<1>13. SessionsMatured'
  BY <1>1, <1>5, <1>12 DEF SessionsMatured
<1>14. issued[<<st.batch, k, n>>] = 0
  <2> SUFFICES ASSUME issued[<<st.batch, k, n>>] > 0 PROVE FALSE
    BY <1>8 DEF StampTypes
  <2>1. PICK j \in 1..Len(issuers) : issuers[j].batch = st.batch /\ n < issuers[j].buckets[k]
    BY <1>2 DEF UsedIsCounted
  <2>2. j = i
    BY <2>1, <1>1 DEF WellFormed, st
  <2> QED
    BY <2>1, <2>2, <1>2 DEF st, n
<1>15. UsedIsCounted'
  <2> SUFFICES ASSUME NEW b \in Owned, NEW q \in Bucket, NEW m \in 0..Slots, issued'[<<b, q, m>>] > 0
               PROVE  /\ issued'[<<b, q, m>>] = 1
                      /\ \E j \in 1..Len(issuers') :
                           issuers'[j].batch = b /\ m < issuers'[j].buckets[q] /\ Matured(j)'
    BY DEF UsedIsCounted
  <2>1. CASE <<b, q, m>> = <<st.batch, k, n>>
    <3>1. b = st.batch /\ q = k /\ m = n
      BY <2>1
    <3>2. issued'[<<b, q, m>>] = 1
      BY <2>1, <1>7, <1>8, <1>14 DEF StampTypes
    <3>3. issuers'[i] = e /\ Matured(i)'
      BY <1>1, <1>5, <1>12
    <3> QED
      BY <3>1, <3>2, <3>3, <1>1, <1>2, <1>3, <1>5
  <2>2. CASE <<b, q, m>> # <<st.batch, k, n>>
    <3>1. issued'[<<b, q, m>>] = issued[<<b, q, m>>]
      BY <2>2, <1>7 DEF StampTypes
    <3>2. /\ issued[<<b, q, m>>] = 1
          /\ \E j \in 1..Len(issuers) :
               issuers[j].batch = b /\ m < issuers[j].buckets[q] /\ Matured(j)
      BY <3>1 DEF UsedIsCounted
    <3>3. PICK j \in 1..Len(issuers) :
            issuers[j].batch = b /\ m < issuers[j].buckets[q] /\ Matured(j)
      BY <3>2
    <3>4. issuers'[j].batch = b /\ m < issuers'[j].buckets[q] /\ Matured(j)'
      BY <3>3, <1>6, <1>12
    <3> QED
      BY <3>1, <3>2, <3>4, <1>5
  <2> QED
    BY <2>1, <2>2
<1> QED
  BY <1>10, <1>11, <1>13, <1>15

\* Close and Crash: the issuers are those that were stored.  After Close all
\* counters are; after a crash the record of used indexes starts again.
LEMMA RestartKeepsInv ==
  ASSUME Slots \in Nat, BlockThreshold \in Nat, IInv, Close \/ Crash
  PROVE  IInv'
<1> USE DEF IInv
<1>1. /\ UNCHANGED <<height, created>> /\ sessions' = {}
      /\ issuers' = saved' /\ csBlock' \in {0, csBlock}
  BY DEF Close, Crash, NewService
<1>2. SessionsMatured'
  BY <1>1 DEF SessionsMatured
<1>3. CASE Close
  <2>1. issuers' = issuers /\ saved' = issuers /\ issued' = issued
    BY <1>1, <1>3 DEF Close
  <2>2. StampTypes'
    BY <1>1, <2>1 DEF StampTypes
  <2>3. WellFormed(issuers)' /\ WellFormed(saved)'
    BY <1>1, <2>1 DEF WellFormed
  <2>4. UsedIsCounted'
    BY <1>1, <2>1 DEF UsedIsCounted, Matured
  <2> QED
    BY <1>2, <2>2, <2>3, <2>4
<1>4. CASE Crash
  <2>1. issuers' = saved /\ saved' = saved /\ issued' = [s \in DOMAIN issued |-> 0]
    BY <1>1, <1>4 DEF Crash
  <2>2. DOMAIN issued = Owned \X Bucket \X (0..Slots)
    BY DEF StampTypes
  <2>3. issued' \in [Owned \X Bucket \X (0..Slots) -> Nat]
    BY <2>1, <2>2
  <2>4. StampTypes'
    BY <1>1, <2>1, <2>3 DEF StampTypes
  <2>5. WellFormed(issuers)' /\ WellFormed(saved)'
    BY <1>1, <2>1 DEF WellFormed
  <2>6. \A s \in Owned \X Bucket \X (0..Slots) : issued'[s] = 0
    BY <2>1, <2>2
  <2>7. UsedIsCounted'
    BY <2>6 DEF UsedIsCounted
  <2> QED
    BY <1>2, <2>4, <2>5, <2>7
<1> QED
  BY <1>3, <1>4

\* What the invariant speaks of may stay as it is.
LEMMA StutterKeepsInv ==
  ASSUME IInv, UNCHANGED <<height, created, csBlock, issuers, saved, sessions, issued>>
  PROVE  IInv'
<1>1. StampTypes'
  BY DEF IInv, StampTypes
<1>2. WellFormed(issuers)' /\ WellFormed(saved)'
  BY DEF IInv, WellFormed
<1>3. SessionsMatured' /\ UsedIsCounted'
  BY DEF IInv, SessionsMatured, UsedIsCounted, Matured
<1> QED
  BY <1>1, <1>2, <1>3 DEF IInv

\* Every step keeps the invariant.
LEMMA StampsStep ==
  ASSUME Slots \in Nat, BlockThreshold \in Nat, IInv, [StampsNext]_stampVars
  PROVE  IInv'
<1> USE DEF IInv
<1>1. CASE MineBlock
  BY <1>1, MineBlockKeepsInv
<1>2. CASE Handle
  <2>1. csBlock' = csBlock + 1 /\ csBlock' <= height /\ csBlock' \in Nat /\ csBlock' # 0
        /\ UNCHANGED <<height, created, saved, sessions, issued>>
    BY <1>2 DEF Handle, StampTypes
  <2>2. CASE UNCHANGED issuers
    BY <2>1, <2>2 DEF StampTypes, WellFormed, SessionsMatured, UsedIsCounted, Matured
  <2>3. ASSUME NEW b \in Owned, created[b] = csBlock', Add(NewStampIssuer(b, csBlock'))
        PROVE  IInv'
    <3> DEFINE n == csBlock'
    <3>1. n \in Nat /\ n # 0 /\ n <= height /\ created[b] = n /\ Add(NewStampIssuer(b, n))
      BY <2>1, <2>3
    <3> QED
      BY <2>1, <3>1, AddKeepsInv
  <2> QED
    BY <1>2, <2>2, <2>3 DEF Handle
<1>3. CASE Close \/ Crash
  BY <1>3, RestartKeepsInv
<1>4. ASSUME NEW b \in Owned, CreateBatch(b) \/ Abandon(b)
      PROVE  IInv'
  BY <1>4, StutterKeepsInv DEF CreateBatch, Abandon
<1>5. ASSUME NEW b \in Owned, Receipt(b)
      PROVE  IInv'
  <2>1. created[b] \in Nat /\ created[b] # 0 /\ Add(NewStampIssuer(b, created[b]))
    BY <1>5 DEF Receipt, StampTypes
  <2>2. UNCHANGED <<height, created, csBlock, saved, sessions, issued>>
    BY <1>5 DEF Receipt
  <2> QED
    BY <2>1, <2>2, AddKeepsInv DEF StampTypes
<1>6. ASSUME NEW i \in DOMAIN issuers, GetStampIssuer(i)
      PROVE  IInv'
  <2>1. /\ sessions' = sessions \cup {i} /\ i \in 1..Len(issuers)
        /\ UNCHANGED <<height, created, csBlock, issuers, saved, issued>>
    BY <1>6 DEF GetStampIssuer, StampTypes
  <2>2. issuers[i].block \in Nat
    BY <2>1, MemberTypes DEF StampTypes
  <2>3. Matured(i)
    BY <1>6, <2>2 DEF GetStampIssuer, IssuerUsable, Matured, StampTypes
  <2> QED
    BY <2>1, <2>3 DEF StampTypes, WellFormed, SessionsMatured, UsedIsCounted, Matured
<1>7. ASSUME NEW i \in DOMAIN issuers, NEW k \in Bucket, Stamp(i, k)
      PROVE  IInv'
  BY <1>7, StampKeepsInv
<1>8. CASE UNCHANGED stampVars
  BY <1>8, StutterKeepsInv DEF stampVars
<1> QED
  BY <1>1, <1>2, <1>3, <1>4, <1>5, <1>6, <1>7, <1>8 DEF StampsNext

\* A used index is below a counter that never passes the end of the bucket, of
\* an issuer whose batch is old enough.
LEMMA InvImpliesStamps ==
  ASSUME Slots \in Nat, BlockThreshold \in Nat, IInv
  PROVE  StampsUniqueAndValid
<1> SUFFICES ASSUME NEW b \in Owned, NEW k \in Bucket, NEW n \in 0..Slots, issued[<<b, k, n>>] > 0
             PROVE  /\ issued[<<b, k, n>>] = 1
                    /\ height >= BlockThreshold /\ Valid(b, n, height - BlockThreshold)
  BY DEF StampsUniqueAndValid
<1>1. issued[<<b, k, n>>] = 1
  BY DEF IInv, UsedIsCounted
<1>2. PICK i \in 1..Len(issuers) : issuers[i].batch = b /\ n < issuers[i].buckets[k] /\ Matured(i)
  BY DEF IInv, UsedIsCounted
<1>3. issuers[i].block \in Nat /\ issuers[i].buckets[k] \in 0..Slots
  BY MemberTypes DEF IInv, StampTypes
<1>4. created[b] # 0 /\ issuers[i].block = created[b]
  BY <1>2 DEF IInv, WellFormed
<1>5. PICK c \in Nat : c = created[b]
  BY DEF IInv, StampTypes
<1>6. height \in Nat /\ BlockThreshold \in Nat /\ Slots \in Nat
  BY StampsAssumption DEF IInv, StampTypes
<1>7. c + BlockThreshold <= height
  BY <1>2, <1>4, <1>5 DEF Matured
<1>8. height >= BlockThreshold /\ c <= height - BlockThreshold
  BY <1>6, <1>7
<1>9. n < Slots
  BY <1>2, <1>3, <1>6
<1> QED
  BY <1>1, <1>4, <1>5, <1>8, <1>9 DEF Valid

\* However many uploads stamp at one time, in whichever order the receipt and
\* the event add an issuer, and however often events are replayed: no stamp index
\* is issued twice between losses of the counters, and every stamp is valid for a
\* peer that is at most BlockThreshold blocks behind (StampIssuer, Service.Add).
THEOREM StampsAreUniqueAndValid == StampsSpec => []StampsUniqueAndValid
<1>1. StampsInit => IInv
  BY StampsAssumption, StampsInitially
<1>2. IInv /\ [StampsNext]_stampVars => IInv'
  BY StampsAssumption, StampsStep
<1>3. IInv => StampsUniqueAndValid
  BY StampsAssumption, InvImpliesStamps
<1> QED
  BY <1>1, <1>2, <1>3, PTL DEF StampsSpec

-----------------------------------------------------------------------------
(* The process.                                                            *)

\* Most leaves are first-order; the ones with arithmetic cite SMT.
USE Zenon

DeployState == {"pending", "mined", "failed"}

\* Keys are numbered by the start that made them, from one.
KeyMade ==
  /\ starts \in Nat /\ keyFile \in Int /\ key \in Int /\ deploys \in Seq(DeployState)
  /\ pc # "off" => starts > 0
  /\ pc \notin {"off", "signer"} => key > 0

\* The overlay is in the store before libp2p starts with it, and it stays there.
OverlayKept ==
  /\ announced \subseteq {savedOverlay}
  /\ savedOverlay = None => announced = {}
  /\ pc \in {"overlay", "p2p"} => overlay # None
  /\ pc = "p2p" => savedOverlay = overlay

\* A chequebook is recorded once, before the deposit and after its deployment.
BookKept ==
  /\ funded \subseteq {bookKey} /\ 0 \notin funded
  /\ pc \in {"balance", "deploy", "saveDeployment", "waitDeployed", "saveBook"} => bookKey = 0
  /\ pc \in {"waitDeployed", "saveBook"} => dep # 0
  /\ pc = "saveDeployment" => tx # 0
  /\ pc = "deposit" => bookKey # 0

\* What Shutdown of main has closed: the stages it has passed.
Passed(x) == \E k \in 1..Len(Order) : k < stage /\ x \in Order[k]
ClosedInOrder ==
  /\ stage \in Nat
  /\ stage = 0 => closed = {}
  /\ by = "main" => pc = "stopping" /\ stage > 0 /\ closed = {x \in opened : Passed(x)}

NodeInv == KeyMade /\ OverlayKept /\ BookKept /\ ClosedInOrder

-----------------------------------------------------------------------------
LEMMA NodeStart == NodeInit => NodeInv
<1> SUFFICES ASSUME NodeInit PROVE NodeInv
  OBVIOUS
<1>1. KeyMade
  <2>1. 0 \in Nat /\ 0 \in Int /\ -1 \in Int
    BY SMT
  <2>2. << >> \in Seq(DeployState)
    BY SMT
  <2> QED  BY <2>1, <2>2 DEF NodeInit, KeyMade
<1>2. OverlayKept /\ BookKept
  BY DEF NodeInit, OverlayKept, BookKept
<1>3. ClosedInOrder
  BY SMT DEF NodeInit, ClosedInOrder
<1> QED  BY <1>1, <1>2, <1>3 DEF NodeInv

\* The keys, from the file or made.
LEMMA KeyMadeKept ==
  ASSUME NodeInv, NodeNext PROVE KeyMade'
<1>1. ASSUME NEW i \in DOMAIN deploys, Mine(i) PROVE KeyMade'
  <2>1. PICK r \in {"mined", "failed"} : deploys' = [deploys EXCEPT ![i] = r]
    BY <1>1 DEF Mine
  <2>2. deploys' \in Seq(DeployState)
    <3>1. deploys \in Seq(DeployState) /\ r \in DeployState
      BY <2>1 DEF NodeInv, KeyMade, DeployState
    <3> QED  BY <2>1, <3>1, SMT
  <2> QED  BY <1>1, <2>2 DEF NodeInv, KeyMade, Mine, disk, locals, parts
<1>2. CASE Reorganise
  BY <1>2 DEF NodeInv, KeyMade, disk, locals, parts, Reorganise
<1>3. CASE Fund
  BY <1>3 DEF NodeInv, KeyMade, disk, locals, parts, Fund
<1>4. CASE StartFails
  <2>1. 0 \in Int
    BY SMT
  <2> QED  BY <1>4, <2>1 DEF NodeInv, KeyMade, disk, nodeChain, None, Exit, StartFails
<1>5. CASE ProcessCrash
  <2>1. 0 \in Int
    BY SMT
  <2> QED  BY <1>5, <2>1 DEF NodeInv, KeyMade, disk, nodeChain, None, Exit, ProcessCrash
<1>6. CASE Start
  BY <1>6, SMT DEF NodeInv, KeyMade, disk, nodeChain, parts, At, Start
<1>7. CASE ReadKey
  BY <1>7, SMT DEF NodeInv, KeyMade, disk, nodeChain, parts, At, ReadKey
<1>8. CASE GenerateKey
  BY <1>8, SMT DEF NodeInv, KeyMade, nodeChain, parts, At, GenerateKey
<1>9. CASE WriteKey
  BY <1>9 DEF NodeInv, KeyMade, nodeChain, locals, parts, At, WriteKey
<1>10. CASE InitStateStore
  BY <1>10 DEF NodeInv, KeyMade, disk, nodeChain, locals, At, Opens, Other, InitStateStore
<1>11. CASE InitChain
  BY <1>11 DEF NodeInv, KeyMade, disk, nodeChain, locals, On, At, Opens, Other, InitChain
<1>12. CASE OpenDebugAPI
  BY <1>12 DEF NodeInv, KeyMade, disk, nodeChain, locals, On, Opens, Other, OpenDebugAPI
<1>13. CASE WaitSynced
  BY <1>13 DEF NodeInv, KeyMade, disk, nodeChain, locals, parts, On, Other, WaitSynced
<1>14. CASE InitChequebookFactory
  BY <1>14 DEF NodeInv, KeyMade, disk, nodeChain, locals, parts, At, Other, InitChequebookFactory
<1>15. CASE LookUpChequebook
  BY <1>15 DEF NodeInv, KeyMade, disk, nodeChain, locals, parts, On, Other, LookUpChequebook
<1>16. CASE CheckBalance
  BY <1>16 DEF NodeInv, KeyMade, disk, nodeChain, locals, parts, At, Other, CheckBalance
<1>17. CASE Deploy
  <2>1. deploys' \in Seq(DeployState)
    BY <1>17, Appended DEF NodeInv, KeyMade, Deploy, DeployState
  <2> QED  BY <1>17, <2>1 DEF NodeInv, KeyMade, disk, parts, At, Deploy
<1>18. CASE SaveDeployment
  BY <1>18 DEF NodeInv, KeyMade, nodeChain, locals, parts, At, SaveDeployment
<1>19. CASE WaitDeployed
  BY <1>19 DEF NodeInv, KeyMade, disk, nodeChain, locals, parts, At, Other, WaitDeployed
<1>20. CASE SaveChequebook
  BY <1>20 DEF NodeInv, KeyMade, nodeChain, locals, parts, On, SaveChequebook
<1>21. CASE InitialDeposit
  BY <1>21 DEF NodeInv, KeyMade, disk, locals, parts, At, InitialDeposit
<1>22. CASE VerifyChequebook
  BY <1>22 DEF NodeInv, KeyMade, disk, nodeChain, locals, parts, At, Other, VerifyChequebook
<1>23. CASE GetTxHash
  BY <1>23 DEF NodeInv, KeyMade, disk, nodeChain, parts, At, GetTxHash
<1>24. CASE GetTxNextBlock
  BY <1>24 DEF NodeInv, KeyMade, disk, nodeChain, parts, On, At, NewOverlayAddress, GetTxNextBlock
<1>25. CASE CheckOverlayWithStore
  BY <1>25 DEF NodeInv, KeyMade, nodeChain, locals, parts, None, At, CheckOverlayWithStore
<1>26. CASE StartP2P
  BY <1>26 DEF NodeInv, KeyMade, disk, nodeChain, locals, At, Opens, StartP2P
<1>27. CASE OpenStores
  BY <1>27 DEF NodeInv, KeyMade, disk, nodeChain, locals, On, Opens, Other, OpenStores
<1>28. CASE ChainServices
  BY <1>28 DEF NodeInv, KeyMade, disk, nodeChain, locals, On, Opens, Other, ChainServices
<1>29. CASE MineServices
  BY <1>29 DEF NodeInv, KeyMade, disk, nodeChain, locals, At, Opens, Other, MineServices
<1>30. CASE Protocols
  BY <1>30 DEF NodeInv, KeyMade, disk, nodeChain, locals, parts, At, Other, Protocols
<1>31. CASE Topology
  BY <1>31 DEF NodeInv, KeyMade, disk, nodeChain, locals, On, Opens, Other, Topology
<1>32. CASE StartWorker
  BY <1>32 DEF NodeInv, KeyMade, disk, nodeChain, locals, At, Other, StartWorker
<1>33. CASE Synced
  BY <1>33 DEF NodeInv, KeyMade, disk, nodeChain, locals, parts, At, Other, Synced
<1>34. CASE Accounting
  BY <1>34 DEF NodeInv, KeyMade, disk, nodeChain, locals, On, Opens, Other, Accounting
<1>35. CASE InitSwap
  BY <1>35 DEF NodeInv, KeyMade, disk, nodeChain, locals, At, Opens, Other, InitSwap
<1>36. CASE Services
  BY <1>36 DEF NodeInv, KeyMade, disk, nodeChain, locals, On, At, Opens, Other, Services
<1>37. CASE StartAPI
  BY <1>37 DEF NodeInv, KeyMade, disk, nodeChain, locals, At, Opens, Other, StartAPI
<1>38. CASE Ready
  BY <1>38 DEF NodeInv, KeyMade, disk, nodeChain, locals, parts, At, Other, Ready
<1>39. CASE Signal
  BY <1>39 DEF NodeInv, KeyMade, disk, nodeChain, locals, parts, At, Other, Shutdown, Signal
<1>40. CASE EventFails
  BY <1>40 DEF NodeInv, KeyMade, disk, nodeChain, locals, Other, Shutdown, EventFails
<1>41. CASE CloseStage
  BY <1>41 DEF NodeInv, KeyMade, disk, nodeChain, locals, Other, CloseStage
<1>42. CASE Kill
  <2>1. 0 \in Int
    BY SMT
  <2> QED  BY <1>42, <2>1 DEF NodeInv, KeyMade, disk, nodeChain, None, Exit, Kill
<1>43. CASE Stopped
  <2>1. 0 \in Int
    BY SMT
  <2> QED  BY <1>43, <2>1 DEF NodeInv, KeyMade, disk, nodeChain, None, Exit, Stopped
<1>44. CASE SecondSignal
  <2>1. 0 \in Int
    BY SMT
  <2> QED  BY <1>44, <2>1 DEF NodeInv, KeyMade, disk, nodeChain, None, Exit, SecondSignal
<1> QED  BY <1>1, <1>2, <1>3, <1>4, <1>5, <1>6, <1>7, <1>8, <1>9, <1>10, <1>11, <1>12, <1>13,
      <1>14, <1>15, <1>16, <1>17, <1>18, <1>19, <1>20, <1>21, <1>22, <1>23, <1>24, <1>25, <1>26,
      <1>27, <1>28, <1>29, <1>30, <1>31, <1>32, <1>33, <1>34, <1>35, <1>36, <1>37, <1>38, <1>39,
      <1>40, <1>41, <1>42, <1>43, <1>44 DEF NodeNext

\* The overlay in the store.
LEMMA OverlayStays ==
  ASSUME NodeInv, NodeNext PROVE OverlayKept'
<1>1. ASSUME NEW i \in DOMAIN deploys, Mine(i) PROVE OverlayKept'
  BY <1>1 DEF NodeInv, KeyMade, OverlayKept, Mine, disk, locals, parts
<1>2. CASE Reorganise
  BY <1>2 DEF NodeInv, KeyMade, OverlayKept, disk, locals, parts, Reorganise
<1>3. CASE Fund
  BY <1>3 DEF NodeInv, KeyMade, OverlayKept, disk, locals, parts, Fund
<1>4. CASE StartFails
  BY <1>4 DEF NodeInv, KeyMade, OverlayKept, disk, nodeChain, None, Exit, StartFails
<1>5. CASE ProcessCrash
  BY <1>5 DEF NodeInv, KeyMade, OverlayKept, disk, nodeChain, None, Exit, ProcessCrash
<1>6. CASE Start
  BY <1>6 DEF NodeInv, KeyMade, OverlayKept, disk, nodeChain, parts, At, Start
<1>7. CASE ReadKey
  BY <1>7 DEF NodeInv, KeyMade, OverlayKept, disk, nodeChain, parts, At, ReadKey
<1>8. CASE GenerateKey
  BY <1>8 DEF NodeInv, KeyMade, OverlayKept, nodeChain, parts, At, GenerateKey
<1>9. CASE WriteKey
  BY <1>9 DEF NodeInv, KeyMade, OverlayKept, nodeChain, locals, parts, At, WriteKey
<1>10. CASE InitStateStore
  BY <1>10 DEF NodeInv, KeyMade, OverlayKept, disk, nodeChain, locals, At, Opens, Other,
      InitStateStore
<1>11. CASE InitChain
  BY <1>11 DEF NodeInv, KeyMade, OverlayKept, disk, nodeChain, locals, On, At, Opens, Other,
      InitChain
<1>12. CASE OpenDebugAPI
  BY <1>12 DEF NodeInv, KeyMade, OverlayKept, disk, nodeChain, locals, On, Opens, Other, OpenDebugAPI
<1>13. CASE WaitSynced
  BY <1>13 DEF NodeInv, KeyMade, OverlayKept, disk, nodeChain, locals, parts, On, Other, WaitSynced
<1>14. CASE InitChequebookFactory
  BY <1>14 DEF NodeInv, KeyMade, OverlayKept, disk, nodeChain, locals, parts, At, Other,
      InitChequebookFactory
<1>15. CASE LookUpChequebook
  BY <1>15 DEF NodeInv, KeyMade, OverlayKept, disk, nodeChain, locals, parts, On, Other,
      LookUpChequebook
<1>16. CASE CheckBalance
  BY <1>16 DEF NodeInv, KeyMade, OverlayKept, disk, nodeChain, locals, parts, At, Other, CheckBalance
<1>17. CASE Deploy
  BY <1>17 DEF NodeInv, KeyMade, OverlayKept, disk, parts, At, Deploy
<1>18. CASE SaveDeployment
  BY <1>18 DEF NodeInv, KeyMade, OverlayKept, nodeChain, locals, parts, At, SaveDeployment
<1>19. CASE WaitDeployed
  BY <1>19 DEF NodeInv, KeyMade, OverlayKept, disk, nodeChain, locals, parts, At, Other, WaitDeployed
<1>20. CASE SaveChequebook
  BY <1>20 DEF NodeInv, KeyMade, OverlayKept, nodeChain, locals, parts, On, SaveChequebook
<1>21. CASE InitialDeposit
  BY <1>21 DEF NodeInv, KeyMade, OverlayKept, disk, locals, parts, At, InitialDeposit
<1>22. CASE VerifyChequebook
  BY <1>22 DEF NodeInv, KeyMade, OverlayKept, disk, nodeChain, locals, parts, At, Other,
      VerifyChequebook
<1>23. CASE GetTxHash
  BY <1>23 DEF NodeInv, KeyMade, OverlayKept, disk, nodeChain, parts, At, GetTxHash
<1>24. CASE GetTxNextBlock
  <2>1. key > 0 /\ key \in Int
    BY <1>24 DEF NodeInv, KeyMade, GetTxNextBlock, At
  <2>2. \A b, c : <<key, b, c>> # None
    BY <2>1, SMT DEF None
  <2>3. overlay' # None
    BY <1>24, <2>2 DEF GetTxNextBlock, NewOverlayAddress
  <2> QED  BY <1>24, <2>3 DEF NodeInv, OverlayKept, GetTxNextBlock, At, disk, None
<1>25. CASE CheckOverlayWithStore
  BY <1>25 DEF NodeInv, KeyMade, OverlayKept, nodeChain, locals, parts, None, At,
      CheckOverlayWithStore
<1>26. CASE StartP2P
  BY <1>26 DEF NodeInv, KeyMade, OverlayKept, disk, nodeChain, locals, At, Opens, StartP2P
<1>27. CASE OpenStores
  BY <1>27 DEF NodeInv, KeyMade, OverlayKept, disk, nodeChain, locals, On, Opens, Other, OpenStores
<1>28. CASE ChainServices
  BY <1>28 DEF NodeInv, KeyMade, OverlayKept, disk, nodeChain, locals, On, Opens, Other,
      ChainServices
<1>29. CASE MineServices
  BY <1>29 DEF NodeInv, KeyMade, OverlayKept, disk, nodeChain, locals, At, Opens, Other, MineServices
<1>30. CASE Protocols
  BY <1>30 DEF NodeInv, KeyMade, OverlayKept, disk, nodeChain, locals, parts, At, Other, Protocols
<1>31. CASE Topology
  BY <1>31 DEF NodeInv, KeyMade, OverlayKept, disk, nodeChain, locals, On, Opens, Other, Topology
<1>32. CASE StartWorker
  BY <1>32 DEF NodeInv, KeyMade, OverlayKept, disk, nodeChain, locals, At, Other, StartWorker
<1>33. CASE Synced
  BY <1>33 DEF NodeInv, KeyMade, OverlayKept, disk, nodeChain, locals, parts, At, Other, Synced
<1>34. CASE Accounting
  BY <1>34 DEF NodeInv, KeyMade, OverlayKept, disk, nodeChain, locals, On, Opens, Other, Accounting
<1>35. CASE InitSwap
  BY <1>35 DEF NodeInv, KeyMade, OverlayKept, disk, nodeChain, locals, At, Opens, Other, InitSwap
<1>36. CASE Services
  BY <1>36 DEF NodeInv, KeyMade, OverlayKept, disk, nodeChain, locals, On, At, Opens, Other, Services
<1>37. CASE StartAPI
  BY <1>37 DEF NodeInv, KeyMade, OverlayKept, disk, nodeChain, locals, At, Opens, Other, StartAPI
<1>38. CASE Ready
  BY <1>38 DEF NodeInv, KeyMade, OverlayKept, disk, nodeChain, locals, parts, At, Other, Ready
<1>39. CASE Signal
  BY <1>39 DEF NodeInv, KeyMade, OverlayKept, disk, nodeChain, locals, parts, At, Other, Shutdown,
      Signal
<1>40. CASE EventFails
  BY <1>40 DEF NodeInv, KeyMade, OverlayKept, disk, nodeChain, locals, Other, Shutdown, EventFails
<1>41. CASE CloseStage
  BY <1>41 DEF NodeInv, KeyMade, OverlayKept, disk, nodeChain, locals, Other, CloseStage
<1>42. CASE Kill
  BY <1>42 DEF NodeInv, KeyMade, OverlayKept, disk, nodeChain, None, Exit, Kill
<1>43. CASE Stopped
  BY <1>43 DEF NodeInv, KeyMade, OverlayKept, disk, nodeChain, None, Exit, Stopped
<1>44. CASE SecondSignal
  BY <1>44 DEF NodeInv, KeyMade, OverlayKept, disk, nodeChain, None, Exit, SecondSignal
<1> QED  BY <1>1, <1>2, <1>3, <1>4, <1>5, <1>6, <1>7, <1>8, <1>9, <1>10, <1>11, <1>12, <1>13,
      <1>14, <1>15, <1>16, <1>17, <1>18, <1>19, <1>20, <1>21, <1>22, <1>23, <1>24, <1>25, <1>26,
      <1>27, <1>28, <1>29, <1>30, <1>31, <1>32, <1>33, <1>34, <1>35, <1>36, <1>37, <1>38, <1>39,
      <1>40, <1>41, <1>42, <1>43, <1>44 DEF NodeNext

\* The chequebook in the store and the deposits to it.
LEMMA BookStays ==
  ASSUME NodeInv, NodeNext PROVE BookKept'
<1>1. ASSUME NEW i \in DOMAIN deploys, Mine(i) PROVE BookKept'
  BY <1>1 DEF NodeInv, KeyMade, BookKept, Mine, disk, locals, parts
<1>2. CASE Reorganise
  BY <1>2 DEF NodeInv, KeyMade, BookKept, disk, locals, parts, Reorganise
<1>3. CASE Fund
  BY <1>3 DEF NodeInv, KeyMade, BookKept, disk, locals, parts, Fund
<1>4. CASE StartFails
  BY <1>4 DEF NodeInv, KeyMade, BookKept, disk, nodeChain, None, Exit, StartFails
<1>5. CASE ProcessCrash
  BY <1>5 DEF NodeInv, KeyMade, BookKept, disk, nodeChain, None, Exit, ProcessCrash
<1>6. CASE Start
  BY <1>6 DEF NodeInv, KeyMade, BookKept, disk, nodeChain, parts, At, Start
<1>7. CASE ReadKey
  BY <1>7 DEF NodeInv, KeyMade, BookKept, disk, nodeChain, parts, At, ReadKey
<1>8. CASE GenerateKey
  BY <1>8 DEF NodeInv, KeyMade, BookKept, nodeChain, parts, At, GenerateKey
<1>9. CASE WriteKey
  BY <1>9 DEF NodeInv, KeyMade, BookKept, nodeChain, locals, parts, At, WriteKey
<1>10. CASE InitStateStore
  BY <1>10 DEF NodeInv, KeyMade, BookKept, disk, nodeChain, locals, At, Opens, Other, InitStateStore
<1>11. CASE InitChain
  BY <1>11 DEF NodeInv, KeyMade, BookKept, disk, nodeChain, locals, On, At, Opens, Other, InitChain
<1>12. CASE OpenDebugAPI
  BY <1>12 DEF NodeInv, KeyMade, BookKept, disk, nodeChain, locals, On, Opens, Other, OpenDebugAPI
<1>13. CASE WaitSynced
  BY <1>13 DEF NodeInv, KeyMade, BookKept, disk, nodeChain, locals, parts, On, Other, WaitSynced
<1>14. CASE InitChequebookFactory
  BY <1>14 DEF NodeInv, KeyMade, BookKept, disk, nodeChain, locals, parts, At, Other,
      InitChequebookFactory
<1>15. CASE LookUpChequebook
  BY <1>15 DEF NodeInv, KeyMade, BookKept, disk, nodeChain, locals, parts, On, Other,
      LookUpChequebook
<1>16. CASE CheckBalance
  BY <1>16 DEF NodeInv, KeyMade, BookKept, disk, nodeChain, locals, parts, At, Other, CheckBalance
<1>17. CASE Deploy
  <2>1. Len(Append(deploys, "pending")) # 0
    <3>1. deploys \in Seq(DeployState) /\ "pending" \in DeployState
      BY DEF NodeInv, KeyMade, DeployState
    <3>2. Len(deploys) \in Nat /\ Len(Append(deploys, "pending")) = Len(deploys) + 1
      BY <3>1, Appended
    <3> QED  BY <3>2, SMT
  <2>2. tx' # 0
    BY <1>17, <2>1 DEF Deploy
  <2> QED  BY <1>17, <2>2 DEF NodeInv, BookKept, Deploy, At, disk, parts
<1>18. CASE SaveDeployment
  BY <1>18 DEF NodeInv, KeyMade, BookKept, nodeChain, locals, parts, At, SaveDeployment
<1>19. CASE WaitDeployed
  BY <1>19 DEF NodeInv, KeyMade, BookKept, disk, nodeChain, locals, parts, At, Other, WaitDeployed
<1>20. CASE SaveChequebook
  BY <1>20 DEF NodeInv, KeyMade, BookKept, nodeChain, locals, parts, On, SaveChequebook
<1>21. CASE InitialDeposit
  BY <1>21 DEF NodeInv, KeyMade, BookKept, disk, locals, parts, At, InitialDeposit
<1>22. CASE VerifyChequebook
  BY <1>22 DEF NodeInv, KeyMade, BookKept, disk, nodeChain, locals, parts, At, Other,
      VerifyChequebook
<1>23. CASE GetTxHash
  BY <1>23 DEF NodeInv, KeyMade, BookKept, disk, nodeChain, parts, At, GetTxHash
<1>24. CASE GetTxNextBlock
  BY <1>24 DEF NodeInv, KeyMade, BookKept, disk, nodeChain, parts, On, At, NewOverlayAddress,
      GetTxNextBlock
<1>25. CASE CheckOverlayWithStore
  BY <1>25 DEF NodeInv, KeyMade, BookKept, nodeChain, locals, parts, None, At, CheckOverlayWithStore
<1>26. CASE StartP2P
  BY <1>26 DEF NodeInv, KeyMade, BookKept, disk, nodeChain, locals, At, Opens, StartP2P
<1>27. CASE OpenStores
  BY <1>27 DEF NodeInv, KeyMade, BookKept, disk, nodeChain, locals, On, Opens, Other, OpenStores
<1>28. CASE ChainServices
  BY <1>28 DEF NodeInv, KeyMade, BookKept, disk, nodeChain, locals, On, Opens, Other, ChainServices
<1>29. CASE MineServices
  BY <1>29 DEF NodeInv, KeyMade, BookKept, disk, nodeChain, locals, At, Opens, Other, MineServices
<1>30. CASE Protocols
  BY <1>30 DEF NodeInv, KeyMade, BookKept, disk, nodeChain, locals, parts, At, Other, Protocols
<1>31. CASE Topology
  BY <1>31 DEF NodeInv, KeyMade, BookKept, disk, nodeChain, locals, On, Opens, Other, Topology
<1>32. CASE StartWorker
  BY <1>32 DEF NodeInv, KeyMade, BookKept, disk, nodeChain, locals, At, Other, StartWorker
<1>33. CASE Synced
  BY <1>33 DEF NodeInv, KeyMade, BookKept, disk, nodeChain, locals, parts, At, Other, Synced
<1>34. CASE Accounting
  BY <1>34 DEF NodeInv, KeyMade, BookKept, disk, nodeChain, locals, On, Opens, Other, Accounting
<1>35. CASE InitSwap
  BY <1>35 DEF NodeInv, KeyMade, BookKept, disk, nodeChain, locals, At, Opens, Other, InitSwap
<1>36. CASE Services
  BY <1>36 DEF NodeInv, KeyMade, BookKept, disk, nodeChain, locals, On, At, Opens, Other, Services
<1>37. CASE StartAPI
  BY <1>37 DEF NodeInv, KeyMade, BookKept, disk, nodeChain, locals, At, Opens, Other, StartAPI
<1>38. CASE Ready
  BY <1>38 DEF NodeInv, KeyMade, BookKept, disk, nodeChain, locals, parts, At, Other, Ready
<1>39. CASE Signal
  BY <1>39 DEF NodeInv, KeyMade, BookKept, disk, nodeChain, locals, parts, At, Other, Shutdown,
      Signal
<1>40. CASE EventFails
  BY <1>40 DEF NodeInv, KeyMade, BookKept, disk, nodeChain, locals, Other, Shutdown, EventFails
<1>41. CASE CloseStage
  BY <1>41 DEF NodeInv, KeyMade, BookKept, disk, nodeChain, locals, Other, CloseStage
<1>42. CASE Kill
  BY <1>42 DEF NodeInv, KeyMade, BookKept, disk, nodeChain, None, Exit, Kill
<1>43. CASE Stopped
  BY <1>43 DEF NodeInv, KeyMade, BookKept, disk, nodeChain, None, Exit, Stopped
<1>44. CASE SecondSignal
  BY <1>44 DEF NodeInv, KeyMade, BookKept, disk, nodeChain, None, Exit, SecondSignal
<1> QED  BY <1>1, <1>2, <1>3, <1>4, <1>5, <1>6, <1>7, <1>8, <1>9, <1>10, <1>11, <1>12, <1>13,
      <1>14, <1>15, <1>16, <1>17, <1>18, <1>19, <1>20, <1>21, <1>22, <1>23, <1>24, <1>25, <1>26,
      <1>27, <1>28, <1>29, <1>30, <1>31, <1>32, <1>33, <1>34, <1>35, <1>36, <1>37, <1>38, <1>39,
      <1>40, <1>41, <1>42, <1>43, <1>44 DEF NodeNext

\* The stages of Shutdown.
LEMMA ClosedStays ==
  ASSUME NodeInv, NodeNext PROVE ClosedInOrder'
<1>1. ASSUME NEW i \in DOMAIN deploys, Mine(i) PROVE ClosedInOrder'
  BY <1>1 DEF NodeInv, ClosedInOrder, Passed, Mine, disk, locals, parts
<1>2. CASE Reorganise
  BY <1>2 DEF NodeInv, ClosedInOrder, Passed, disk, locals, parts, Reorganise
<1>3. CASE Fund
  BY <1>3 DEF NodeInv, ClosedInOrder, Passed, disk, locals, parts, Fund
<1>4. CASE StartFails
  BY <1>4 DEF NodeInv, ClosedInOrder, Passed, disk, nodeChain, None, Exit, StartFails
<1>5. CASE ProcessCrash
  BY <1>5 DEF NodeInv, ClosedInOrder, Passed, disk, nodeChain, None, Exit, ProcessCrash
<1>6. CASE Start
  BY <1>6 DEF NodeInv, ClosedInOrder, Passed, disk, nodeChain, parts, At, Start
<1>7. CASE ReadKey
  BY <1>7 DEF NodeInv, ClosedInOrder, Passed, disk, nodeChain, parts, At, ReadKey
<1>8. CASE GenerateKey
  BY <1>8 DEF NodeInv, ClosedInOrder, Passed, nodeChain, parts, At, GenerateKey
<1>9. CASE WriteKey
  BY <1>9 DEF NodeInv, ClosedInOrder, Passed, nodeChain, locals, parts, At, WriteKey
<1>10. CASE InitStateStore
  BY <1>10 DEF NodeInv, ClosedInOrder, Passed, disk, nodeChain, locals, At, Opens, Other,
      InitStateStore
<1>11. CASE InitChain
  BY <1>11 DEF NodeInv, ClosedInOrder, Passed, disk, nodeChain, locals, On, At, Opens, Other,
      InitChain
<1>12. CASE OpenDebugAPI
  BY <1>12 DEF NodeInv, ClosedInOrder, Passed, disk, nodeChain, locals, On, Opens, Other,
      OpenDebugAPI
<1>13. CASE WaitSynced
  BY <1>13 DEF NodeInv, ClosedInOrder, Passed, disk, nodeChain, locals, parts, On, Other, WaitSynced
<1>14. CASE InitChequebookFactory
  BY <1>14 DEF NodeInv, ClosedInOrder, Passed, disk, nodeChain, locals, parts, At, Other,
      InitChequebookFactory
<1>15. CASE LookUpChequebook
  BY <1>15 DEF NodeInv, ClosedInOrder, Passed, disk, nodeChain, locals, parts, On, Other,
      LookUpChequebook
<1>16. CASE CheckBalance
  BY <1>16 DEF NodeInv, ClosedInOrder, Passed, disk, nodeChain, locals, parts, At, Other,
      CheckBalance
<1>17. CASE Deploy
  BY <1>17 DEF NodeInv, ClosedInOrder, Passed, disk, parts, At, Deploy
<1>18. CASE SaveDeployment
  BY <1>18 DEF NodeInv, ClosedInOrder, Passed, nodeChain, locals, parts, At, SaveDeployment
<1>19. CASE WaitDeployed
  BY <1>19 DEF NodeInv, ClosedInOrder, Passed, disk, nodeChain, locals, parts, At, Other,
      WaitDeployed
<1>20. CASE SaveChequebook
  BY <1>20 DEF NodeInv, ClosedInOrder, Passed, nodeChain, locals, parts, On, SaveChequebook
<1>21. CASE InitialDeposit
  BY <1>21 DEF NodeInv, ClosedInOrder, Passed, disk, locals, parts, At, InitialDeposit
<1>22. CASE VerifyChequebook
  BY <1>22 DEF NodeInv, ClosedInOrder, Passed, disk, nodeChain, locals, parts, At, Other,
      VerifyChequebook
<1>23. CASE GetTxHash
  BY <1>23 DEF NodeInv, ClosedInOrder, Passed, disk, nodeChain, parts, At, GetTxHash
<1>24. CASE GetTxNextBlock
  BY <1>24 DEF NodeInv, ClosedInOrder, Passed, disk, nodeChain, parts, On, At, NewOverlayAddress,
      GetTxNextBlock
<1>25. CASE CheckOverlayWithStore
  BY <1>25 DEF NodeInv, ClosedInOrder, Passed, nodeChain, locals, parts, None, At,
      CheckOverlayWithStore
<1>26. CASE StartP2P
  BY <1>26 DEF NodeInv, ClosedInOrder, Passed, disk, nodeChain, locals, At, Opens, StartP2P
<1>27. CASE OpenStores
  BY <1>27 DEF NodeInv, ClosedInOrder, Passed, disk, nodeChain, locals, On, Opens, Other, OpenStores
<1>28. CASE ChainServices
  BY <1>28 DEF NodeInv, ClosedInOrder, Passed, disk, nodeChain, locals, On, Opens, Other,
      ChainServices
<1>29. CASE MineServices
  BY <1>29 DEF NodeInv, ClosedInOrder, Passed, disk, nodeChain, locals, At, Opens, Other,
      MineServices
<1>30. CASE Protocols
  BY <1>30 DEF NodeInv, ClosedInOrder, Passed, disk, nodeChain, locals, parts, At, Other, Protocols
<1>31. CASE Topology
  BY <1>31 DEF NodeInv, ClosedInOrder, Passed, disk, nodeChain, locals, On, Opens, Other, Topology
<1>32. CASE StartWorker
  BY <1>32 DEF NodeInv, ClosedInOrder, Passed, disk, nodeChain, locals, At, Other, StartWorker
<1>33. CASE Synced
  BY <1>33 DEF NodeInv, ClosedInOrder, Passed, disk, nodeChain, locals, parts, At, Other, Synced
<1>34. CASE Accounting
  BY <1>34 DEF NodeInv, ClosedInOrder, Passed, disk, nodeChain, locals, On, Opens, Other, Accounting
<1>35. CASE InitSwap
  BY <1>35 DEF NodeInv, ClosedInOrder, Passed, disk, nodeChain, locals, At, Opens, Other, InitSwap
<1>36. CASE Services
  BY <1>36 DEF NodeInv, ClosedInOrder, Passed, disk, nodeChain, locals, On, At, Opens, Other,
      Services
<1>37. CASE StartAPI
  BY <1>37 DEF NodeInv, ClosedInOrder, Passed, disk, nodeChain, locals, At, Opens, Other, StartAPI
<1>38. CASE Ready
  BY <1>38 DEF NodeInv, ClosedInOrder, Passed, disk, nodeChain, locals, parts, At, Other, Ready
<1>39. CASE Signal
  <2>1. CASE stage = 0
    <3>1. closed = {} /\ stage' = 1 /\ closed' = closed /\ opened' = opened /\ pc' = "stopping"
      BY <1>39, <2>1 DEF NodeInv, ClosedInOrder, Signal, Shutdown, At
    <3>2. stage' \in Nat /\ stage' # 0 /\ stage' > 0 /\ \A k \in 1..Len(Order) : ~(k < stage')
      <4>1. \A k \in 1..Len(Order) : k \in Int /\ k >= 1
        BY SMT
      <4> QED  BY <3>1, <4>1, SMT
    <3> QED  BY <3>1, <3>2 DEF ClosedInOrder, Passed
  <2>2. CASE stage # 0
    BY <1>39, <2>2 DEF NodeInv, ClosedInOrder, Passed, Signal, At, parts
  <2> QED  BY <2>1, <2>2
<1>40. CASE EventFails
  <2>1. CASE stage = 0
    <3>1. closed = {} /\ stage' = 1 /\ closed' = closed /\ by' = "syncer"
      BY <1>40, <2>1 DEF NodeInv, ClosedInOrder, EventFails, Shutdown
    <3>2. stage' \in Nat
      BY <3>1, SMT
    <3> QED  BY <3>1, <3>2, SMT DEF ClosedInOrder
  <2>2. CASE stage # 0
    <3>1. UNCHANGED <<opened, closed, stage, by, pc>>
      BY <1>40, <2>2 DEF EventFails
    <3> QED  BY <3>1 DEF NodeInv, ClosedInOrder, Passed
  <2> QED  BY <2>1, <2>2
<1>41. CASE CloseStage
  <2>1. stage \in Nat /\ stage \in 1..Len(Order) /\ stage' = stage + 1
    BY <1>41 DEF NodeInv, ClosedInOrder, CloseStage
  <2>2. stage' \in Nat /\ stage' # 0 /\ stage' > 0
    BY <2>1, SMT
  <2>3. ASSUME by' = "main" PROVE pc' = "stopping" /\ closed' = {x \in opened' : Passed(x)'}
    <3>1. /\ by = "main" /\ pc' = pc /\ opened' = opened
          /\ closed' = closed \union (Order[stage] \intersect opened)
      BY <1>41, <2>3 DEF CloseStage
    <3>2. pc = "stopping" /\ closed = {x \in opened : Passed(x)}
      BY <3>1 DEF NodeInv, ClosedInOrder
    <3>3. \A k \in 1..Len(Order) : k < stage' <=> k < stage \/ k = stage
      <4>1. \A k \in 1..Len(Order) : k \in Int
        BY SMT
      <4> QED  BY <2>1, <4>1, SMT
    <3>4. \A x : Passed(x)' <=> Passed(x) \/ x \in Order[stage]
      BY <2>1, <3>3 DEF Passed, Order
    <3> QED  BY <3>1, <3>2, <3>4
  <2> QED  BY <2>2, <2>3 DEF ClosedInOrder
<1>42. CASE Kill
  BY <1>42 DEF NodeInv, ClosedInOrder, Passed, disk, nodeChain, None, Exit, Kill
<1>43. CASE Stopped
  BY <1>43 DEF NodeInv, ClosedInOrder, Passed, disk, nodeChain, None, Exit, Stopped
<1>44. CASE SecondSignal
  BY <1>44 DEF NodeInv, ClosedInOrder, Passed, disk, nodeChain, None, Exit, SecondSignal
<1> QED  BY <1>1, <1>2, <1>3, <1>4, <1>5, <1>6, <1>7, <1>8, <1>9, <1>10, <1>11, <1>12, <1>13,
      <1>14, <1>15, <1>16, <1>17, <1>18, <1>19, <1>20, <1>21, <1>22, <1>23, <1>24, <1>25, <1>26,
      <1>27, <1>28, <1>29, <1>30, <1>31, <1>32, <1>33, <1>34, <1>35, <1>36, <1>37, <1>38, <1>39,
      <1>40, <1>41, <1>42, <1>43, <1>44 DEF NodeNext

\* What every state of the process satisfies.
THEOREM NodeKeepsInv == NodeSpec => []NodeInv
<1>1. NodeInv /\ [NodeNext]_nodeVars => NodeInv'
  <2> SUFFICES ASSUME NodeInv, [NodeNext]_nodeVars PROVE NodeInv'
    OBVIOUS
  <2>1. CASE NodeNext
    BY <2>1, KeyMadeKept, OverlayStays, BookStays, ClosedStays DEF NodeInv
  <2>2. CASE UNCHANGED nodeVars
    BY <2>2 DEF NodeInv, KeyMade, OverlayKept, BookKept, ClosedInOrder, Passed, nodeVars, disk,
      nodeChain, locals, parts
  <2> QED  BY <2>1, <2>2
<1> QED  BY <1>1, NodeStart, PTL DEF NodeSpec

\* NewAnt and InitChequebook: whatever options the node is started with, wherever it
\* crashes and however the chain is reorganised, libp2p runs under one overlay for the
\* life of the store, and only the chequebook in the store gets an initial deposit.
THEOREM NodeKeepsIdentity == NodeSpec => []OneIdentity
<1>1. NodeInv => OneIdentity
  <2> SUFFICES ASSUME NodeInv PROVE OneIdentity
    OBVIOUS
  <2>1. announced = {} \/ announced = {savedOverlay}
    BY DEF NodeInv, OverlayKept
  <2> QED  BY <2>1 DEF NodeInv, BookKept, OneIdentity
<1> QED  BY <1>1, NodeKeepsInv, PTL

\* The stages in which the stores and the parts that write to them are closed.
LEMMA PlaceInOrder ==
  /\ Len(Order) = 12
  /\ \A k \in 1..12 : "statestore" \in Order[k] => k = 10
  /\ \A k \in 1..12 : "localstore" \in Order[k] => k = 11
  /\ "api" \in Order[1]
  /\ {"pusher", "puller", "accounting", "mine", "pullsync"} \subseteq Order[3]
  /\ "p2p" \in Order[4] /\ "syncer" \in Order[6] /\ "postage" \in Order[6]
  /\ "tags" \in Order[8] /\ "topology" \in Order[9]
  BY SMT DEF Order

\* Shutdown: when main shuts the node down, a part that writes to a store has been
\* closed when the store is, whichever parts were opened.
THEOREM StoresOutliveWriters == NodeSpec => []StoresCloseLast
<1>1. NodeInv => StoresCloseLast
  <2> SUFFICES ASSUME NodeInv, by = "main", NEW s \in DOMAIN Writers, s \in closed,
                      NEW w \in Writers[s], w \in opened
               PROVE  w \in closed
    BY DEF StoresCloseLast
  <2>1. stage \in Nat /\ closed = {x \in opened : Passed(x)}
    BY DEF NodeInv, ClosedInOrder
  <2>2. s \in {"statestore", "localstore"}
    BY DEF Writers
  <2>3. PICK k \in 1..12 : k < stage /\ s \in Order[k]
    BY <2>1, PlaceInOrder DEF Passed
  <2>4. ASSUME NEW j \in 1..12, j < k, w \in Order[j] PROVE w \in closed
    <3>1. j < stage
      BY <2>1, <2>3, <2>4, SMT
    <3> QED  BY <2>1, <2>4, <3>1, PlaceInOrder DEF Passed
  <2>5. CASE s = "statestore"
    <3>1. k = 10
      BY <2>3, <2>5, PlaceInOrder
    <3>2. w \in {"puller", "accounting", "mine", "p2p", "syncer", "postage", "tags", "topology"}
      BY <2>5 DEF Writers
    <3>3. w \in Order[3] \/ w \in Order[4] \/ w \in Order[6] \/ w \in Order[8] \/ w \in Order[9]
      BY <3>2, PlaceInOrder
    <3>4. \A j \in {3, 4, 6, 8, 9} : j \in 1..12 /\ j < k
      BY <3>1, SMT
    <3> QED  BY <3>3, <3>4, <2>4
  <2>6. CASE s = "localstore"
    <3>1. k = 11
      BY <2>3, <2>6, PlaceInOrder
    <3>2. w \in {"api", "pusher", "puller", "pullsync", "p2p"}
      BY <2>6 DEF Writers
    <3>3. w \in Order[1] \/ w \in Order[3] \/ w \in Order[4]
      BY <3>2, PlaceInOrder
    <3>4. \A j \in {1, 3, 4} : j \in 1..12 /\ j < k
      BY <3>1, SMT
    <3> QED  BY <3>3, <3>4, <2>4
  <2> QED  BY <2>2, <2>5, <2>6
<1> QED  BY <1>1, NodeKeepsInv, PTL

-----------------------------------------------------------------------------
(* The mine worker.                                                        *)

MineTypeOK ==
  /\ deposits \in Nat /\ waitTimeouts \in Nat /\ lostHash \in Nat
  /\ calls \in [CallId -> {"new", "asking", "listening", "returned", "released"}]
  /\ wpc \in {"timer", "sign", "collect", "release", "send", "store", "wait"}
  /\ deposited \in BOOLEAN /\ depositKey \in BOOLEAN

\* Calls are made in order, and only the last one collects, for the worker.
InOrder ==
  /\ \A i, j \in CallId : i < j /\ calls[j] # "new" => calls[i] # "new"
  /\ \A i \in CallId : calls[i] \in {"asking", "listening"} =>
       wpc = "collect" /\ \A j \in CallId : calls[j] # "new" => j <= i
  /\ wpc = "collect" => \E i \in CallId : calls[i] \in {"asking", "listening"}

\* Answers belong to a call.
Answered ==
  /\ answers \subseteq CallId \X TrustNodes
  /\ lockedBy \in (CallId \X TrustNodes) \cup {NoAnswer}

\* What the worker does is what its purpose says.
Purposeful ==
  /\ wpc # "timer" => purpose \in {"deposit", "active"}
  /\ purpose = "active" => deposited
  /\ wpc = "wait" /\ purpose = "deposit" => depositKey
  /\ wpc = "store" => purpose = "deposit"

\* Every deposit but one has been accounted for, and all of them when the
\* worker deposits or may come to do so.
Owed == deposits <= waitTimeouts + lostHash
Depositing ==
  \/ wpc \in {"sign", "collect", "release", "send"} /\ purpose = "deposit"
  \/ ~deposited /\ ~depositKey /\ wpc # "store"

MineInv ==
  /\ MineTypeOK /\ InOrder /\ Answered /\ Purposeful
  /\ deposits <= 1 + waitTimeouts + lostHash
  /\ Depositing => Owed

-----------------------------------------------------------------------------
LEMMA MineStart == MineInit => MineInv
<1> SUFFICES ASSUME MineInit PROVE MineInv
  OBVIOUS
<1>1. MineTypeOK /\ InOrder /\ Answered /\ Purposeful
  <2>1. 0 \in Nat
    BY SMT
  <2> QED  BY <2>1 DEF MineInit, MineTypeOK, InOrder, Answered, Purposeful
<1>2. Owed /\ deposits <= 1 + waitTimeouts + lostHash
  BY SMT DEF MineInit, Owed
<1> QED  BY <1>1, <1>2 DEF MineInv

\* The call that collects is the current one.
LEMMA CollectsCurrent ==
  ASSUME MineInv, NEW i \in CallId, calls[i] \in {"asking", "listening"}
  PROVE  i = Current
<1> DEFINE Last(k) == calls[k] # "new" /\ \A j \in CallId : calls[j] # "new" => j <= k
<1>1. Last(i)
  BY DEF MineInv, InOrder
<1>2. \A k \in CallId : Last(k) => k = i
  <2> SUFFICES ASSUME NEW k \in CallId, Last(k) PROVE k = i
    OBVIOUS
  <2>1. k <= i /\ i <= k
    BY <1>1
  <2> QED  BY <2>1, MineAssumption, SMT DEF CallId
<1> QED  BY <1>1, <1>2 DEF Current

\* Steps that leave the calls alone, and steps that end them.
LEMMA OrderKept ==
  ASSUME MineInv, UNCHANGED calls, wpc = "collect" <=> wpc' = "collect"
  PROVE  InOrder'
  BY DEF MineInv, InOrder

LEMMA OrderEnds ==
  ASSUME MineInv, wpc' # "collect",
         calls' \in [CallId -> {"new", "asking", "listening", "returned", "released"}],
         \A i \in CallId : /\ calls'[i] = "new" <=> calls[i] = "new"
                           /\ calls'[i] \notin {"asking", "listening"}
  PROVE  InOrder'
  BY DEF MineInv, InOrder

LEMMA AnsweredKept == ASSUME MineInv, UNCHANGED <<answers, lockedBy>> PROVE Answered'
  BY DEF MineInv, Answered

LEMMA CheckWorkingKeeps == ASSUME MineInv, CheckWorking PROVE MineInv'
<1>1. UNCHANGED <<deposits, waitTimeouts, lostHash, deposited, depositKey, calls>>
  BY DEF CheckWorking, contractVars, counts, trustVars
<1>2. InOrder' /\ Answered'
  BY <1>1, OrderKept, AnsweredKept DEF CheckWorking, MortgageMiner, trustVars
<1>3. wpc = "timer"
  BY DEF CheckWorking
<1>4. CASE deposited /\ wpc' = "sign" /\ purpose' = "active"
  BY <1>1, <1>2, <1>3, <1>4 DEF MineInv, MineTypeOK, Purposeful, Depositing, Owed
<1>5. CASE ~deposited /\ depositKey /\ wpc' = "wait" /\ purpose' = "deposit"
  BY <1>1, <1>2, <1>3, <1>5 DEF MineInv, MineTypeOK, Purposeful, Depositing, Owed
<1>6. CASE ~deposited /\ ~depositKey /\ wpc' = "sign" /\ purpose' = "deposit"
  BY <1>1, <1>2, <1>3, <1>6 DEF MineInv, MineTypeOK, Purposeful, Depositing, Owed
<1> QED  BY <1>4, <1>5, <1>6 DEF CheckWorking, CheckDeposit, MortgageMiner

LEMMA ObtainWaitKeeps == ASSUME MineInv, ObtainWait PROVE MineInv'
<1>1. UNCHANGED <<deposits, waitTimeouts, lostHash, deposited, depositKey, purpose>>
  BY DEF ObtainWait, contractVars, counts
<1>2. PICK i \in CallId : /\ calls[i] = "new" /\ \A j \in CallId : j < i => calls[j] # "new"
                          /\ calls' = [calls EXCEPT ![i] = "asking"]
  BY DEF ObtainWait
<1>3. wpc = "sign" /\ wpc' = "collect"
  BY DEF ObtainWait
<1>4. MineTypeOK' /\ Purposeful'
  BY <1>1, <1>2, <1>3 DEF MineInv, MineTypeOK, Purposeful
<1>5. \A j \in CallId \ {i} : calls'[j] = calls[j] /\ calls[j] \notin {"asking", "listening"}
  BY <1>2, <1>3 DEF MineInv, MineTypeOK, InOrder
<1>6. calls'[i] = "asking"
  BY <1>2 DEF MineInv, MineTypeOK
<1>7. \A j \in CallId : calls[j] # "new" => ~(i < j)
  BY <1>2 DEF MineInv, InOrder
<1>8. \A j \in CallId : calls'[j] # "new" => j <= i
  BY <1>5, <1>7, MineAssumption, SMT DEF CallId
<1>9. \A k, j \in CallId : k < j /\ calls'[j] # "new" => calls'[k] # "new"
  <2> SUFFICES ASSUME NEW k \in CallId, NEW j \in CallId, k < j, calls'[j] # "new"
               PROVE  calls'[k] # "new"
    OBVIOUS
  <2>1. j <= i
    BY <1>8
  <2>2. k < i
    BY <2>1, MineAssumption, SMT DEF CallId
  <2> QED  BY <1>2, <1>5, <1>6, <2>2
<1>10. InOrder'
  BY <1>3, <1>5, <1>6, <1>8, <1>9 DEF InOrder
<1>11. Depositing' => Depositing
  BY <1>1, <1>3 DEF Depositing
<1>12. Answered'
  <2>1. answers' \subseteq CallId \X TrustNodes
    <3>1. PICK k \in CallId : answers' = answers \cup TrustSignature(k)
      BY DEF ObtainWait
    <3>2. TrustSignature(k) \subseteq CallId \X TrustNodes
      <4> SUFFICES ASSUME NEW a \in TrustSignature(k) PROVE a \in CallId \X TrustNodes
        OBVIOUS
      <4>1. PICK t \in TrustNodes : a \in {<<k, t>>}
        BY DEF TrustSignature, HandlerSign, NotifyTrustSignature
      <4> QED  BY <4>1, SMT
    <3> QED  BY <3>1, <3>2 DEF MineInv, Answered
  <2> QED  BY <2>1 DEF ObtainWait, MineInv, Answered
<1> QED  BY <1>1, <1>4, <1>10, <1>11, <1>12 DEF MineInv, Owed

LEMMA ListenKeeps == ASSUME MineInv, NEW i \in CallId, Listen(i) PROVE MineInv'
<1>1. UNCHANGED <<deposits, waitTimeouts, lostHash, deposited, depositKey, purpose, wpc>>
  BY DEF Listen, contractVars, counts
<1>2. calls[i] = "asking" /\ calls' = [calls EXCEPT ![i] = "listening"]
  BY DEF Listen
<1>3. MineTypeOK' /\ Purposeful'
  BY <1>1, <1>2 DEF MineInv, MineTypeOK, Purposeful
<1>4. \A j \in CallId : /\ calls'[j] = "new" <=> calls[j] = "new"
                        /\ calls'[j] \in {"asking", "listening"} <=> calls[j] \in {"asking", "listening"}
  BY <1>2 DEF MineInv, MineTypeOK
<1>5. InOrder'
  BY <1>1, <1>4 DEF MineInv, InOrder
<1>6. Answered'
  BY AnsweredKept DEF Listen
<1> QED  BY <1>1, <1>3, <1>5, <1>6 DEF MineInv, Owed, Depositing

LEMMA ReceiveKeeps == ASSUME MineInv, Receive PROVE MineInv'
<1>1. UNCHANGED <<deposits, waitTimeouts, lostHash, deposited, depositKey, purpose>>
  BY DEF Receive, contractVars, counts
<1>2. Answered'
  BY DEF Receive, MineInv, Answered
<1>3. CASE UNCHANGED <<calls, wpc>>
  <2>1. InOrder'
    BY <1>3, OrderKept
  <2> QED  BY <1>1, <1>2, <1>3, <2>1 DEF MineInv, MineTypeOK, Purposeful, Owed, Depositing
<1>4. ASSUME NEW i \in CallId, calls[i] = "listening",
             calls' = [calls EXCEPT ![i] = "returned"], wpc' = "release"
      PROVE  MineInv'
  <2>1. wpc = "collect"
    BY <1>4 DEF MineInv, InOrder
  <2>2. \A j \in CallId \ {i} : calls'[j] = calls[j] /\ calls[j] \notin {"asking", "listening"}
    BY <1>4, CollectsCurrent DEF MineInv, MineTypeOK
  <2>3. calls'[i] = "returned" /\ calls' \in [CallId -> {"new", "asking", "listening", "returned", "released"}]
    BY <1>4 DEF MineInv, MineTypeOK
  <2>4. InOrder'
    BY <1>4, <2>2, <2>3, OrderEnds
  <2> QED  BY <1>1, <1>2, <1>4, <2>1, <2>3, <2>4 DEF MineInv, MineTypeOK, Purposeful, Owed, Depositing
<1>5. lockedBy[1] \in CallId
  <2>1. lockedBy \in CallId \X TrustNodes
    BY DEF Receive, MineInv, Answered
  <2> QED  BY <2>1
<1> QED  BY <1>3, <1>4, <1>5 DEF Receive

LEMMA HandleSignRetKeeps == ASSUME MineInv, NEW a \in answers, HandleSignRet(a) PROVE MineInv'
<1>1. UNCHANGED <<deposits, waitTimeouts, lostHash, deposited, depositKey, purpose, wpc, calls>>
  BY DEF HandleSignRet, contractVars, counts
<1>2. InOrder' /\ Answered'
  BY <1>1, OrderKept DEF HandleSignRet, MineInv, Answered
<1> QED  BY <1>1, <1>2 DEF MineInv, MineTypeOK, Purposeful, Owed, Depositing

LEMMA LoseAnswerKeeps == ASSUME MineInv, NEW a \in answers, LoseAnswer(a) PROVE MineInv'
<1>1. UNCHANGED <<deposits, waitTimeouts, lostHash, deposited, depositKey, purpose, wpc, calls>>
  BY DEF LoseAnswer, contractVars
<1>2. InOrder' /\ Answered'
  BY <1>1, OrderKept DEF LoseAnswer, MineInv, Answered
<1> QED  BY <1>1, <1>2 DEF MineInv, MineTypeOK, Purposeful, Owed, Depositing

LEMMA ReleaseWaitKeeps == ASSUME MineInv, NEW i \in CallId, ReleaseWait(i) PROVE MineInv'
<1>1. UNCHANGED <<deposits, waitTimeouts, lostHash, deposited, depositKey, purpose>>
  BY DEF ReleaseWait, contractVars, counts
<1>2. calls[i] = "returned" /\ calls' = [calls EXCEPT ![i] = "released"]
  BY DEF ReleaseWait
<1>3. wpc' = wpc \/ (wpc = "release" /\ wpc' = "send")
  BY DEF ReleaseWait
<1>4. calls' \in [CallId -> {"new", "asking", "listening", "returned", "released"}]
  BY <1>2 DEF MineInv, MineTypeOK
<1>5. \A j \in CallId : /\ calls'[j] = "new" <=> calls[j] = "new"
                        /\ calls'[j] \in {"asking", "listening"} <=> calls[j] \in {"asking", "listening"}
  BY <1>2 DEF MineInv, MineTypeOK
<1>6. InOrder'
  BY <1>3, <1>5 DEF MineInv, InOrder
<1>7. Answered'
  BY AnsweredKept DEF ReleaseWait
<1> QED  BY <1>1, <1>3, <1>4, <1>6, <1>7 DEF MineInv, MineTypeOK, Purposeful, Owed, Depositing

LEMMA SendTxKeeps == ASSUME MineInv, SendTx PROVE MineInv'
<1>1. UNCHANGED <<waitTimeouts, lostHash, deposited, depositKey, purpose, calls, answers, lockedBy>>
  BY DEF SendTx, trustVars
<1>2. wpc = "send" /\ wpc' \in {"store", "wait"}
  BY DEF SendTx
<1>3. InOrder' /\ Answered'
  BY <1>1, <1>2, OrderKept, AnsweredKept
<1>4. CASE purpose = "deposit"
  <2>1. wpc' = "store" /\ deposits' = deposits + 1
    BY <1>4 DEF SendTx, Deposit
  <2>2. Owed
    BY <1>2, <1>4 DEF MineInv, Depositing
  <2>3. deposits' \in Nat /\ deposits' <= 1 + waitTimeouts' + lostHash'
    BY <1>1, <2>1, <2>2, SMT DEF MineInv, MineTypeOK, Owed
  <2>4. MineTypeOK' /\ Purposeful' /\ ~Depositing'
    BY <1>1, <1>4, <2>1, <2>3 DEF MineInv, MineTypeOK, Purposeful, Depositing
  <2> QED  BY <1>3, <2>3, <2>4 DEF MineInv
<1>5. CASE purpose # "deposit"
  <2>1. wpc' = "wait" /\ deposits' = deposits
    BY <1>5 DEF SendTx, Active
  <2> QED  BY <1>1, <1>2, <1>3, <1>5, <2>1 DEF MineInv, MineTypeOK, Purposeful, Owed, Depositing
<1> QED  BY <1>4, <1>5

LEMMA StoreDepositKeeps == ASSUME MineInv, StoreDeposit PROVE MineInv'
<1>1. UNCHANGED <<deposits, waitTimeouts, lostHash, deposited, purpose, calls, answers, lockedBy>>
  BY DEF StoreDeposit, contractVars, counts, trustVars
<1>2. wpc = "store" /\ wpc' = "wait" /\ depositKey' = TRUE
  BY DEF StoreDeposit
<1>3. InOrder' /\ Answered'
  BY <1>1, <1>2, OrderKept, AnsweredKept
<1> QED  BY <1>1, <1>2, <1>3 DEF MineInv, MineTypeOK, Purposeful, Owed, Depositing

LEMMA ConfirmedKeeps == ASSUME MineInv, Confirmed PROVE MineInv'
<1>1. UNCHANGED <<deposits, waitTimeouts, lostHash, deposited, purpose, calls, answers, lockedBy>>
  BY DEF Confirmed, contractVars, counts, trustVars
<1>2. wpc = "wait" /\ wpc' = "timer" /\ depositKey' = FALSE /\ (purpose = "deposit" => deposited)
  BY DEF Confirmed
<1>3. InOrder' /\ Answered'
  BY <1>1, <1>2, OrderKept, AnsweredKept
<1>4. deposited
  BY <1>2 DEF MineInv, Purposeful
<1> QED  BY <1>1, <1>2, <1>3, <1>4 DEF MineInv, MineTypeOK, Purposeful, Owed, Depositing

LEMMA TimeoutKeeps == ASSUME MineInv, Timeout PROVE MineInv'
<1>1. UNCHANGED <<deposits, lostHash, deposited, purpose, answers, lockedBy>>
  BY DEF Timeout, Fail, contractVars
<1>2. wpc' = "timer"
  BY DEF Timeout, Fail
<1>3. Answered'
  BY <1>1, AnsweredKept
<1>4. calls' \in [CallId -> {"new", "asking", "listening", "returned", "released"}]
  BY DEF MineInv, MineTypeOK, Timeout, Fail
<1>5. \A i \in CallId : /\ calls'[i] = "new" <=> calls[i] = "new"
                        /\ calls'[i] \notin {"asking", "listening"}
  <2>1. CASE wpc # "collect"
    BY <2>1 DEF Timeout, Fail, MineInv, InOrder
  <2>2. CASE wpc = "collect"
    <3>1. calls' = [calls EXCEPT ![Current] = "returned"]
      BY <2>2 DEF Timeout, Fail
    <3>2. \A i \in CallId : calls[i] \in {"asking", "listening"} => i = Current
      BY CollectsCurrent
    <3>3. calls[Current] # "new"
      BY <2>2, <3>2 DEF MineInv, InOrder
    <3> QED  BY <3>1, <3>2, <3>3 DEF MineInv, MineTypeOK
  <2> QED  BY <2>1, <2>2
<1>6. InOrder'
  BY <1>2, <1>4, <1>5, OrderEnds
<1>7. CASE wpc = "wait"
  <2>1. waitTimeouts' = waitTimeouts + 1 /\ depositKey' = FALSE
    BY <1>7 DEF Timeout, Fail
  <2>2. waitTimeouts' \in Nat /\ Owed' /\ deposits' <= 1 + waitTimeouts' + lostHash'
    BY <1>1, <2>1, SMT DEF MineInv, MineTypeOK, Owed
  <2>3. MineTypeOK' /\ Purposeful'
    BY <1>1, <1>2, <1>4, <2>1, <2>2 DEF MineInv, MineTypeOK, Purposeful
  <2> QED  BY <1>3, <1>6, <2>2, <2>3 DEF MineInv
<1>8. CASE wpc # "wait"
  <2>1. UNCHANGED <<waitTimeouts, depositKey>>
    BY <1>8 DEF Timeout, Fail
  <2>2. MineTypeOK' /\ Purposeful'
    BY <1>1, <1>2, <1>4, <2>1 DEF MineInv, MineTypeOK, Purposeful
  <2>3. Depositing' => Depositing
    BY <1>1, <1>2, <2>1 DEF Depositing, Timeout
  <2> QED  BY <1>1, <1>3, <1>6, <2>1, <2>2, <2>3 DEF MineInv, Owed
<1> QED  BY <1>7, <1>8

LEMMA ContractKeeps ==
  ASSUME MineInv, Inactivated \/ \E t \in txs : AcceptTx(t)
  PROVE  MineInv'
<1>1. UNCHANGED <<deposits, waitTimeouts, lostHash, depositKey, purpose, wpc, calls, answers, lockedBy>>
  BY DEF Inactivated, AcceptTx, counts, trustVars
<1>2. deposited' \in BOOLEAN /\ (deposited => deposited')
  BY DEF Inactivated, AcceptTx, MineInv, MineTypeOK
<1>3. InOrder' /\ Answered'
  BY <1>1, OrderKept, AnsweredKept
<1> QED  BY <1>1, <1>2, <1>3 DEF MineInv, MineTypeOK, Purposeful, Owed, Depositing

LEMMA RestartMinerKeeps == ASSUME MineInv, RestartMiner PROVE MineInv'
<1>1. UNCHANGED <<deposits, waitTimeouts, deposited, depositKey>>
  BY DEF RestartMiner, contractVars
<1>2. wpc' = "timer" /\ purpose' = "none"
  BY DEF RestartMiner
<1>3. Answered'
  BY DEF RestartMiner, Answered
<1>4. calls' = [i \in CallId |-> IF calls[i] = "new" THEN "new" ELSE "released"]
  BY DEF RestartMiner
<1>5. InOrder'
  BY <1>2, <1>4, OrderEnds
<1>6. CASE wpc = "store"
  <2>1. lostHash' = lostHash + 1
    BY <1>6 DEF RestartMiner
  <2>2. lostHash' \in Nat /\ Owed' /\ deposits' <= 1 + waitTimeouts' + lostHash'
    BY <1>1, <2>1, SMT DEF MineInv, MineTypeOK, Owed
  <2>3. MineTypeOK' /\ Purposeful'
    BY <1>1, <1>2, <1>4, <2>2 DEF MineInv, MineTypeOK, Purposeful
  <2> QED  BY <1>3, <1>5, <2>2, <2>3 DEF MineInv
<1>7. CASE wpc # "store"
  <2>1. lostHash' = lostHash
    BY <1>7 DEF RestartMiner
  <2>2. MineTypeOK' /\ Purposeful'
    BY <1>1, <1>2, <1>4, <2>1 DEF MineInv, MineTypeOK, Purposeful
  <2>3. Depositing' => Depositing
    BY <1>1, <1>2, <1>7 DEF Depositing
  <2> QED  BY <1>1, <1>3, <1>5, <2>1, <2>2, <2>3 DEF MineInv, Owed
<1> QED  BY <1>6, <1>7

\* mortgageMiner: the node deposits again only after a wait for the deposit
\* ended without a result, or after a crash between sending and recording it.
THEOREM DepositsAreCounted == MineSpec => []DepositRepeatedOnlyAfterTimeout
<1>1. MineInv /\ [MineNext]_mineVars => MineInv'
  <2> SUFFICES ASSUME MineInv, [MineNext]_mineVars PROVE MineInv'
    OBVIOUS
  <2>1. CASE Worker
    BY <2>1, CheckWorkingKeeps, ObtainWaitKeeps, ReceiveKeeps, SendTxKeeps, StoreDepositKeeps,
       ConfirmedKeeps DEF Worker
  <2>2. CASE Timeout
    BY <2>2, TimeoutKeeps
  <2>3. CASE RestartMiner
    BY <2>3, RestartMinerKeeps
  <2>4. ASSUME NEW i \in CallId, Listen(i) \/ ReleaseWait(i) PROVE MineInv'
    BY <2>4, ListenKeeps, ReleaseWaitKeeps
  <2>5. ASSUME NEW a \in answers, HandleSignRet(a) \/ LoseAnswer(a) PROVE MineInv'
    BY <2>5, HandleSignRetKeeps, LoseAnswerKeeps
  <2>6. CASE Inactivated \/ \E t \in txs : AcceptTx(t)
    BY <2>6, ContractKeeps
  <2>7. CASE UNCHANGED mineVars
    BY <2>7, OrderKept, AnsweredKept
    DEF mineVars, MineInv, MineTypeOK, Purposeful, Owed, Depositing
  <2> QED  BY <2>1, <2>2, <2>3, <2>4, <2>5, <2>6, <2>7 DEF MineNext
<1>2. MineInv => DepositRepeatedOnlyAfterTimeout
  BY DEF MineInv, DepositRepeatedOnlyAfterTimeout
<1> QED  BY <1>1, <1>2, MineStart, PTL DEF MineSpec
=============================================================================
