--------------------------- MODULE ChequesProofs ---------------------------
(***************************************************************************)
(* The inductive invariant of Cheques and what a payment contributes to    *)
(* its sums.  The steps of a payment, a restart and the steps of the       *)
(* peers, the owner and the chain preserve it, for any number of peers and *)
(* beneficiaries, any amounts, funds and rates, and whatever the number of *)
(* payments, cashouts, deposits and withdrawals.  It implies the five      *)
(* invariants of Cheques.                                                  *)
(***************************************************************************)
EXTENDS Cheques, FiniteSetTheorems, TLAPS

-----------------------------------------------------------------------------
(* Sums over a finite set. *)

\* The tokens of one element are as many as the value of f there.
LEMMA TokensOfOne ==
  ASSUME NEW f, NEW s, f[s] \in Nat
  PROVE  /\ IsFiniteSet({s} \X (1..f[s]))
         /\ Cardinality({s} \X (1..f[s])) = f[s]
  <1>1. IsFiniteSet({s}) /\ Cardinality({s}) = 1
    BY FS_Singleton, Zenon
  <1>2. IsFiniteSet(1..f[s]) /\ Cardinality(1..f[s]) = f[s]
    <2>1. 1 \in Int /\ f[s] \in Int
      OBVIOUS
    <2>2. /\ IsFiniteSet(1..f[s])
          /\ Cardinality(1..f[s]) = IF 1 > f[s] THEN 0 ELSE f[s] - 1 + 1
      BY <2>1, FS_Interval, Zenon
    <2> QED
      BY <2>2
  <1>3. /\ IsFiniteSet({s} \X (1..f[s]))
        /\ Cardinality({s} \X (1..f[s])) = Cardinality({s}) * Cardinality(1..f[s])
    BY <1>1, <1>2, FS_Product, Zenon
  <1> QED BY <1>1, <1>2, <1>3

\* A finite set has finitely many tokens, so its sum is a natural number.
LEMMA SumType ==
  ASSUME NEW S, IsFiniteSet(S), NEW f, \A s \in S : f[s] \in Nat
  PROVE  IsFiniteSet(Tokens(f, S)) /\ SumOver(f, S) \in Nat
  <1> DEFINE g == [s \in S |-> {s} \X (1..f[s])]
             T == {{s} \X (1..f[s]) : s \in S}
  <1>1. g \in Surjection(S, T)
    BY Zenon DEF Surjection
  <1>2. IsFiniteSet(T)
    BY <1>1, FS_Surjection
  <1>3. \A t \in T : IsFiniteSet(t)
    BY TokensOfOne, Zenon
  <1>4. IsFiniteSet(UNION T)
    BY <1>2, <1>3, FS_UNION, Zenon
  <1> QED BY <1>4, FS_CardinalityType DEF Tokens, SumOver

\* Functions that agree on S have the same sum over S.
LEMMA SumSame ==
  ASSUME NEW S, NEW f, NEW g, \A s \in S : f[s] = g[s]
  PROVE  SumOver(f, S) = SumOver(g, S)
  <1>1. Tokens(f, S) = Tokens(g, S)
    BY DEF Tokens
  <1> QED BY <1>1 DEF SumOver

\* A new element adds its value to the sum.
LEMMA SumAdd ==
  ASSUME NEW S, IsFiniteSet(S), NEW f, \A s \in S : f[s] \in Nat,
         NEW x, x \notin S, f[x] \in Nat
  PROVE  SumOver(f, S \cup {x}) = SumOver(f, S) + f[x]
  <1> DEFINE X == {x} \X (1..f[x])
  <1>1. Tokens(f, S \cup {x}) = Tokens(f, S) \cup X
    BY DEF Tokens
  <1>2. Tokens(f, S) \cap X = {}
    BY DEF Tokens
  <1>3. IsFiniteSet(Tokens(f, S))
    BY SumType
  <1>4. IsFiniteSet(X) /\ Cardinality(X) = f[x]
    BY TokensOfOne, Zenon
  <1>5. Cardinality(Tokens(f, S) \cup X) =
          Cardinality(Tokens(f, S)) + Cardinality(X) - Cardinality({})
    <2> HIDE DEF X
    <2> QED BY <1>2, <1>3, <1>4, FS_Union
  <1>6. Cardinality({}) = 0
    BY FS_EmptySet
  <1>7. Cardinality(Tokens(f, S)) \in Nat
    BY <1>3, FS_CardinalityType
  <1>8. Cardinality(Tokens(f, S) \cup X) = Cardinality(Tokens(f, S)) + f[x]
    <2> HIDE DEF X
    <2> QED BY <1>4, <1>5, <1>6, <1>7
  <1> HIDE DEF X
  <1> QED BY <1>1, <1>8, Zenon DEF SumOver

\* Removing an element takes its value out of the sum.
LEMMA SumRemove ==
  ASSUME NEW S, IsFiniteSet(S), NEW f, \A s \in S : f[s] \in Nat,
         NEW x \in S
  PROVE  /\ SumOver(f, S) = SumOver(f, S \ {x}) + f[x]
         /\ f[x] <= SumOver(f, S)
  <1>1. IsFiniteSet(S \ {x})
    BY FS_RemoveElement
  <1>2. S = (S \ {x}) \cup {x}
    OBVIOUS
  <1>3. SumOver(f, (S \ {x}) \cup {x}) = SumOver(f, S \ {x}) + f[x]
    BY <1>1, SumAdd, Zenon
  <1>4. SumOver(f, S \ {x}) \in Nat
    BY <1>1, SumType
  <1>5. f[x] \in Nat
    OBVIOUS
  <1>6. SumOver(f, S) = SumOver(f, S \ {x}) + f[x]
    BY <1>2, <1>3
  <1> QED BY <1>4, <1>5, <1>6

\* A function that is nowhere larger has no larger sum.
LEMMA SumMonotone ==
  ASSUME NEW S, IsFiniteSet(S), NEW f, NEW g,
         \A s \in S : f[s] \in Nat /\ g[s] \in Nat /\ f[s] <= g[s]
  PROVE  SumOver(f, S) <= SumOver(g, S)
  <1>1. Tokens(f, S) \in SUBSET Tokens(g, S)
    BY DEF Tokens
  <1>2. IsFiniteSet(Tokens(g, S))
    BY SumType
  <1> QED BY <1>1, <1>2, FS_Subset DEF SumOver

\* The sum of zeros is 0.
LEMMA SumZero ==
  ASSUME NEW S, NEW f, \A s \in S : f[s] = 0
  PROVE  SumOver(f, S) = 0
  <1>1. Tokens(f, S) = {}
    BY DEF Tokens
  <1> QED BY <1>1, FS_EmptySet DEF SumOver

\* Changing a function at one point changes its sum by the difference there.
LEMMA SumUpdate ==
  ASSUME NEW S, IsFiniteSet(S), NEW f, NEW g, NEW x \in S,
         \A s \in S : f[s] \in Nat /\ g[s] \in Nat,
         \A s \in S \ {x} : f[s] = g[s]
  PROVE  SumOver(g, S) = SumOver(f, S) - f[x] + g[x]
  <1>1. SumOver(f, S) = SumOver(f, S \ {x}) + f[x]
    BY SumRemove
  <1>2. SumOver(g, S) = SumOver(g, S \ {x}) + g[x]
    BY SumRemove
  <1>3. SumOver(f, S \ {x}) = SumOver(g, S \ {x})
    BY SumSame
  <1>4. IsFiniteSet(S \ {x})
    BY FS_RemoveElement
  <1>5. SumOver(f, S \ {x}) \in Nat
    BY <1>4, SumType
  <1>6. f[x] \in Nat /\ g[x] \in Nat
    OBVIOUS
  <1> QED BY <1>1, <1>2, <1>3, <1>5, <1>6

\* A sum over a part R of S is the sum over S of the function that is 0
\* outside R.
LEMMA SumOfPart ==
  ASSUME NEW S, NEW R \in SUBSET S, NEW f, NEW g,
         \A s \in S : g[s] = IF s \in R THEN f[s] ELSE 0
  PROVE  SumOver(f, R) = SumOver(g, S)
  <1>1. Tokens(f, R) = Tokens(g, S)
    BY DEF Tokens
  <1> QED BY <1>1 DEF SumOver

\* The sums over two disjoint parts add up.
LEMMA SumDisjoint ==
  ASSUME NEW A, NEW B, IsFiniteSet(A), IsFiniteSet(B), A \cap B = {},
         NEW f, \A s \in A \cup B : f[s] \in Nat
  PROVE  SumOver(f, A \cup B) = SumOver(f, A) + SumOver(f, B)
  <1>1. Tokens(f, A \cup B) = Tokens(f, A) \cup Tokens(f, B)
    BY DEF Tokens
  <1>2. Tokens(f, A) \cap Tokens(f, B) = {}
    BY DEF Tokens
  <1>3. IsFiniteSet(Tokens(f, A)) /\ IsFiniteSet(Tokens(f, B))
    BY SumType
  <1>4. Cardinality(Tokens(f, A) \cup Tokens(f, B)) =
          Cardinality(Tokens(f, A)) + Cardinality(Tokens(f, B)) - Cardinality({})
    BY <1>2, <1>3, FS_Union
  <1>5. Cardinality({}) = 0
    BY FS_EmptySet
  <1>6. Cardinality(Tokens(f, A)) \in Nat /\ Cardinality(Tokens(f, B)) \in Nat
    BY <1>3, FS_CardinalityType
  <1>7. Cardinality(Tokens(f, A) \cup Tokens(f, B)) =
          Cardinality(Tokens(f, A)) + Cardinality(Tokens(f, B))
    BY <1>4, <1>5, <1>6
  <1> QED BY <1>1, <1>7 DEF SumOver

\* Most leaves are first-order; the ones with arithmetic cite SMT.
USE Zenon

Stages == {"idle", "negotiated", "checking", "reserved", "signed", "written", "saved", "counted"}

PaymentRecord == [stage : Stages, beneficiary : Beneficiaries \cup {"none"}, tokens : Nat,
                  deduction : Nat, cumulative : Nat, seen : Nat]

Cheque == [beneficiary : Beneficiaries, cumulative : Nat, deduction : Nat]

Types ==
  /\ lastCheque \in [Beneficiaries -> Nat] /\ issued \in [Beneficiaries -> Nat]
  /\ paid \in [Beneficiaries -> Nat] /\ strayed \in [Beneficiaries -> Nat]
  /\ received \in [Beneficiaries -> Nat] /\ paidOut \in [Beneficiaries -> Nat]
  /\ totalIssued \in Nat /\ reserved \in Nat /\ balance \in Nat /\ wallet \in Nat
  /\ excess \in Nat /\ lost \in Nat /\ depositing \in Nat
  /\ lock \in Peers \cup {"none"}
  /\ payment \in [Peers -> PaymentRecord]
  /\ book \in [beneficiary : [Peers -> Beneficiaries \cup {"none"}],
               peer : [Beneficiaries -> Peers \cup {"none"}]]
  /\ wire \in SUBSET Cheque
  /\ cashing \in SUBSET [beneficiary : Beneficiaries, cumulative : Nat]
  /\ cashout \in [Beneficiaries -> [status : {"none", "pending", "mined", "failed"},
                                    cumulative : Nat]]
  /\ withdrawal \in [stage : {"idle", "reading", "sent"}, amount : Nat, seen : Nat, issued : Nat]

\* A payment that was started has a beneficiary, and is for an amount that
\* accounting asked for and at most one deduction.
Started ==
  \A p \in Peers :
    IF payment[p].stage = "idle" THEN payment[p].beneficiary = "none"
    ELSE /\ payment[p].beneficiary \in Beneficiaries
         /\ \E amount \in Amounts : payment[p].tokens <= amount * ExchangeRate + Deduction

-----------------------------------------------------------------------------
(* The tokens of a payment, by what was done with them. *)

\* Reserved, and not yet returned.
Held(p) == IF payment[p].stage \in {"reserved", "signed", "written", "saved", "counted"}
           THEN payment[p].tokens ELSE 0

\* Reserved, and not yet in totalIssued.
Promised(p) == IF payment[p].stage \in {"reserved", "signed", "written", "saved"}
               THEN payment[p].tokens ELSE 0

\* Saved for beneficiary b.
SavedFor(p, b) == IF payment[p].beneficiary = b THEN LostSave(p) ELSE 0

SumHeld == SumOver([p \in Peers |-> Held(p)], Peers)
SumPromised == SumOver([p \in Peers |-> Promised(p)], Peers)
SumWritten == SumOver([p \in Peers |-> LostCount(p)], Peers)
SumSaved(b) == SumOver([p \in Peers |-> SavedFor(p, b)], Peers)

-----------------------------------------------------------------------------
\* The reservation is what the payments in progress hold.
Reservation == reserved = SumHeld

\* What is promised or issued is covered, up to the mistakes of the checks.
Cover == totalIssued + SumPromised <= balance + TotalPaidOut - Withdrawing + excess

\* What was written is issued, about to be, or lost.
WrittenCounted == TotalWritten <= totalIssued + SumWritten + lost

\* What accounting knows of, or will, for beneficiary b.  It never shrinks.
Accounted(b) == paid[b] + strayed[b] + SumSaved(b)

\* The number of a cheque lies above the ones before it by its own payment at
\* most, measured by the cheques written and by what was saved.
NumberBounds ==
  /\ \A b \in Beneficiaries :
       /\ lastCheque[b] <= issued[b]
       /\ lastCheque[b] <= Accounted(b)
       /\ \E amount \in Amounts : issued[b] <= Accounted(b) + amount * ExchangeRate + Deduction
  /\ \A p \in Peers :
       LET b == payment[p].beneficiary IN
       /\ payment[p].stage = "signed" => payment[p].cumulative <= issued[b] + payment[p].tokens
       /\ payment[p].stage = "written" => payment[p].cumulative <= issued[b]
       /\ payment[p].stage \in {"signed", "written"} =>
            payment[p].cumulative <= Accounted(b) + payment[p].tokens

\* As long as the payments to a beneficiary come one at a time, the last cheque
\* is exact and the next one extends it.
NumbersExact ==
  /\ \A b \in Beneficiaries \ shared : lastCheque[b] = Accounted(b)
  /\ \A p \in Peers :
       LET b == payment[p].beneficiary IN
       b \in Beneficiaries \ shared =>
         /\ \A q \in Peers : payment[q].beneficiary = b => q = p
         /\ payment[p].stage \in {"signed", "written"} =>
              payment[p].cumulative = lastCheque[b] + payment[p].tokens

\* A cashout that was stored is the highest one that was sent; it is pending as
\* long as its transaction is; when it was mined it was paid in full, or bounced.
Cashouts ==
  /\ \A b \in Beneficiaries :
       /\ cashout[b].status = "none" => paidOut[b] = 0
       /\ cashout[b].status = "pending" =>
            [beneficiary |-> b, cumulative |-> cashout[b].cumulative] \in cashing
       /\ cashout[b].status = "mined" /\ b \notin bounced => paidOut[b] = cashout[b].cumulative
       /\ cashout[b].cumulative <= received[b]
  /\ \A tx \in cashing :
       /\ cashout[tx.beneficiary].status # "none"
       /\ tx.cumulative <= cashout[tx.beneficiary].cumulative

IInv ==
  /\ Types /\ Started /\ Reservation /\ Cover /\ WrittenCounted
  /\ NumberBounds /\ NumbersExact /\ Cashouts

-----------------------------------------------------------------------------
(* What a payment contributes to the sums, and how one payment's step changes them. *)

LEMMA PaymentTypes ==
  ASSUME NEW f \in [Peers -> PaymentRecord], NEW p \in Peers
  PROVE  /\ f[p] \in PaymentRecord
         /\ f[p].stage \in Stages
         /\ f[p].beneficiary \in Beneficiaries \cup {"none"}
         /\ f[p].tokens \in Nat /\ f[p].deduction \in Nat
         /\ f[p].cumulative \in Nat /\ f[p].seen \in Nat
<1>1. f[p] \in PaymentRecord
  OBVIOUS
<1> QED
  BY <1>1 DEF PaymentRecord

LEMMA PartTypes ==
  ASSUME payment \in [Peers -> PaymentRecord], NEW p \in Peers, NEW b
  PROVE  /\ Held(p) \in Nat /\ Promised(p) \in Nat /\ LostCount(p) \in Nat
         /\ LostSave(p) \in Nat /\ SavedFor(p, b) \in Nat
         /\ LostCount(p) <= Promised(p)
  BY PaymentTypes, SMTT(20) DEF Held, Promised, LostCount, LostSave, SavedFor

LEMMA SumTypes ==
  ASSUME payment \in [Peers -> PaymentRecord], NEW b
  PROVE  /\ SumHeld \in Nat /\ SumPromised \in Nat /\ SumWritten \in Nat /\ SumSaved(b) \in Nat
         /\ SumWritten <= SumPromised
<1> DEFINE H == [p \in Peers |-> Held(p)]
           P == [p \in Peers |-> Promised(p)]
           W == [p \in Peers |-> LostCount(p)]
           S == [p \in Peers |-> SavedFor(p, b)]
<1>1. IsFiniteSet(Peers)
  BY ChequesAssumption
<1>2. \A p \in Peers : /\ H[p] \in Nat /\ P[p] \in Nat /\ W[p] \in Nat /\ S[p] \in Nat
                       /\ W[p] <= P[p]
  BY PartTypes
<1> HIDE DEF H, P, W, S
<1>3. /\ SumOver(H, Peers) \in Nat /\ SumOver(P, Peers) \in Nat
      /\ SumOver(W, Peers) \in Nat /\ SumOver(S, Peers) \in Nat
  BY <1>1, <1>2, SumType
<1>4. SumOver(W, Peers) <= SumOver(P, Peers)
  BY <1>1, <1>2, SumMonotone
<1> QED
  BY <1>3, <1>4 DEF H, P, W, S, SumHeld, SumPromised, SumWritten, SumSaved

\* A step of one payment changes every sum by what it changes for this payment.
LEMMA SumsOfStep ==
  ASSUME payment \in [Peers -> PaymentRecord], payment' \in [Peers -> PaymentRecord],
         NEW p \in Peers, \A q \in Peers \ {p} : payment'[q] = payment[q], NEW b
  PROVE  /\ SumHeld' = SumHeld - Held(p) + Held(p)'
         /\ SumPromised' = SumPromised - Promised(p) + Promised(p)'
         /\ SumWritten' = SumWritten - LostCount(p) + LostCount(p)'
         /\ SumSaved(b)' = SumSaved(b) - SavedFor(p, b) + SavedFor(p, b)'
<1> DEFINE H == [q \in Peers |-> Held(q)]
           P == [q \in Peers |-> Promised(q)]
           W == [q \in Peers |-> LostCount(q)]
           S == [q \in Peers |-> SavedFor(q, b)]
           H1 == [q \in Peers |-> Held(q)']
           P1 == [q \in Peers |-> Promised(q)']
           W1 == [q \in Peers |-> LostCount(q)']
           S1 == [q \in Peers |-> SavedFor(q, b)']
<1>1. IsFiniteSet(Peers)
  BY ChequesAssumption
<1>2. \A q \in Peers : H[q] \in Nat /\ P[q] \in Nat /\ W[q] \in Nat /\ S[q] \in Nat
  BY PartTypes
<1>3. \A q \in Peers : H1[q] \in Nat /\ P1[q] \in Nat /\ W1[q] \in Nat /\ S1[q] \in Nat
  BY PaymentTypes DEF Held, Promised, LostCount, LostSave, SavedFor
<1>4. \A q \in Peers \ {p} : H[q] = H1[q] /\ P[q] = P1[q] /\ W[q] = W1[q] /\ S[q] = S1[q]
  BY DEF Held, Promised, LostCount, LostSave, SavedFor
<1>5. /\ H[p] = Held(p) /\ P[p] = Promised(p) /\ W[p] = LostCount(p) /\ S[p] = SavedFor(p, b)
      /\ H1[p] = Held(p)' /\ P1[p] = Promised(p)' /\ W1[p] = LostCount(p)'
      /\ S1[p] = SavedFor(p, b)'
  OBVIOUS
<1>6. /\ SumHeld = SumOver(H, Peers) /\ SumPromised = SumOver(P, Peers)
      /\ SumWritten = SumOver(W, Peers) /\ SumSaved(b) = SumOver(S, Peers)
      /\ SumHeld' = SumOver(H1, Peers) /\ SumPromised' = SumOver(P1, Peers)
      /\ SumWritten' = SumOver(W1, Peers) /\ SumSaved(b)' = SumOver(S1, Peers)
  BY DEF SumHeld, SumPromised, SumWritten, SumSaved
<1> HIDE DEF H, P, W, S, H1, P1, W1, S1
<1>7. SumOver(H1, Peers) = SumOver(H, Peers) - H[p] + H1[p]
  <2>1. \A q \in Peers : H[q] \in Nat /\ H1[q] \in Nat
    BY <1>2, <1>3
  <2>2. \A q \in Peers \ {p} : H[q] = H1[q]
    BY <1>4
  <2> QED
    BY <1>1, <2>1, <2>2, SumUpdate, SMTT(20)
<1>8. SumOver(P1, Peers) = SumOver(P, Peers) - P[p] + P1[p]
  <2>1. \A q \in Peers : P[q] \in Nat /\ P1[q] \in Nat
    BY <1>2, <1>3
  <2>2. \A q \in Peers \ {p} : P[q] = P1[q]
    BY <1>4
  <2> QED
    BY <1>1, <2>1, <2>2, SumUpdate, SMTT(20)
<1>9. SumOver(W1, Peers) = SumOver(W, Peers) - W[p] + W1[p]
  <2>1. \A q \in Peers : W[q] \in Nat /\ W1[q] \in Nat
    BY <1>2, <1>3
  <2>2. \A q \in Peers \ {p} : W[q] = W1[q]
    BY <1>4
  <2> QED
    BY <1>1, <2>1, <2>2, SumUpdate, SMTT(20)
<1>10. SumOver(S1, Peers) = SumOver(S, Peers) - S[p] + S1[p]
  <2>1. \A q \in Peers : S[q] \in Nat /\ S1[q] \in Nat
    BY <1>2, <1>3
  <2>2. \A q \in Peers \ {p} : S[q] = S1[q]
    BY <1>4
  <2> QED
    BY <1>1, <2>1, <2>2, SumUpdate, SMTT(20)
<1> QED
  BY <1>5, <1>6, <1>7, <1>8, <1>9, <1>10

-----------------------------------------------------------------------------
(* What an action has to show when it moves one payment. *)

LEMMA TotalTypes ==
  ASSUME Types
  PROVE  TotalPaidOut \in Nat /\ TotalWritten \in Nat /\ Withdrawing \in Nat
<1>1. IsFiniteSet(Beneficiaries)
  BY ChequesAssumption
<1>2. \A b \in Beneficiaries : paidOut[b] \in Nat /\ issued[b] \in Nat
  BY DEF Types
<1>3. TotalPaidOut \in Nat /\ TotalWritten \in Nat
  BY <1>1, <1>2, SumType DEF TotalPaidOut, TotalWritten
<1>4. withdrawal.amount \in Nat
  BY DEF Types
<1> QED
  BY <1>3, <1>4 DEF Withdrawing

\* The tokens that count as uncounted are those of Promised.
LEMMA UncountedIsPromised ==
  ASSUME payment \in [Peers -> PaymentRecord], Reservation
  PROVE  Uncounted = SumPromised
<1> DEFINE T == [p \in Peers |-> payment[p].tokens]
           A == {p \in Peers : payment[p].stage \in {"reserved", "signed", "written", "saved"}}
           C == {p \in Peers : payment[p].stage = "counted"}
           H == [p \in Peers |-> Held(p)]
           P == [p \in Peers |-> Promised(p)]
<1>1. IsFiniteSet(Peers)
  BY ChequesAssumption
<1>2. A \in SUBSET Peers /\ C \in SUBSET Peers /\ A \cap C = {} /\ A \cup C \in SUBSET Peers
  OBVIOUS
<1>3. IsFiniteSet(A) /\ IsFiniteSet(C)
  BY <1>1, <1>2, FS_Subset
<1>4. \A p \in Peers : T[p] \in Nat
  BY PaymentTypes
<1>5. \A p \in Peers : H[p] = IF p \in A \cup C THEN T[p] ELSE 0
  BY DEF Held
<1>6. \A p \in Peers : P[p] = IF p \in A THEN T[p] ELSE 0
  BY DEF Promised
<1>7. Uncounted = reserved - SumOver(T, C) /\ SumHeld = SumOver(H, Peers)
      /\ SumPromised = SumOver(P, Peers)
  BY DEF Uncounted, SumHeld, SumPromised
<1> HIDE DEF T, A, C, H, P
<1>8. SumOver(T, A \cup C) = SumOver(H, Peers)
  BY <1>2, <1>5, SumOfPart, SMTT(20)
<1>9. SumOver(T, A) = SumOver(P, Peers)
  BY <1>2, <1>6, SumOfPart, SMTT(20)
<1>10. SumOver(T, A \cup C) = SumOver(T, A) + SumOver(T, C)
  <2>1. \A p \in A \cup C : T[p] \in Nat
    BY <1>2, <1>4
  <2> QED
    BY <1>2, <1>3, <2>1, SumDisjoint
<1>11. SumOver(T, A) \in Nat /\ SumOver(T, C) \in Nat
  BY <1>2, <1>3, <1>4, SumType
<1> QED
  BY <1>7, <1>8, <1>9, <1>10, <1>11, SMTT(20) DEF Reservation

LEMMA CoverStep ==
  ASSUME Types, Types', Cover,
         NEW p \in Peers, \A q \in Peers \ {p} : payment'[q] = payment[q],
         balance' = balance, paidOut' = paidOut, withdrawal' = withdrawal,
         totalIssued' + Promised(p)' + excess <= totalIssued + Promised(p) + excess'
  PROVE  Cover'
<1>1. /\ payment \in [Peers -> PaymentRecord] /\ payment' \in [Peers -> PaymentRecord]
      /\ totalIssued \in Nat /\ totalIssued' \in Nat /\ excess \in Nat /\ excess' \in Nat
      /\ balance \in Nat
  BY DEF Types
<1>2. SumPromised' = SumPromised - Promised(p) + Promised(p)'
  BY <1>1, SumsOfStep
<1>3. SumPromised \in Nat /\ Promised(p) \in Nat
  BY <1>1, SumTypes, PartTypes
<1>4. Promised(p)' \in Nat
  BY <1>1, PaymentTypes DEF Promised
<1>5. TotalPaidOut \in Nat /\ Withdrawing \in Nat
  BY TotalTypes
<1>6. TotalPaidOut' = TotalPaidOut /\ Withdrawing' = Withdrawing
  BY DEF TotalPaidOut, Withdrawing
<1> QED
  BY <1>1, <1>2, <1>3, <1>4, <1>5, <1>6, SMTT(20) DEF Cover

LEMMA MoneyStep ==
  ASSUME Types, Types', Reservation, WrittenCounted,
         NEW p \in Peers, \A q \in Peers \ {p} : payment'[q] = payment[q],
         reserved' = reserved - Held(p) + Held(p)',
         TotalWritten' + totalIssued + LostCount(p) + lost
           <= TotalWritten + totalIssued' + LostCount(p)' + lost'
  PROVE  Reservation' /\ WrittenCounted'
<1>1. /\ payment \in [Peers -> PaymentRecord] /\ payment' \in [Peers -> PaymentRecord]
      /\ totalIssued \in Nat /\ totalIssued' \in Nat /\ lost \in Nat /\ lost' \in Nat
  BY DEF Types
<1>2. /\ SumHeld' = SumHeld - Held(p) + Held(p)'
      /\ SumWritten' = SumWritten - LostCount(p) + LostCount(p)'
  BY <1>1, SumsOfStep
<1>3. SumWritten \in Nat /\ LostCount(p) \in Nat
  BY <1>1, SumTypes, PartTypes
<1>4. LostCount(p)' \in Nat
  BY <1>1, PaymentTypes DEF LostCount
<1>5. TotalWritten \in Nat
  BY TotalTypes
<1>6. TotalWritten' \in Nat
  <2>1. \A b \in Beneficiaries : issued'[b] \in Nat
    BY SMTT(20) DEF Types
  <2> QED
    BY <2>1, ChequesAssumption, SumType DEF TotalWritten
<1>7. Reservation'
  BY <1>2 DEF Reservation
<1>8. WrittenCounted'
  BY <1>1, <1>2, <1>3, <1>4, <1>5, <1>6, SMTT(20) DEF WrittenCounted
<1> QED
  BY <1>7, <1>8

LEMMA AccountedType ==
  ASSUME Types, NEW b \in Beneficiaries
  PROVE  Accounted(b) \in Nat
<1>1. SumSaved(b) \in Nat
  BY SumTypes DEF Types
<1> QED
  BY <1>1, SMTT(20) DEF Accounted, Types

\* The numbers stay right when a payment moves that neither signs nor saves.
LEMMA NumbersKept ==
  ASSUME Types, Started, NumberBounds, NumbersExact,
         NEW p \in Peers, \A q \in Peers \ {p} : payment'[q] = payment[q],
         lastCheque' = lastCheque, issued' = issued, shared' = shared,
         \A b \in Beneficiaries : Accounted(b)' = Accounted(b),
         payment'[p].stage \notin {"signed", "written"},
         payment'[p].beneficiary \in {payment[p].beneficiary, "none"}
  PROVE  NumberBounds' /\ NumbersExact'
<1>1. \A q \in Peers \ {p} :
        payment'[q].stage \in {"signed", "written"} => payment[q].beneficiary \in Beneficiaries
  BY DEF Started
<1>2. NumberBounds'
  BY <1>1 DEF NumberBounds
<1>3. "none" \notin Beneficiaries
  BY ChequesAssumption
<1>4. NumbersExact'
  BY <1>3, SMTT(20) DEF NumbersExact
<1> QED
  BY <1>2, <1>4

-----------------------------------------------------------------------------
(* The steps of a payment. *)

\* Steps of a payment leave the cashouts alone.
LEMMA CashoutsKept ==
  ASSUME Cashouts, UNCHANGED <<cashout, cashing, paidOut, bounced, received>>
  PROVE  Cashouts'
  BY DEF Cashouts

\* A payment that goes on keeps its beneficiary and its tokens.
LEMMA StartedKept ==
  ASSUME Started, NEW p \in Peers, \A q \in Peers \ {p} : payment'[q] = payment[q],
         \/ payment'[p].stage = "idle" /\ payment'[p].beneficiary = "none"
         \/ /\ payment[p].stage # "idle" /\ payment'[p].stage # "idle"
            /\ payment'[p].beneficiary = payment[p].beneficiary
            /\ payment'[p].tokens = payment[p].tokens
  PROVE  Started'
  BY DEF Started

\* What accounting knows of changes as the tokens of one payment do.
LEMMA AccountedStep ==
  ASSUME Types, Types', NEW p \in Peers, \A q \in Peers \ {p} : payment'[q] = payment[q],
         NEW b \in Beneficiaries, NEW x \in Nat,
         paid'[b] + strayed'[b] + SavedFor(p, b)' = paid[b] + strayed[b] + SavedFor(p, b) + x
  PROVE  Accounted(b)' = Accounted(b) + x
<1>1. /\ payment \in [Peers -> PaymentRecord] /\ payment' \in [Peers -> PaymentRecord]
      /\ paid[b] \in Nat /\ strayed[b] \in Nat /\ paid'[b] \in Nat /\ strayed'[b] \in Nat
  BY DEF Types
<1>2. SumSaved(b)' = SumSaved(b) - SavedFor(p, b) + SavedFor(p, b)'
  BY <1>1, SumsOfStep
<1>3. SumSaved(b) \in Nat /\ SavedFor(p, b) \in Nat
  BY <1>1, SumTypes, PartTypes
<1>4. SavedFor(p, b)' \in Nat
  BY <1>1, PaymentTypes DEF SavedFor, LostSave
<1> QED
  BY <1>1, <1>2, <1>3, <1>4, SMTT(20) DEF Accounted

\* The steps that write and save nothing: what they have to show.
LEMMA SimpleStep ==
  ASSUME IInv, Types', NEW p \in Peers, \A q \in Peers \ {p} : payment'[q] = payment[q],
         \/ payment'[p].stage = "idle" /\ payment'[p].beneficiary = "none"
         \/ /\ payment[p].stage # "idle"
            /\ payment'[p].stage \notin {"idle", "signed", "written"}
            /\ payment'[p].beneficiary = payment[p].beneficiary
            /\ payment'[p].tokens = payment[p].tokens,
         UNCHANGED <<lastCheque, issued, shared, balance, paidOut, withdrawal, cashout, cashing,
                     bounced, received>>,
         reserved' = reserved - Held(p) + Held(p)',
         Cover',
         totalIssued + LostCount(p) + lost <= totalIssued' + LostCount(p)' + lost',
         \A b \in Beneficiaries :
           paid'[b] + strayed'[b] + SavedFor(p, b)' = paid[b] + strayed[b] + SavedFor(p, b)
  PROVE  IInv'
<1> USE DEF IInv
<1>1. Started'
  BY StartedKept
<1>2. \A b \in Beneficiaries : Accounted(b)' = Accounted(b)
  <2> TAKE b \in Beneficiaries
  <2>1. /\ paid[b] \in Nat /\ strayed[b] \in Nat /\ SavedFor(p, b) \in Nat /\ Accounted(b) \in Nat
    BY PartTypes, AccountedType DEF Types
  <2>2. paid'[b] + strayed'[b] + SavedFor(p, b)' = paid[b] + strayed[b] + SavedFor(p, b) + 0
    BY <2>1, SMTT(20)
  <2>3. Accounted(b)' = Accounted(b) + 0
    BY <2>2, AccountedStep
  <2> QED
    BY <2>1, <2>3, SMTT(20)
<1>3. NumberBounds' /\ NumbersExact'
  <2>1. payment'[p].stage \notin {"signed", "written"}
    OBVIOUS
  <2>2. payment'[p].beneficiary \in {payment[p].beneficiary, "none"}
    OBVIOUS
  <2> QED
    BY <1>2, <2>1, <2>2, NumbersKept
<1>4. Reservation' /\ WrittenCounted'
  <2>1. TotalWritten' = TotalWritten
    BY DEF TotalWritten
  <2>2. /\ TotalWritten \in Nat /\ LostCount(p) \in Nat /\ LostCount(p)' \in Nat
    BY TotalTypes, PartTypes, PaymentTypes DEF Types, LostCount
  <2>3. TotalWritten' + totalIssued + LostCount(p) + lost
          <= TotalWritten + totalIssued' + LostCount(p)' + lost'
    BY <2>1, <2>2, SMTT(20) DEF Types
  <2> QED
    BY <2>3, MoneyStep
<1>5. Cashouts'
  BY CashoutsKept
<1> QED
  BY <1>1, <1>3, <1>4, <1>5

LEMMA PayKeepsInv ==
  ASSUME IInv, NEW p \in Peers, NEW amount \in Amounts, Pay(p, amount)
  PROVE  IInv'
<1> DEFINE b == book.beneficiary[p]
           d == IF deductedFor[b] THEN 0 ELSE Deduction
           r == [stage |-> "negotiated", beneficiary |-> b, tokens |-> amount * ExchangeRate + d,
                 deduction |-> d, cumulative |-> 0, seen |-> 0]
<1> USE DEF IInv
<1>1. /\ b \in Beneficiaries /\ d \in Nat /\ d <= Deduction /\ amount * ExchangeRate \in Nat
      /\ Deduction \in Nat
  BY ChequesAssumption, SMTT(20) DEF Pay, Types
<1>2. /\ r.stage = "negotiated" /\ r.beneficiary = b /\ r.deduction = d
      /\ r.tokens = amount * ExchangeRate + d /\ r.cumulative = 0 /\ r.seen = 0
      /\ r \in PaymentRecord
  BY <1>1, SMTT(20) DEF NoPayment, PaymentRecord, Stages
<1>3. payment' = [payment EXCEPT ![p] = r] /\ payment[p].stage = "idle"
  BY DEF Pay
<1> HIDE DEF r
<1>4. /\ payment' \in [Peers -> PaymentRecord] /\ payment'[p] = r
      /\ \A q \in Peers \ {p} : payment'[q] = payment[q]
  BY <1>2, <1>3 DEF Types
<1>5. Types'
  BY <1>4 DEF Types, Pay, chequebook, receiver, chain
<1>6. Started'
  <2>1. \A q \in Peers \ {p} : Started => (IF payment'[q].stage = "idle" THEN payment'[q].beneficiary = "none"
                                 ELSE /\ payment'[q].beneficiary \in Beneficiaries
                                      /\ \E a \in Amounts : payment'[q].tokens <= a * ExchangeRate + Deduction)
    BY <1>4 DEF Started
  <2>2. payment'[p].tokens <= amount * ExchangeRate + Deduction
    BY <1>1, <1>2, <1>4, SMTT(20)
  <2> QED
    BY <1>1, <1>2, <1>4, <2>1, <2>2 DEF Started
<1>7. /\ Held(p) = 0 /\ Held(p)' = 0 /\ Promised(p) = 0 /\ Promised(p)' = 0
      /\ LostCount(p) = 0 /\ LostCount(p)' = 0 /\ LostSave(p) = 0 /\ LostSave(p)' = 0
  BY <1>2, <1>3, <1>4 DEF Held, Promised, LostCount, LostSave
<1>8. Reservation' /\ Cover' /\ WrittenCounted'
  <2>1. /\ balance' = balance /\ paidOut' = paidOut /\ withdrawal' = withdrawal
        /\ reserved' = reserved /\ totalIssued' = totalIssued /\ excess' = excess
        /\ lost' = lost /\ issued' = issued
    BY DEF Pay, chequebook, chain
  <2>2. TotalWritten' = TotalWritten
    BY <2>1 DEF TotalWritten
  <2>3. TotalWritten \in Nat
    BY TotalTypes, SMTT(20)
  <2>4. /\ reserved' = reserved - Held(p) + Held(p)'
        /\ totalIssued' + Promised(p)' + excess <= totalIssued + Promised(p) + excess'
        /\ TotalWritten' + totalIssued + LostCount(p) + lost
             <= TotalWritten + totalIssued' + LostCount(p)' + lost'
    BY <1>7, <2>1, <2>2, <2>3, SMTT(20) DEF Types
  <2> QED
    BY <1>4, <1>5, <2>1, <2>4, MoneyStep, CoverStep
<1>9. /\ lastCheque' = lastCheque /\ issued' = issued /\ paid' = paid /\ strayed' = strayed
      /\ shared \subseteq shared'
      /\ (\E q \in Peers : payment[q].beneficiary = b) => b \in shared'
  BY DEF Pay, chequebook
<1>10. \A c \in Beneficiaries : Accounted(c)' = Accounted(c)
  <2> TAKE c \in Beneficiaries
  <2>1. SumSaved(c)' = SumSaved(c) - SavedFor(p, c) + SavedFor(p, c)'
    BY <1>4, SumsOfStep DEF Types
  <2>2. SavedFor(p, c) = 0 /\ SavedFor(p, c)' = 0
    BY <1>7 DEF SavedFor
  <2>3. SumSaved(c) \in Nat
    BY SumTypes DEF Types
  <2> QED
    BY <1>9, <2>1, <2>2, <2>3, SMTT(20) DEF Accounted
<1>11. NumberBounds'
  BY <1>2, <1>4, <1>9, <1>10 DEF NumberBounds, Started
<1>12. NumbersExact'
  <2>1. \A q \in Peers \ {p} : payment[q].beneficiary = b => b \in shared'
    BY <1>9
  <2> QED
    BY <1>2, <1>4, <1>9, <1>10, <2>1, SMTT(20) DEF NumbersExact
<1>13. Cashouts'
  BY CashoutsKept DEF Pay, receiver, chain
<1> QED
  BY <1>5, <1>6, <1>8, <1>11, <1>12, <1>13

LEMMA ReadBalanceKeepsInv ==
  ASSUME IInv, NEW p \in Peers, ReadBalance(p)
  PROVE  IInv'
<1> USE DEF IInv
<1>1. /\ payment' \in [Peers -> PaymentRecord]
      /\ \A q \in Peers \ {p} : payment'[q] = payment[q]
      /\ payment[p].stage = "negotiated" /\ payment'[p].stage = "checking"
      /\ payment'[p].beneficiary = payment[p].beneficiary
      /\ payment'[p].tokens = payment[p].tokens
  <2>1. payment[p] \in PaymentRecord /\ balance \in Nat
    BY PaymentTypes DEF Types
  <2> QED
    BY <2>1, ZenonT(40) DEF ReadBalance, Types, PaymentRecord, Stages
<1>2. Types'
  BY <1>1 DEF Types, ReadBalance, receiver, chain, history
<1>3. /\ Held(p) = 0 /\ Held(p)' = 0 /\ Promised(p) = 0 /\ Promised(p)' = 0
      /\ LostCount(p) = 0 /\ LostCount(p)' = 0 /\ LostSave(p) = 0 /\ LostSave(p)' = 0
  BY <1>1 DEF Held, Promised, LostCount, LostSave
<1>4. /\ reserved' = reserved - Held(p) + Held(p)'
      /\ totalIssued' + Promised(p)' + excess <= totalIssued + Promised(p) + excess'
      /\ totalIssued + LostCount(p) + lost <= totalIssued' + LostCount(p)' + lost'
  BY <1>3, SMTT(20) DEF Types, ReadBalance, history
<1>5. \A b \in Beneficiaries :
        paid'[b] + strayed'[b] + SavedFor(p, b)' = paid[b] + strayed[b] + SavedFor(p, b)
  BY <1>3 DEF ReadBalance, history, SavedFor
<1>6. UNCHANGED <<lastCheque, issued, shared, balance, paidOut, withdrawal, cashout, cashing,
                  bounced, received>>
  BY DEF ReadBalance, receiver, chain, history
<1>7. Cover'
  BY <1>1, <1>2, <1>4, <1>6, CoverStep
<1> QED
  BY <1>1, <1>2, <1>4, <1>5, <1>6, <1>7, SimpleStep

LEMMA ReserveKeepsInv ==
  ASSUME IInv, NEW p \in Peers, ReserveTotalIssued(p)
  PROVE  IInv'
<1> DEFINE estimate == AvailableToIssue(p)
<1> USE DEF IInv
<1>1. /\ payment[p] \in PaymentRecord /\ payment[p].stage = "checking" /\ payment[p].seen \in Nat
      /\ payment[p].tokens \in Nat
  BY PaymentTypes DEF Types, ReserveTotalIssued
<1>2. /\ TotalPaidOut \in Nat /\ Withdrawing \in Nat /\ SumPromised \in Nat
      /\ balance \in Nat /\ totalIssued \in Nat /\ excess \in Nat /\ reserved \in Nat
  BY TotalTypes, SumTypes DEF Types
<1>3. TrulyAvailable = balance + TotalPaidOut - Withdrawing - totalIssued - SumPromised
  BY UncountedIsPromised DEF TrulyAvailable, Types
<1>4. UNCHANGED <<lastCheque, issued, shared, balance, paidOut, withdrawal, cashout, cashing,
                  bounced, received>>
  BY DEF ReserveTotalIssued, receiver, chain
<1>5. /\ totalIssued' = totalIssued /\ lost' = lost /\ paid' = paid /\ strayed' = strayed
  BY DEF ReserveTotalIssued
<1>6. CASE payment[p].tokens <= estimate
  <2>1. /\ reserved' = reserved + payment[p].tokens
        /\ payment' = [payment EXCEPT ![p].stage = "reserved"]
        /\ excess' = excess + Mistake(estimate)
    BY <1>6 DEF ReserveTotalIssued, AvailableToIssue
  <2>2. /\ payment' \in [Peers -> PaymentRecord]
        /\ \A q \in Peers \ {p} : payment'[q] = payment[q]
        /\ payment'[p].stage = "reserved"
        /\ payment'[p].beneficiary = payment[p].beneficiary
        /\ payment'[p].tokens = payment[p].tokens
    BY <1>1, <2>1, ZenonT(40) DEF Types, PaymentRecord, Stages
  <2>3. estimate \in Int
    BY <1>1, <1>2, SMTT(20) DEF AvailableToIssue
  <2> HIDE DEF estimate
  <2>4. Mistake(estimate) \in Nat /\ estimate - TrulyAvailable <= Mistake(estimate)
    BY <1>2, <1>3, <2>3, SMTT(20) DEF Mistake
  <2>5. Types'
    <3>1. reserved' \in Nat /\ excess' \in Nat
      BY <1>1, <1>2, <2>1, <2>4, SMTT(20)
    <3>2. /\ lock' = "none" /\ wallet' = wallet /\ depositing' = depositing /\ book' = book
          /\ wire' = wire
      BY DEF ReserveTotalIssued, chain
    <3> QED
      BY <1>4, <1>5, <2>2, <3>1, <3>2 DEF Types
  <2>6. /\ Held(p) = 0 /\ Held(p)' = payment[p].tokens
        /\ Promised(p) = 0 /\ Promised(p)' = payment[p].tokens
        /\ LostCount(p) = 0 /\ LostCount(p)' = 0 /\ LostSave(p) = 0 /\ LostSave(p)' = 0
    BY <1>1, <2>2 DEF Held, Promised, LostCount, LostSave
  <2>7. SumPromised' = SumPromised + payment[p].tokens
    <3>1. payment \in [Peers -> PaymentRecord]
      BY DEF Types
    <3>2. SumPromised' = SumPromised - Promised(p) + Promised(p)'
      BY <2>2, <3>1, SumsOfStep
    <3> QED
      BY <1>1, <1>2, <2>6, <3>2, SMTT(20)
  <2>8. TotalPaidOut' = TotalPaidOut /\ Withdrawing' = Withdrawing
    BY <1>4, SMTT(20) DEF TotalPaidOut, Withdrawing
  <2>9. Cover'
    BY <1>1, <1>2, <1>3, <1>4, <1>5, <1>6, <2>1, <2>3, <2>4, <2>7, <2>8, SMTT(20) DEF Cover
  <2>10. /\ reserved' = reserved - Held(p) + Held(p)'
         /\ totalIssued + LostCount(p) + lost <= totalIssued' + LostCount(p)' + lost'
    BY <1>1, <1>2, <1>5, <2>1, <2>6, SMTT(20) DEF Types
  <2>11. \A b \in Beneficiaries :
           paid'[b] + strayed'[b] + SavedFor(p, b)' = paid[b] + strayed[b] + SavedFor(p, b)
    BY <1>5, <2>6 DEF SavedFor
  <2> QED
    BY <1>1, <1>4, <2>2, <2>5, <2>9, <2>10, <2>11, SimpleStep
<1>7. CASE ~(payment[p].tokens <= estimate)
  <2>1. reserved' = reserved /\ payment' = [payment EXCEPT ![p] = NoPayment] /\ excess' = excess
    BY <1>7 DEF ReserveTotalIssued
  <2> HIDE DEF estimate
  <2>2. /\ payment' \in [Peers -> PaymentRecord]
        /\ \A q \in Peers \ {p} : payment'[q] = payment[q]
        /\ payment'[p].stage = "idle" /\ payment'[p].beneficiary = "none"
    BY <2>1, SMTT(20) DEF Types, PaymentRecord, Stages, NoPayment
  <2>3. Types'
    BY <2>1, <2>2 DEF Types, ReserveTotalIssued, receiver, chain
  <2>4. /\ Held(p) = 0 /\ Held(p)' = 0 /\ Promised(p) = 0 /\ Promised(p)' = 0
        /\ LostCount(p) = 0 /\ LostCount(p)' = 0 /\ LostSave(p) = 0 /\ LostSave(p)' = 0
    BY <1>1, <2>2 DEF Held, Promised, LostCount, LostSave
  <2>5. /\ reserved' = reserved - Held(p) + Held(p)'
        /\ totalIssued' + Promised(p)' + excess <= totalIssued + Promised(p) + excess'
        /\ totalIssued + LostCount(p) + lost <= totalIssued' + LostCount(p)' + lost'
    BY <1>2, <1>5, <2>1, <2>4, SMTT(20) DEF Types
  <2>6. \A b \in Beneficiaries :
          paid'[b] + strayed'[b] + SavedFor(p, b)' = paid[b] + strayed[b] + SavedFor(p, b)
    BY <1>5, <2>4 DEF SavedFor
  <2>7. Cover'
    BY <1>4, <2>2, <2>3, <2>5, CoverStep
  <2> QED
    BY <1>4, <2>2, <2>3, <2>5, <2>6, <2>7, SimpleStep
<1> QED
  BY <1>6, <1>7

LEMMA AddTotalIssuedKeepsInv ==
  ASSUME IInv, NEW p \in Peers, AddTotalIssued(p)
  PROVE  IInv'
<1> USE DEF IInv
<1>1. /\ payment[p] \in PaymentRecord /\ payment[p].stage = "saved" /\ payment[p].tokens \in Nat
  BY PaymentTypes DEF Types, AddTotalIssued
<1>2. /\ payment' \in [Peers -> PaymentRecord]
      /\ \A q \in Peers \ {p} : payment'[q] = payment[q]
      /\ payment'[p].stage = "counted"
      /\ payment'[p].beneficiary = payment[p].beneficiary
      /\ payment'[p].tokens = payment[p].tokens
  BY <1>1, ZenonT(40) DEF AddTotalIssued, Types, PaymentRecord, Stages
<1>3. Types'
  BY <1>1, <1>2, SMTT(20) DEF Types, AddTotalIssued, receiver, chain, history
<1>4. /\ Held(p) = payment[p].tokens /\ Held(p)' = payment[p].tokens
      /\ Promised(p) = payment[p].tokens /\ Promised(p)' = 0
      /\ LostCount(p) = payment[p].tokens /\ LostCount(p)' = 0
      /\ LostSave(p) = payment[p].tokens /\ LostSave(p)' = payment[p].tokens
  BY <1>1, <1>2 DEF Held, Promised, LostCount, LostSave
<1>5. /\ reserved' = reserved - Held(p) + Held(p)'
      /\ totalIssued' + Promised(p)' + excess <= totalIssued + Promised(p) + excess'
      /\ totalIssued + LostCount(p) + lost <= totalIssued' + LostCount(p)' + lost'
  BY <1>1, <1>4, SMTT(20) DEF Types, AddTotalIssued, history
<1>6. \A b \in Beneficiaries :
        paid'[b] + strayed'[b] + SavedFor(p, b)' = paid[b] + strayed[b] + SavedFor(p, b)
  BY <1>2, <1>4 DEF AddTotalIssued, history, SavedFor
<1>7. UNCHANGED <<lastCheque, issued, shared, balance, paidOut, withdrawal, cashout, cashing,
                  bounced, received>>
  BY DEF AddTotalIssued, receiver, chain, history
<1>8. Cover'
  BY <1>2, <1>3, <1>5, <1>7, CoverStep
<1> QED
  BY <1>1, <1>2, <1>3, <1>5, <1>6, <1>7, <1>8, SimpleStep

LEMMA HeldFits ==
  ASSUME Types, Reservation, NEW p \in Peers
  PROVE  Held(p) <= reserved
<1> DEFINE H == [q \in Peers |-> Held(q)]
<1>1. IsFiniteSet(Peers) /\ \A q \in Peers : H[q] \in Nat
  BY ChequesAssumption, PartTypes DEF Types
<1>2. H[p] = Held(p) /\ reserved = SumOver(H, Peers)
  BY DEF Reservation, SumHeld
<1> HIDE DEF H
<1> QED
  BY <1>1, <1>2, SumRemove

\* The end of a payment that holds a reservation.
LEMMA UnreserveFacts ==
  ASSUME Types, Started, Reservation, NEW p \in Peers,
         payment[p].stage \in {"signed", "written", "saved", "counted"}, Unreserve(p)
  PROVE  /\ payment' \in [Peers -> PaymentRecord] /\ payment'[p] = NoPayment
         /\ payment'[p].stage = "idle" /\ payment'[p].beneficiary = "none"
         /\ \A q \in Peers \ {p} : payment'[q] = payment[q]
         /\ reserved' \in Nat /\ reserved' = reserved - Held(p) + Held(p)'
         /\ Promised(p)' = 0 /\ LostCount(p)' = 0
         /\ \A b : SavedFor(p, b)' = 0
         /\ payment[p].tokens \in Nat /\ payment[p].beneficiary \in Beneficiaries
<1>1. NoPayment \in PaymentRecord /\ NoPayment.stage = "idle" /\ NoPayment.beneficiary = "none"
  BY DEF NoPayment, PaymentRecord, Stages
<1>2. /\ payment' = [payment EXCEPT ![p] = NoPayment] /\ reserved' = reserved - payment[p].tokens
  BY DEF Unreserve
<1>3. /\ payment' \in [Peers -> PaymentRecord] /\ payment'[p] = NoPayment
      /\ \A q \in Peers \ {p} : payment'[q] = payment[q]
  BY <1>1, <1>2 DEF Types
<1>4. Held(p) = payment[p].tokens /\ payment[p].tokens \in Nat /\ reserved \in Nat
  BY PaymentTypes DEF Held, Types
<1>5. Held(p) <= reserved
  BY HeldFits
<1>6. Held(p)' = 0 /\ Promised(p)' = 0 /\ LostCount(p)' = 0 /\ LostSave(p)' = 0
  BY <1>1, <1>3 DEF Held, Promised, LostCount, LostSave
<1>7. payment[p].beneficiary \in Beneficiaries
  BY DEF Started
<1>8. \A b : SavedFor(p, b)' = 0
  BY <1>6 DEF SavedFor
<1> QED
  BY <1>1, <1>2, <1>3, <1>4, <1>5, <1>6, <1>7, <1>8, SMTT(20)

LEMMA FinishPaymentKeepsInv ==
  ASSUME IInv, NEW p \in Peers, FinishPayment(p)
  PROVE  IInv'
<1> DEFINE b == payment[p].beneficiary
<1> USE DEF IInv
<1>1. payment[p].stage = "counted" /\ Unreserve(p)
  BY DEF FinishPayment
<1>2. /\ payment' \in [Peers -> PaymentRecord]
      /\ payment'[p].stage = "idle" /\ payment'[p].beneficiary = "none"
      /\ \A q \in Peers \ {p} : payment'[q] = payment[q]
      /\ reserved' \in Nat /\ reserved' = reserved - Held(p) + Held(p)'
      /\ Promised(p)' = 0 /\ LostCount(p)' = 0
      /\ \A c : SavedFor(p, c)' = 0
      /\ payment[p].tokens \in Nat /\ b \in Beneficiaries
  BY <1>1, UnreserveFacts
<1>3. Promised(p) = 0 /\ LostCount(p) = 0 /\ LostSave(p) = payment[p].tokens
  BY <1>1 DEF Promised, LostCount, LostSave
<1>4. paid' = [paid EXCEPT ![b] = @ + payment[p].tokens] /\ paid' \in [Beneficiaries -> Nat]
  BY <1>2, SMTT(20) DEF FinishPayment, Types
<1>5. Types'
  BY <1>2, <1>4 DEF Types, FinishPayment, receiver, chain
<1>6. UNCHANGED <<lastCheque, issued, shared, balance, paidOut, withdrawal, cashout, cashing,
                  bounced, received, totalIssued, excess, lost, strayed>>
  BY DEF FinishPayment, receiver, chain
<1>7. /\ totalIssued' + Promised(p)' + excess <= totalIssued + Promised(p) + excess'
      /\ totalIssued + LostCount(p) + lost <= totalIssued' + LostCount(p)' + lost'
  BY <1>2, <1>3, <1>6, SMTT(20) DEF Types
<1>8. \A c \in Beneficiaries :
        paid'[c] + strayed'[c] + SavedFor(p, c)' = paid[c] + strayed[c] + SavedFor(p, c)
  BY <1>2, <1>3, <1>4, <1>6, SMTT(20) DEF SavedFor, Types
<1>9. Cover'
  BY <1>2, <1>5, <1>6, <1>7, CoverStep
<1> QED
  BY <1>2, <1>5, <1>6, <1>7, <1>8, <1>9, SimpleStep, SMTT(20)

LEMMA PutFailsKeepsInv ==
  ASSUME IInv, NEW p \in Peers, PutFails(p)
  PROVE  IInv'
<1> DEFINE b == payment[p].beneficiary
<1> USE DEF IInv
<1>1. payment[p].stage \in {"written", "saved", "counted"} /\ Unreserve(p)
  BY DEF PutFails
<1>2. /\ payment' \in [Peers -> PaymentRecord]
      /\ payment'[p].stage = "idle" /\ payment'[p].beneficiary = "none"
      /\ \A q \in Peers \ {p} : payment'[q] = payment[q]
      /\ reserved' \in Nat /\ reserved' = reserved - Held(p) + Held(p)'
      /\ Promised(p)' = 0 /\ LostCount(p)' = 0
      /\ \A c : SavedFor(p, c)' = 0
      /\ payment[p].tokens \in Nat /\ b \in Beneficiaries
  BY <1>1, UnreserveFacts
<1>3. Promised(p) \in Nat /\ LostCount(p) \in Nat /\ LostSave(p) \in Nat
  BY PartTypes DEF Types
<1>4. /\ strayed' = [strayed EXCEPT ![b] = @ + LostSave(p)] /\ lost' = lost + LostCount(p)
      /\ strayed' \in [Beneficiaries -> Nat] /\ lost' \in Nat
  BY <1>2, <1>3, SMTT(20) DEF PutFails, Types
<1>5. Types'
  BY <1>2, <1>4 DEF Types, PutFails, receiver, chain
<1>6. UNCHANGED <<lastCheque, issued, shared, balance, paidOut, withdrawal, cashout, cashing,
                  bounced, received, totalIssued, excess, paid>>
  BY DEF PutFails, receiver, chain
<1>7. /\ totalIssued' + Promised(p)' + excess <= totalIssued + Promised(p) + excess'
      /\ totalIssued + LostCount(p) + lost <= totalIssued' + LostCount(p)' + lost'
  BY <1>2, <1>3, <1>4, <1>6, SMTT(20) DEF Types
<1>8. \A c \in Beneficiaries :
        paid'[c] + strayed'[c] + SavedFor(p, c)' = paid[c] + strayed[c] + SavedFor(p, c)
  BY <1>2, <1>3, <1>4, <1>6, SMTT(20) DEF SavedFor, Types
<1>9. Cover'
  BY <1>2, <1>5, <1>6, <1>7, CoverStep
<1> QED
  BY <1>2, <1>5, <1>6, <1>7, <1>8, <1>9, SimpleStep

LEMMA SignChequeKeepsInv ==
  ASSUME IInv, NEW p \in Peers, SignCheque(p)
  PROVE  IInv'
<1> DEFINE b == payment[p].beneficiary
           c == lastCheque[b] + payment[p].tokens
<1> USE DEF IInv
<1>1. /\ payment[p] \in PaymentRecord /\ payment[p].stage = "reserved"
      /\ payment[p].tokens \in Nat /\ b \in Beneficiaries /\ c \in Nat
  BY PaymentTypes, SMTT(20) DEF Types, SignCheque, Started
<1>2. payment' = [payment EXCEPT ![p].stage = "signed", ![p].cumulative = c]
  BY DEF SignCheque, CumulativePayout
<1>3. /\ payment' \in [Peers -> PaymentRecord]
      /\ \A q \in Peers \ {p} : payment'[q] = payment[q]
      /\ payment'[p].stage = "signed" /\ payment'[p].cumulative = c
      /\ payment'[p].beneficiary = b /\ payment'[p].tokens = payment[p].tokens
  <2> HIDE DEF c
  <2> QED
    BY <1>1, <1>2, ZenonT(40) DEF Types, PaymentRecord, Stages
<1>4. UNCHANGED <<lastCheque, totalIssued, reserved, lock, book, wire, received, cashout, cashing,
                  balance, paidOut, wallet, depositing, withdrawal, issued, paid, strayed, shared,
                  excess, lost, bounced>>
  BY DEF SignCheque, chequebook, receiver, chain, history
<1>5. Types'
  BY <1>3, <1>4 DEF Types
<1>6. Started'
  BY <1>1, <1>3, StartedKept
<1>7. /\ Held(p) = payment[p].tokens /\ Held(p)' = payment[p].tokens
      /\ Promised(p) = payment[p].tokens /\ Promised(p)' = payment[p].tokens
      /\ LostCount(p) = 0 /\ LostCount(p)' = 0 /\ LostSave(p) = 0 /\ LostSave(p)' = 0
  BY <1>1, <1>3 DEF Held, Promised, LostCount, LostSave
<1>8. Reservation' /\ Cover' /\ WrittenCounted'
  <2>1. TotalWritten' = TotalWritten /\ TotalWritten \in Nat
    BY <1>4, TotalTypes DEF TotalWritten
  <2>2. /\ reserved' = reserved - Held(p) + Held(p)'
        /\ totalIssued' + Promised(p)' + excess <= totalIssued + Promised(p) + excess'
        /\ TotalWritten' + totalIssued + LostCount(p) + lost
             <= TotalWritten + totalIssued' + LostCount(p)' + lost'
    BY <1>1, <1>4, <1>7, <2>1, SMTT(20) DEF Types
  <2> QED
    BY <1>3, <1>4, <1>5, <2>2, MoneyStep, CoverStep
<1>9. \A a \in Beneficiaries : Accounted(a)' = Accounted(a) /\ Accounted(a) \in Nat
  <2> TAKE a \in Beneficiaries
  <2>1. SavedFor(p, a) = 0 /\ SavedFor(p, a)' = 0 /\ Accounted(a) \in Nat
    BY <1>7, AccountedType DEF SavedFor
  <2>2. paid'[a] + strayed'[a] + SavedFor(p, a)' = paid[a] + strayed[a] + SavedFor(p, a) + 0
    BY <1>4, <2>1, SMTT(20) DEF Types
  <2>3. Accounted(a)' = Accounted(a) + 0
    BY <1>3, <1>5, <2>2, AccountedStep
  <2> QED
    BY <2>1, <2>3, SMTT(20)
<1>10. NumberBounds'
  <2>1. /\ c <= issued[b] + payment[p].tokens /\ c <= Accounted(b) + payment[p].tokens
    BY <1>1, <1>9, SMTT(20) DEF NumberBounds, Types
  <2>2. \A q \in Peers \ {p} :
          payment[q].stage \in {"signed", "written"} => payment[q].beneficiary \in Beneficiaries
    BY DEF Started
  <2> HIDE DEF b, c
  <2> QED
    BY <1>1, <1>3, <1>4, <1>9, <2>1, <2>2 DEF NumberBounds
<1>11. NumbersExact'
  BY <1>1, <1>3, <1>4, <1>9, SMTT(20) DEF NumbersExact
<1>12. Cashouts'
  BY <1>4, CashoutsKept
<1> QED
  BY <1>5, <1>6, <1>8, <1>10, <1>11, <1>12

\* What a cheque on its way changes: the cheques of the beneficiary grow by its
\* payment at most, and run ahead of accounting by its payment at most.
LEMMA WrittenFacts ==
  ASSUME IInv, NEW p \in Peers, payment[p].stage = "signed", Written(p)
  PROVE  /\ wire' \in SUBSET Cheque /\ issued' \in [Beneficiaries -> Nat]
         /\ \A a \in Beneficiaries : issued[a] <= issued'[a]
         /\ TotalWritten' <= TotalWritten + payment[p].tokens
         /\ TotalWritten' \in Nat
         /\ payment[p].cumulative <= issued'[payment[p].beneficiary]
         /\ \A a \in Beneficiaries : \E amount \in Amounts :
              issued'[a] <= Accounted(a) + amount * ExchangeRate + Deduction
<1> DEFINE b == payment[p].beneficiary
           c == payment[p].cumulative
<1> USE DEF IInv
<1>1. /\ payment[p].tokens \in Nat /\ c \in Nat /\ payment[p].deduction \in Nat
      /\ b \in Beneficiaries
  BY PaymentTypes DEF Types, Started
<1>2. /\ c <= issued[b] + payment[p].tokens /\ c <= Accounted(b) + payment[p].tokens
  BY DEF NumberBounds
<1>3. PICK amount \in Amounts : payment[p].tokens <= amount * ExchangeRate + Deduction
  BY DEF Started
<1>4. issued' = [issued EXCEPT ![b] = IF c > @ THEN c ELSE @]
  BY DEF Written
<1>5. wire' \in SUBSET Cheque
  BY <1>1, SMTT(20) DEF Written, Types, Cheque
<1> HIDE DEF b, c
<1>6. /\ issued \in [Beneficiaries -> Nat] /\ issued' \in [Beneficiaries -> Nat]
      /\ \A a \in Beneficiaries : issued[a] <= issued'[a]
      /\ \A a \in Beneficiaries \ {b} : issued[a] = issued'[a]
      /\ c <= issued'[b] /\ issued'[b] <= issued[b] + payment[p].tokens
      /\ issued'[b] = c \/ issued'[b] = issued[b]
  BY <1>1, <1>2, <1>4, SMTT(20) DEF Types
<1>7. TotalWritten' = TotalWritten - issued[b] + issued'[b]
  <2>1. \A a \in Beneficiaries : issued[a] \in Nat /\ issued'[a] \in Nat
    BY <1>6
  <2> QED
    BY <1>1, <1>6, <2>1, ChequesAssumption, SumUpdate, SMTT(20) DEF TotalWritten
<1>8. TotalWritten \in Nat
  BY TotalTypes
<1>9. TotalWritten' \in Nat
  <2>1. \A a \in Beneficiaries : issued'[a] \in Nat
    BY <1>6
  <2> QED
    BY <2>1, ChequesAssumption, SumType DEF TotalWritten
<1>10. TotalWritten' <= TotalWritten + payment[p].tokens
  <2>1. issued[b] \in Nat /\ issued'[b] \in Nat
    BY <1>1, <1>6
  <2> QED
    BY <1>1, <1>6, <1>7, <1>8, <2>1, SMTT(20)
<1>11. \A a \in Beneficiaries : \E m \in Amounts :
         issued'[a] <= Accounted(a) + m * ExchangeRate + Deduction
  <2>1. CASE issued'[b] = c
    <3>1. Accounted(b) \in Nat /\ amount * ExchangeRate \in Nat /\ Deduction \in Nat
      BY <1>1, AccountedType, ChequesAssumption, SMTT(20)
    <3>2. issued'[b] <= Accounted(b) + amount * ExchangeRate + Deduction
      BY <1>1, <1>2, <1>3, <2>1, <3>1, SMTT(20)
    <3> QED
      BY <1>6, <3>2 DEF NumberBounds
  <2>2. CASE issued'[b] = issued[b]
    BY <1>6, <2>2 DEF NumberBounds
  <2> QED
    BY <1>6, <2>1, <2>2
<1> QED
  BY <1>5, <1>6, <1>9, <1>10, <1>11 DEF b, c

\* The numbers stay right when a cheque was written and its payment went on or
\* ended.
LEMMA NumbersWritten ==
  ASSUME IInv, NEW p \in Peers, payment[p].stage = "signed", Written(p),
         \A q \in Peers \ {p} : payment'[q] = payment[q],
         lastCheque' = lastCheque, shared' = shared,
         \A a \in Beneficiaries : Accounted(a)' = Accounted(a),
         \/ payment'[p].stage = "idle" /\ payment'[p].beneficiary = "none"
         \/ /\ payment'[p].stage = "written"
            /\ payment'[p].beneficiary = payment[p].beneficiary
            /\ payment'[p].tokens = payment[p].tokens
            /\ payment'[p].cumulative = payment[p].cumulative
  PROVE  NumberBounds' /\ NumbersExact'
<1> USE DEF IInv
<1>1. /\ issued \in [Beneficiaries -> Nat] /\ issued' \in [Beneficiaries -> Nat]
      /\ lastCheque \in [Beneficiaries -> Nat]
      /\ \A a \in Beneficiaries : issued[a] <= issued'[a]
      /\ payment[p].cumulative <= issued'[payment[p].beneficiary]
      /\ \A a \in Beneficiaries : \E amount \in Amounts :
           issued'[a] <= Accounted(a) + amount * ExchangeRate + Deduction
  BY WrittenFacts DEF Types
<1>2. \A a \in Beneficiaries :
        /\ lastCheque'[a] <= issued'[a]
        /\ lastCheque'[a] <= Accounted(a)'
        /\ \E amount \in Amounts : issued'[a] <= Accounted(a)' + amount * ExchangeRate + Deduction
  BY <1>1, SMTT(20) DEF NumberBounds
<1>3. \A q \in Peers :
        /\ payment[q].tokens \in Nat /\ payment[q].cumulative \in Nat
        /\ payment[q].stage \in {"signed", "written"} => payment[q].beneficiary \in Beneficiaries
  BY PaymentTypes DEF Types, Started
<1>4. \A q \in Peers, b \in Beneficiaries :
        payment'[q].stage \in {"signed", "written"} /\ payment'[q].beneficiary = b =>
          /\ payment'[q].stage = "signed" => payment'[q].cumulative <= issued'[b] + payment'[q].tokens
          /\ payment'[q].stage = "written" => payment'[q].cumulative <= issued'[b]
          /\ payment'[q].cumulative <= Accounted(b)' + payment'[q].tokens
  <2> SUFFICES ASSUME NEW q \in Peers, NEW b \in Beneficiaries,
                      payment'[q].stage \in {"signed", "written"}, payment'[q].beneficiary = b
               PROVE  /\ payment'[q].stage = "signed" =>
                           payment'[q].cumulative <= issued'[b] + payment'[q].tokens
                      /\ payment'[q].stage = "written" => payment'[q].cumulative <= issued'[b]
                      /\ payment'[q].cumulative <= Accounted(b)' + payment'[q].tokens
    OBVIOUS
  <2>1. /\ payment[q].beneficiary = b /\ payment[q].stage \in {"signed", "written"}
        /\ payment'[q].tokens = payment[q].tokens /\ payment'[q].cumulative = payment[q].cumulative
        /\ payment[q].tokens \in Nat /\ payment[q].cumulative \in Nat
    BY <1>3
  <2>2. issued[b] \in Nat /\ issued'[b] \in Nat /\ issued[b] <= issued'[b]
    BY <1>1
  <2>3. /\ payment[q].stage = "signed" => payment[q].cumulative <= issued[b] + payment[q].tokens
        /\ payment[q].stage = "written" => payment[q].cumulative <= issued[b]
        /\ payment[q].cumulative <= Accounted(b) + payment[q].tokens
    BY <2>1 DEF NumberBounds
  <2>4. CASE q = p
    BY <1>1, <2>1, <2>3, <2>4
  <2>5. CASE q # p
    <3>1. payment'[q] = payment[q]
      BY <2>5
    <3> QED
      BY <2>1, <2>2, <2>3, <3>1, SMTT(20)
  <2> QED
    BY <2>4, <2>5
<1>5. \A q \in Peers :
        payment'[q].stage \in {"signed", "written"} => payment'[q].beneficiary \in Beneficiaries
  BY <1>3
<1>6. NumberBounds'
  BY <1>2, <1>4, <1>5 DEF NumberBounds
<1>7. "none" \notin Beneficiaries
  BY ChequesAssumption
<1>8. NumbersExact'
  BY <1>7, SMTT(20) DEF NumbersExact
<1> QED
  BY <1>6, <1>8

LEMMA SendChequeKeepsInv ==
  ASSUME IInv, NEW p \in Peers, SendCheque(p)
  PROVE  IInv'
<1> USE DEF IInv
<1>1. /\ payment[p] \in PaymentRecord /\ payment[p].stage = "signed"
      /\ payment[p].tokens \in Nat /\ Written(p)
  BY PaymentTypes DEF Types, SendCheque
<1>2. /\ payment' \in [Peers -> PaymentRecord]
      /\ \A q \in Peers \ {p} : payment'[q] = payment[q]
      /\ payment'[p].stage = "written" /\ payment'[p].cumulative = payment[p].cumulative
      /\ payment'[p].beneficiary = payment[p].beneficiary
      /\ payment'[p].tokens = payment[p].tokens
  BY <1>1, ZenonT(40) DEF SendCheque, Types, PaymentRecord, Stages
<1>3. UNCHANGED <<lastCheque, totalIssued, reserved, lock, book, received, cashout, cashing,
                  balance, paidOut, wallet, depositing, withdrawal, paid, strayed, shared,
                  excess, lost, bounced>>
  BY DEF SendCheque, chequebook, receiver, chain
<1>4. /\ wire' \in SUBSET Cheque /\ issued' \in [Beneficiaries -> Nat]
      /\ TotalWritten' <= TotalWritten + payment[p].tokens /\ TotalWritten' \in Nat
  BY <1>1, WrittenFacts
<1>5. Types'
  BY <1>2, <1>3, <1>4 DEF Types
<1>6. Started'
  BY <1>1, <1>2, StartedKept
<1>7. /\ Held(p) = payment[p].tokens /\ Held(p)' = payment[p].tokens
      /\ Promised(p) = payment[p].tokens /\ Promised(p)' = payment[p].tokens
      /\ LostCount(p) = 0 /\ LostCount(p)' = payment[p].tokens
      /\ LostSave(p) = 0 /\ LostSave(p)' = 0
  BY <1>1, <1>2 DEF Held, Promised, LostCount, LostSave
<1>8. Reservation' /\ Cover' /\ WrittenCounted'
  <2>1. TotalWritten \in Nat
    BY TotalTypes
  <2>2. /\ reserved' = reserved - Held(p) + Held(p)'
        /\ totalIssued' + Promised(p)' + excess <= totalIssued + Promised(p) + excess'
        /\ TotalWritten' + totalIssued + LostCount(p) + lost
             <= TotalWritten + totalIssued' + LostCount(p)' + lost'
    BY <1>1, <1>3, <1>4, <1>7, <2>1, SMTT(20) DEF Types
  <2> QED
    BY <1>2, <1>3, <1>5, <2>2, MoneyStep, CoverStep
<1>9. \A a \in Beneficiaries : Accounted(a)' = Accounted(a)
  <2> TAKE a \in Beneficiaries
  <2>1. SavedFor(p, a) = 0 /\ SavedFor(p, a)' = 0 /\ Accounted(a) \in Nat
    BY <1>7, AccountedType DEF SavedFor
  <2>2. paid'[a] + strayed'[a] + SavedFor(p, a)' = paid[a] + strayed[a] + SavedFor(p, a) + 0
    BY <1>3, <2>1, SMTT(20) DEF Types
  <2>3. Accounted(a)' = Accounted(a) + 0
    BY <1>2, <1>5, <2>2, AccountedStep
  <2> QED
    BY <2>1, <2>3, SMTT(20)
<1>10. NumberBounds' /\ NumbersExact'
  BY <1>1, <1>2, <1>3, <1>9, NumbersWritten
<1>11. Cashouts'
  BY <1>3, CashoutsKept
<1> QED
  BY <1>5, <1>6, <1>8, <1>10, <1>11

LEMMA SendFailsKeepsInv ==
  ASSUME IInv, NEW p \in Peers, SendFails(p)
  PROVE  IInv'
<1> USE DEF IInv
<1>1. payment[p].stage = "signed" /\ Unreserve(p)
  BY DEF SendFails
<1>2. /\ payment' \in [Peers -> PaymentRecord]
      /\ payment'[p].stage = "idle" /\ payment'[p].beneficiary = "none"
      /\ \A q \in Peers \ {p} : payment'[q] = payment[q]
      /\ reserved' \in Nat /\ reserved' = reserved - Held(p) + Held(p)'
      /\ Promised(p)' = 0 /\ LostCount(p)' = 0
      /\ \A c : SavedFor(p, c)' = 0
      /\ payment[p].tokens \in Nat
  BY <1>1, UnreserveFacts
<1>3. Promised(p) = payment[p].tokens /\ LostCount(p) = 0 /\ \A c : SavedFor(p, c) = 0
  BY <1>1 DEF Promised, LostCount, LostSave, SavedFor
<1>4. UNCHANGED <<lastCheque, totalIssued, lock, book, received, cashout, cashing, balance,
                  paidOut, wallet, depositing, withdrawal, paid, strayed, shared, excess, bounced>>
  BY DEF SendFails, receiver, chain
<1>5. totalIssued' + Promised(p)' + excess <= totalIssued + Promised(p) + excess'
  BY <1>2, <1>3, <1>4, SMTT(20) DEF Types
<1>6. \A b \in Beneficiaries :
        paid'[b] + strayed'[b] + SavedFor(p, b)' = paid[b] + strayed[b] + SavedFor(p, b)
  BY <1>2, <1>3, <1>4
<1>7. CASE UNCHANGED <<wire, issued, lost>>
  <2>1. Types'
    BY <1>2, <1>4, <1>7 DEF Types
  <2>2. totalIssued + LostCount(p) + lost <= totalIssued' + LostCount(p)' + lost'
    BY <1>2, <1>3, <1>4, <1>7, SMTT(20) DEF Types
  <2>3. Cover'
    BY <1>2, <1>4, <1>5, <2>1, CoverStep
  <2> QED
    BY <1>2, <1>4, <1>6, <1>7, <2>1, <2>2, <2>3, SimpleStep
<1>8. CASE Written(p) /\ lost' = lost + payment[p].tokens
  <2>1. /\ wire' \in SUBSET Cheque /\ issued' \in [Beneficiaries -> Nat]
        /\ TotalWritten' <= TotalWritten + payment[p].tokens /\ TotalWritten' \in Nat
    BY <1>1, <1>8, WrittenFacts
  <2>2. lost' \in Nat
    BY <1>2, <1>8, SMTT(20) DEF Types
  <2>3. Types'
    BY <1>2, <1>4, <2>1, <2>2 DEF Types
  <2>4. Cover'
    BY <1>2, <1>4, <1>5, <2>3, CoverStep
  <2>5. Reservation' /\ WrittenCounted'
    <3>1. TotalWritten \in Nat
      BY TotalTypes
    <3>2. TotalWritten' + totalIssued + LostCount(p) + lost
            <= TotalWritten + totalIssued' + LostCount(p)' + lost'
      BY <1>2, <1>3, <1>4, <1>8, <2>1, <3>1, SMTT(20) DEF Types
    <3> QED
      BY <1>2, <2>3, <3>2, MoneyStep
  <2>6. Started'
    BY <1>2, StartedKept
  <2>7. \A a \in Beneficiaries : Accounted(a)' = Accounted(a)
    <3> TAKE a \in Beneficiaries
    <3>1. paid[a] \in Nat /\ strayed[a] \in Nat /\ Accounted(a) \in Nat
      BY AccountedType DEF Types
    <3>2. paid'[a] + strayed'[a] + SavedFor(p, a)' = paid[a] + strayed[a] + SavedFor(p, a) + 0
      BY <1>2, <1>3, <1>4, <3>1, SMTT(20)
    <3>3. Accounted(a)' = Accounted(a) + 0
      BY <1>2, <2>3, <3>2, AccountedStep
    <3> QED
      BY <3>1, <3>3, SMTT(20)
  <2>8. NumberBounds' /\ NumbersExact'
    BY <1>1, <1>2, <1>4, <1>8, <2>7, NumbersWritten
  <2>9. Cashouts'
    BY <1>4, CashoutsKept
  <2> QED
    BY <2>3, <2>4, <2>5, <2>6, <2>8, <2>9
<1> QED
  BY <1>7, <1>8 DEF SendFails

LEMMA SaveChequeKeepsInv ==
  ASSUME IInv, NEW p \in Peers, SaveCheque(p)
  PROVE  IInv'
<1> USE DEF IInv
<1>1. /\ payment[p] \in PaymentRecord /\ payment[p].stage = "written"
      /\ payment[p].tokens \in Nat /\ payment[p].cumulative \in Nat
      /\ payment[p].beneficiary \in Beneficiaries
  BY PaymentTypes DEF Types, SaveCheque, Started
<1>2. PICK b \in Beneficiaries : b = payment[p].beneficiary
  BY <1>1
<1>3. PICK c \in Nat : c = payment[p].cumulative
  BY <1>1
<1>4. /\ payment' \in [Peers -> PaymentRecord]
      /\ \A q \in Peers \ {p} : payment'[q] = payment[q]
      /\ payment'[p].stage = "saved" /\ payment'[p].beneficiary = b
      /\ payment'[p].tokens = payment[p].tokens
  BY <1>1, <1>2, ZenonT(40) DEF SaveCheque, Types, PaymentRecord, Stages
<1>5. UNCHANGED <<totalIssued, reserved, lock, book, wire, received, cashout, cashing, balance,
                  paidOut, wallet, depositing, withdrawal, issued, paid, strayed, shared, excess,
                  lost, bounced>>
  BY DEF SaveCheque, receiver, chain, history
<1>6. /\ lastCheque' \in [Beneficiaries -> Nat] /\ lastCheque'[b] = c
      /\ \A a \in Beneficiaries \ {b} : lastCheque'[a] = lastCheque[a]
  BY <1>2, <1>3 DEF SaveCheque, Types
<1>7. Types'
  BY <1>4, <1>5, <1>6 DEF Types
<1>8. Started'
  BY <1>1, <1>2, <1>4, StartedKept
<1>9. /\ Held(p) = payment[p].tokens /\ Held(p)' = payment[p].tokens
      /\ Promised(p) = payment[p].tokens /\ Promised(p)' = payment[p].tokens
      /\ LostCount(p) = payment[p].tokens /\ LostCount(p)' = payment[p].tokens
      /\ LostSave(p) = 0 /\ LostSave(p)' = payment[p].tokens
  BY <1>1, <1>4 DEF Held, Promised, LostCount, LostSave
<1>10. Reservation' /\ Cover' /\ WrittenCounted'
  <2>1. TotalWritten' = TotalWritten /\ TotalWritten \in Nat
    BY <1>5, TotalTypes DEF TotalWritten
  <2>2. /\ reserved' = reserved - Held(p) + Held(p)'
        /\ totalIssued' + Promised(p)' + excess <= totalIssued + Promised(p) + excess'
        /\ TotalWritten' + totalIssued + LostCount(p) + lost
             <= TotalWritten + totalIssued' + LostCount(p)' + lost'
    BY <1>1, <1>5, <1>9, <2>1, SMTT(20) DEF Types
  <2> QED
    BY <1>4, <1>5, <1>7, <2>2, MoneyStep, CoverStep, SMTT(20)
<1>11. /\ Accounted(b)' = Accounted(b) + payment[p].tokens
       /\ \A a \in Beneficiaries \ {b} : Accounted(a)' = Accounted(a)
       /\ \A a \in Beneficiaries : Accounted(a) \in Nat
  <2>1. /\ SavedFor(p, b) = 0 /\ SavedFor(p, b)' = payment[p].tokens
        /\ \A a \in Beneficiaries \ {b} : SavedFor(p, a) = 0 /\ SavedFor(p, a)' = 0
    BY <1>2, <1>4, <1>9 DEF SavedFor
  <2>2. \A a \in Beneficiaries : paid[a] \in Nat /\ strayed[a] \in Nat /\ Accounted(a) \in Nat
    BY AccountedType DEF Types
  <2>3. Accounted(b)' = Accounted(b) + payment[p].tokens
    <3>1. paid'[b] + strayed'[b] + SavedFor(p, b)'
            = paid[b] + strayed[b] + SavedFor(p, b) + payment[p].tokens
      BY <1>1, <1>5, <2>1, <2>2, SMTT(20)
    <3> QED
      BY <1>1, <1>4, <1>7, <3>1, AccountedStep
  <2>4. ASSUME NEW a \in Beneficiaries \ {b} PROVE Accounted(a)' = Accounted(a)
    <3>1. paid'[a] + strayed'[a] + SavedFor(p, a)' = paid[a] + strayed[a] + SavedFor(p, a) + 0
      BY <1>5, <2>1, <2>2, SMTT(20)
    <3>2. Accounted(a)' = Accounted(a) + 0
      BY <1>4, <1>7, <3>1, AccountedStep
    <3> QED
      BY <2>2, <3>2, SMTT(20)
  <2> QED
    BY <2>2, <2>3, <2>4
<1>12. /\ c <= issued[b] /\ c <= Accounted(b) + payment[p].tokens
       /\ b \notin shared => c = lastCheque[b] + payment[p].tokens /\ lastCheque[b] = Accounted(b)
       /\ b \notin shared => \A q \in Peers : payment[q].beneficiary = b => q = p
  BY <1>1, <1>2, <1>3 DEF NumberBounds, NumbersExact
<1>13. \A a \in Beneficiaries : Accounted(a) <= Accounted(a)' /\ Accounted(a)' \in Nat
  BY <1>1, <1>11, SMTT(20)
<1>14. NumberBounds'
  <2>1. ASSUME NEW a \in Beneficiaries
        PROVE  /\ lastCheque'[a] <= issued'[a]
               /\ lastCheque'[a] <= Accounted(a)'
               /\ \E amount \in Amounts : issued'[a] <= Accounted(a)' + amount * ExchangeRate + Deduction
    <3>1. PICK amount \in Amounts : issued[a] <= Accounted(a) + amount * ExchangeRate + Deduction
      BY DEF NumberBounds
    <3>2. amount * ExchangeRate \in Nat /\ Deduction \in Nat
      BY ChequesAssumption, SMTT(20)
    <3>3. issued'[a] <= Accounted(a)' + amount * ExchangeRate + Deduction
      BY <1>5, <1>11, <1>13, <3>1, <3>2, SMTT(20) DEF Types
    <3>4. lastCheque[a] <= issued[a] /\ lastCheque[a] <= Accounted(a)
      BY DEF NumberBounds
    <3>5. CASE a = b
      BY <1>5, <1>6, <1>11, <1>12, <3>3, <3>5
    <3>6. CASE a # b
      BY <1>5, <1>6, <1>11, <3>3, <3>4, <3>6
    <3> QED
      BY <3>5, <3>6
  <2>2. ASSUME NEW q \in Peers, NEW a \in Beneficiaries,
               payment'[q].stage \in {"signed", "written"}, payment'[q].beneficiary = a
        PROVE  /\ payment'[q].stage = "signed" =>
                    payment'[q].cumulative <= issued'[a] + payment'[q].tokens
               /\ payment'[q].stage = "written" => payment'[q].cumulative <= issued'[a]
               /\ payment'[q].cumulative <= Accounted(a)' + payment'[q].tokens
    <3>1. payment'[q] = payment[q] /\ payment[q].tokens \in Nat /\ payment[q].cumulative \in Nat
      BY <1>4, <2>2, PaymentTypes DEF Types
    <3>2. /\ payment[q].stage = "signed" => payment[q].cumulative <= issued[a] + payment[q].tokens
          /\ payment[q].stage = "written" => payment[q].cumulative <= issued[a]
          /\ payment[q].cumulative <= Accounted(a) + payment[q].tokens
      BY <2>2, <3>1 DEF NumberBounds
    <3>3. payment[q].cumulative <= Accounted(a)' + payment[q].tokens
      BY <1>11, <1>13, <3>1, <3>2, SMTT(20)
    <3> QED
      BY <1>5, <3>1, <3>2, <3>3
  <2>3. \A q \in Peers :
          payment'[q].stage \in {"signed", "written"} => payment'[q].beneficiary \in Beneficiaries
    BY <1>4 DEF Started
  <2> QED
    BY <2>1, <2>2, <2>3 DEF NumberBounds
<1>15. NumbersExact'
  <2>1. ASSUME NEW a \in Beneficiaries, a \notin shared'
        PROVE  lastCheque'[a] = Accounted(a)'
    <3>1. a \notin shared
      BY <1>5, <2>1
    <3>2. CASE a = b
      <4>1. c = lastCheque[b] + payment[p].tokens /\ lastCheque[b] = Accounted(b)
        BY <1>12, <3>1, <3>2
      <4> QED
        BY <1>6, <1>11, <3>2, <4>1
    <3>3. CASE a # b
      <4>1. lastCheque[a] = Accounted(a)
        BY <3>1 DEF NumbersExact
      <4> QED
        BY <1>6, <1>11, <3>3, <4>1
    <3> QED
      BY <3>2, <3>3
  <2>2. ASSUME NEW q \in Peers, NEW a \in Beneficiaries, a = payment'[q].beneficiary, a \notin shared'
        PROVE  /\ \A o \in Peers : payment'[o].beneficiary = a => o = q
               /\ payment'[q].stage \in {"signed", "written"} =>
                    payment'[q].cumulative = lastCheque'[a] + payment'[q].tokens
    <3>1. \A o \in Peers : payment'[o].beneficiary = payment[o].beneficiary
      BY <1>2, <1>4
    <3>2. a = payment[q].beneficiary /\ a \notin shared
      BY <1>5, <2>2, <3>1
    <3>3. /\ \A o \in Peers : payment[o].beneficiary = a => o = q
          /\ payment[q].stage \in {"signed", "written"} =>
               payment[q].cumulative = lastCheque[a] + payment[q].tokens
      BY <3>2 DEF NumbersExact
    <3>4. payment'[q].stage \in {"signed", "written"} => q # p
      BY <1>4
    <3>5. q # p => payment'[q] = payment[q] /\ a # b
      BY <1>2, <1>4, <3>3
    <3>6. q # p => lastCheque'[a] = lastCheque[a]
      BY <1>6, <3>5
    <3> QED
      BY <3>1, <3>3, <3>4, <3>5, <3>6
  <2> QED
    BY <2>1, <2>2 DEF NumbersExact
<1>16. Cashouts'
  BY <1>5, CashoutsKept
<1> QED
  BY <1>7, <1>8, <1>10, <1>14, <1>15, <1>16

\* A restart moves what was written to lost and what was saved to strayed.
LEMMA RestartKeepsInv ==
  ASSUME IInv, Restart
  PROVE  IInv'
<1> USE DEF IInv
<1>1. NoPayment \in PaymentRecord /\ NoPayment.stage = "idle" /\ NoPayment.beneficiary = "none"
  BY DEF NoPayment, PaymentRecord, Stages
<1>2. /\ payment' \in [Peers -> PaymentRecord]
      /\ \A p \in Peers : payment'[p].stage = "idle" /\ payment'[p].beneficiary = "none"
  BY <1>1 DEF Restart
<1>3. UNCHANGED <<lastCheque, totalIssued, book, wire, received, cashout, cashing, balance,
                  paidOut, wallet, depositing, issued, paid, shared, excess, bounced>>
  BY DEF Restart, receiver
<1>4. /\ reserved' = 0 /\ lock' = "none" /\ lost' = lost + SumWritten
      /\ withdrawal' = IF withdrawal.stage = "reading" THEN NoWithdrawal ELSE withdrawal
  BY DEF Restart, SumWritten
<1>5. SumWritten \in Nat /\ SumPromised \in Nat /\ \A b \in Beneficiaries : SumSaved(b) \in Nat
  BY SumTypes DEF Types
<1>6. \A b \in Beneficiaries : strayed'[b] = strayed[b] + SumSaved(b)
  <2> TAKE b \in Beneficiaries
  <2> DEFINE f == [p \in Peers |-> LostSave(p)]
             g == [p \in Peers |-> SavedFor(p, b)]
             R == {p \in Peers : payment[p].beneficiary = b}
  <2>1. R \in SUBSET Peers /\ \A p \in Peers : g[p] = IF p \in R THEN f[p] ELSE 0
    BY DEF SavedFor
  <2>2. strayed'[b] = strayed[b] + SumOver(f, R) /\ SumSaved(b) = SumOver(g, Peers)
    BY DEF Restart, SumSaved
  <2> HIDE DEF f, g, R
  <2>3. SumOver(f, R) = SumOver(g, Peers)
    BY <2>1, SumOfPart, SMTT(20)
  <2> QED
    BY <2>2, <2>3
<1>7. /\ NoWithdrawal.stage = "idle"
      /\ NoWithdrawal \in [stage : {"idle", "reading", "sent"}, amount : Nat, seen : Nat, issued : Nat]
  BY DEF NoWithdrawal
<1>8. Types'
  <2>1. lost' \in Nat /\ reserved' \in Nat
    BY <1>4, <1>5, SMTT(20) DEF Types
  <2>2. strayed' \in [Beneficiaries -> Nat]
    <3>1. \A b \in Beneficiaries : strayed'[b] \in Nat
      BY <1>5, <1>6, SMTT(20) DEF Types
    <3>2. strayed' = [b \in Beneficiaries |-> strayed'[b]]
      BY DEF Restart
    <3> QED
      BY <3>1, <3>2
  <2>3. withdrawal' \in [stage : {"idle", "reading", "sent"}, amount : Nat, seen : Nat, issued : Nat]
    BY <1>4, <1>7 DEF Types
  <2> QED
    BY <1>2, <1>3, <1>4, <2>1, <2>2, <2>3 DEF Types
<1>9. Started'
  BY <1>2 DEF Started
<1>10. /\ SumHeld' = 0 /\ SumPromised' = 0 /\ SumWritten' = 0
       /\ \A b \in Beneficiaries : SumSaved(b)' = 0
  <2> DEFINE H == [p \in Peers |-> Held(p)']
             P == [p \in Peers |-> Promised(p)']
             W == [p \in Peers |-> LostCount(p)']
  <2>1. \A p \in Peers : H[p] = 0 /\ P[p] = 0 /\ W[p] = 0
    BY <1>2 DEF Held, Promised, LostCount
  <2>2. SumHeld' = SumOver(H, Peers) /\ SumPromised' = SumOver(P, Peers)
        /\ SumWritten' = SumOver(W, Peers)
    BY DEF SumHeld, SumPromised, SumWritten
  <2> HIDE DEF H, P, W
  <2>3. SumHeld' = 0 /\ SumPromised' = 0 /\ SumWritten' = 0
    BY <2>1, <2>2, SumZero
  <2>4. ASSUME NEW b \in Beneficiaries PROVE SumSaved(b)' = 0
    <3> DEFINE S == [p \in Peers |-> SavedFor(p, b)']
    <3>1. \A p \in Peers : S[p] = 0
      BY <1>2 DEF SavedFor, LostSave
    <3>2. SumSaved(b)' = SumOver(S, Peers)
      BY DEF SumSaved
    <3> HIDE DEF S
    <3> QED
      BY <3>1, <3>2, SumZero
  <2> QED
    BY <2>3, <2>4
<1>11. Reservation' /\ Cover' /\ WrittenCounted'
  <2>1. TotalPaidOut' = TotalPaidOut /\ TotalWritten' = TotalWritten /\ Withdrawing' = Withdrawing
    BY <1>3, <1>4, <1>7 DEF TotalPaidOut, TotalWritten, Withdrawing
  <2>2. TotalPaidOut \in Nat /\ TotalWritten \in Nat /\ Withdrawing \in Nat
    BY TotalTypes
  <2>3. totalIssued \in Nat /\ balance \in Nat /\ excess \in Nat /\ lost \in Nat
    BY DEF Types
  <2>4. Reservation'
    BY <1>4, <1>10, SMTT(20) DEF Reservation
  <2>5. Cover'
    BY <1>3, <1>5, <1>10, <2>1, <2>2, <2>3, SMTT(20) DEF Cover
  <2>6. WrittenCounted'
    BY <1>3, <1>4, <1>5, <1>10, <2>1, <2>2, <2>3, SMTT(20) DEF WrittenCounted
  <2> QED
    BY <2>4, <2>5, <2>6
<1>12. \A b \in Beneficiaries : Accounted(b)' = Accounted(b)
  <2> TAKE b \in Beneficiaries
  <2>1. paid[b] \in Nat /\ strayed[b] \in Nat /\ SumSaved(b) \in Nat
    BY <1>5 DEF Types
  <2>2. SumSaved(b)' = 0 /\ strayed'[b] = strayed[b] + SumSaved(b) /\ paid'[b] = paid[b]
    BY <1>3, <1>6, <1>10
  <2> QED
    BY <2>1, <2>2, SMTT(20) DEF Accounted
<1>13. NumberBounds'
  <2>1. \A b \in Beneficiaries :
          /\ lastCheque'[b] <= issued'[b]
          /\ lastCheque'[b] <= Accounted(b)'
          /\ \E amount \in Amounts :
               issued'[b] <= Accounted(b)' + amount * ExchangeRate + Deduction
    BY <1>3, <1>12 DEF NumberBounds
  <2>2. \A p \in Peers : payment'[p].stage \notin {"signed", "written"}
    BY <1>2
  <2> QED
    BY <2>1, <2>2 DEF NumberBounds
<1>14. NumbersExact'
  <2>1. "none" \notin Beneficiaries
    BY ChequesAssumption
  <2> QED
    BY <1>2, <1>3, <1>12, <2>1 DEF NumbersExact
<1>15. Cashouts'
  BY <1>3, CashoutsKept
<1> QED
  BY <1>8, <1>9, <1>11, <1>13, <1>14, <1>15, SMTT(20)

-----------------------------------------------------------------------------
(* The steps of the peers, the owner and the chain. *)

\* They leave the payments and the numbers of the cheques alone.
LEMMA PaymentsKept ==
  ASSUME IInv, UNCHANGED <<lastCheque, totalIssued, reserved, payment, issued, paid, strayed,
                           shared, lost>>
  PROVE  /\ Started' /\ Reservation' /\ WrittenCounted' /\ NumberBounds' /\ NumbersExact'
         /\ SumPromised' = SumPromised /\ Uncounted' = Uncounted
<1> USE DEF IInv
<1>1. /\ SumHeld' = SumHeld /\ SumPromised' = SumPromised /\ SumWritten' = SumWritten
      /\ Uncounted' = Uncounted /\ TotalWritten' = TotalWritten
  BY DEF SumHeld, SumPromised, SumWritten, Uncounted, TotalWritten, Held, Promised, LostCount
<1>2. \A b \in Beneficiaries : Accounted(b)' = Accounted(b)
  BY DEF Accounted, SumSaved, SavedFor, LostSave
<1>3. Started'
  BY DEF Started
<1>4. Reservation' /\ WrittenCounted'
  BY <1>1 DEF Reservation, WrittenCounted
<1>5. \A p \in Peers :
        payment[p].stage \in {"signed", "written"} => payment[p].beneficiary \in Beneficiaries
  BY DEF Started
<1>6. NumberBounds'
  BY <1>2, <1>5 DEF NumberBounds
<1>7. NumbersExact'
  BY <1>2 DEF NumbersExact
<1> QED
  BY <1>1, <1>3, <1>4, <1>6, <1>7

\* What the chequebook holds or paid out, less a withdrawal on its way.
Backing == balance + TotalPaidOut - Withdrawing

\* A step that does not lower the backing keeps what is issued covered.
LEMMA CoverKept ==
  ASSUME Types, Types', Cover, SumPromised' = SumPromised, totalIssued' = totalIssued,
         Backing + excess <= Backing' + excess'
  PROVE  Cover'
<1>1. SumPromised \in Nat /\ totalIssued \in Nat /\ excess \in Nat /\ excess' \in Nat
  BY SumTypes DEF Types
<1>2. TotalPaidOut \in Nat /\ Withdrawing \in Nat /\ balance \in Nat
  BY TotalTypes DEF Types
<1>3. TotalPaidOut' \in Nat /\ Withdrawing' \in Nat /\ balance' \in Nat
  <2>1. \A b \in Beneficiaries : paidOut'[b] \in Nat
    BY DEF Types
  <2>2. TotalPaidOut' \in Nat
    BY <2>1, ChequesAssumption, SumType DEF TotalPaidOut
  <2>3. withdrawal'.amount \in Nat /\ balance' \in Nat
    BY DEF Types
  <2> QED
    BY <2>2, <2>3 DEF Withdrawing
<1>4. Backing \in Int /\ Backing' \in Int
  BY <1>2, <1>3, SMTT(20) DEF Backing
<1>5. totalIssued + SumPromised <= Backing + excess
  BY DEF Cover, Backing
<1>6. totalIssued' + SumPromised' <= Backing' + excess'
  <2>1. \A i, j, k \in Int : i <= j /\ j <= k => i <= k
    BY SMTT(20)
  <2>2. /\ totalIssued + SumPromised \in Int /\ Backing + excess \in Int
        /\ Backing' + excess' \in Int
    BY <1>1, <1>4, SMTT(20)
  <2>3. totalIssued + SumPromised <= Backing' + excess'
    BY <1>5, <2>1, <2>2
  <2> QED
    BY <2>3
<1> QED
  BY <1>6 DEF Cover, Backing

LEMMA HandshakeKeepsInv ==
  ASSUME IInv, NEW p \in Peers, Handshake(p)
  PROVE  IInv'
<1> DEFINE b == EthereumAddress[p]
           old == book.peer[b]
           put == [book EXCEPT !.beneficiary[p] = b, !.peer[b] = p]
           Book == [beneficiary : [Peers -> Beneficiaries \cup {"none"}],
                    peer : [Beneficiaries -> Peers \cup {"none"}]]
<1> USE DEF IInv
<1>1. UNCHANGED <<lastCheque, totalIssued, reserved, lock, wire, received, cashout, cashing,
                  balance, paidOut, wallet, depositing, withdrawal, payment, issued, paid, strayed,
                  shared, excess, lost, bounced>>
  BY DEF Handshake, chequebook, receiver, chain, history
<1>2. b \in Beneficiaries /\ book \in Book
  BY ChequesAssumption DEF Types
<1>3. put \in Book
  BY <1>2
<1>4. [put EXCEPT !.beneficiary[old] = "none"] \in Book
  <2> HIDE DEF put, old
  <2> QED
    BY <1>3
<1>5. book' \in Book
  BY <1>2, <1>3, <1>4 DEF Handshake
<1>6. Types'
  BY <1>1, <1>5 DEF Types
<1>7. /\ Started' /\ Reservation' /\ WrittenCounted' /\ NumberBounds' /\ NumbersExact'
      /\ SumPromised' = SumPromised
  BY <1>1, PaymentsKept
<1>8. Cover'
  BY <1>1, <1>7 DEF Cover, TotalPaidOut, Withdrawing
<1>9. Cashouts'
  BY <1>1, CashoutsKept
<1> QED
  BY <1>6, <1>7, <1>8, <1>9

LEMMA ReceiveKeepsInv ==
  ASSUME IInv, NEW c \in wire, ReceiveCheque(c) \/ LoseCheque(c)
  PROVE  IInv'
<1> USE DEF IInv
<1>1. UNCHANGED <<lastCheque, totalIssued, reserved, lock, cashout, cashing, book,
                  balance, paidOut, wallet, depositing, withdrawal, payment, issued, paid, strayed,
                  shared, excess, lost, bounced>>
  BY DEF ReceiveCheque, LoseCheque, chequebook, receiver, chain, history
<1>2. c.beneficiary \in Beneficiaries /\ c.cumulative \in Nat
  BY DEF Types, Cheque
<1>3. wire' \in SUBSET Cheque
  BY DEF ReceiveCheque, LoseCheque, Types
<1>4. /\ received' \in [Beneficiaries -> Nat]
      /\ \A b \in Beneficiaries : received[b] <= received'[b]
  <2>1. CASE received' = received
    BY <2>1, SMTT(20) DEF Types
  <2>2. CASE Acceptable(c) /\ received' = [received EXCEPT ![c.beneficiary] = c.cumulative]
    BY <1>2, <2>2, SMTT(20) DEF Types, Acceptable
  <2> QED
    BY <2>1, <2>2 DEF ReceiveCheque, LoseCheque, receiver
<1>5. Types'
  BY <1>1, <1>3, <1>4 DEF Types
<1>6. /\ Started' /\ Reservation' /\ WrittenCounted' /\ NumberBounds' /\ NumbersExact'
      /\ SumPromised' = SumPromised
  BY <1>1, PaymentsKept
<1>7. Cover'
  BY <1>1, <1>6 DEF Cover, TotalPaidOut, Withdrawing
<1>8. Cashouts'
  <2>1. ASSUME NEW b \in Beneficiaries PROVE cashout[b].cumulative <= received'[b]
    <3>1. cashout[b].cumulative <= received[b]
      BY DEF Cashouts
    <3>2. cashout[b].cumulative \in Nat /\ received[b] \in Nat
      BY DEF Types
    <3> QED
      BY <1>4, <3>1, <3>2, SMTT(20)
  <2> QED
    BY <1>1, <2>1 DEF Cashouts
<1> QED
  BY <1>5, <1>6, <1>7, <1>8

LEMMA CashChequeKeepsInv ==
  ASSUME IInv, NEW b \in Beneficiaries, CashCheque(b)
  PROVE  IInv'
<1> DEFINE tx == [beneficiary |-> b, cumulative |-> received[b]]
           r == [status |-> "pending", cumulative |-> received[b]]
<1> USE DEF IInv
<1>1. UNCHANGED <<lastCheque, totalIssued, reserved, lock, book, wire, received, balance, paidOut,
                  wallet, depositing, withdrawal, payment, issued, paid, strayed, shared, excess,
                  lost, bounced>>
  BY DEF CashCheque, chequebook, history
<1>2. cashing' = cashing \cup {tx} /\ cashout' = [cashout EXCEPT ![b] = r]
  BY DEF CashCheque
<1>3. /\ tx.beneficiary = b /\ tx.cumulative = received[b] /\ received[b] \in Nat
      /\ r.status = "pending" /\ r.cumulative = received[b]
      /\ tx \in [beneficiary : Beneficiaries, cumulative : Nat]
      /\ r \in [status : {"none", "pending", "mined", "failed"}, cumulative : Nat]
      /\ tx = [beneficiary |-> b, cumulative |-> r.cumulative]
  BY DEF Types
<1> HIDE DEF tx, r
<1>4. /\ cashing' \in SUBSET [beneficiary : Beneficiaries, cumulative : Nat]
      /\ cashout' \in [Beneficiaries -> [status : {"none", "pending", "mined", "failed"},
                                         cumulative : Nat]]
      /\ cashout'[b] = r /\ \A a \in Beneficiaries \ {b} : cashout'[a] = cashout[a]
  BY <1>2, <1>3, SMTT(20) DEF Types
<1>5. Types'
  BY <1>1, <1>4 DEF Types
<1>6. /\ Started' /\ Reservation' /\ WrittenCounted' /\ NumberBounds' /\ NumbersExact'
      /\ SumPromised' = SumPromised
  BY <1>1, PaymentsKept
<1>7. Cover'
  BY <1>1, <1>6 DEF Cover, TotalPaidOut, Withdrawing
<1>8. Cashouts'
  <2>1. /\ cashout'[b].status = "pending" /\ cashout'[b].cumulative = received[b]
        /\ tx \in cashing' /\ tx = [beneficiary |-> b, cumulative |-> cashout'[b].cumulative]
        /\ received[b] <= received[b]
    <3>1. received[b] <= received[b]
      BY <1>3, SMTT(20)
    <3> QED
      BY <1>2, <1>3, <1>4, <3>1
  <2>2. ASSUME NEW a \in Beneficiaries
        PROVE  /\ cashout'[a].status = "none" => paidOut'[a] = 0
               /\ cashout'[a].status = "pending" =>
                    [beneficiary |-> a, cumulative |-> cashout'[a].cumulative] \in cashing'
               /\ cashout'[a].status = "mined" /\ a \notin bounced' =>
                    paidOut'[a] = cashout'[a].cumulative
               /\ cashout'[a].cumulative <= received'[a]
    <3>1. CASE a = b
      BY <1>1, <2>1, <3>1
    <3>2. CASE a # b
      <4>1. /\ cashout[a].status = "none" => paidOut[a] = 0
            /\ cashout[a].status = "pending" =>
                 [beneficiary |-> a, cumulative |-> cashout[a].cumulative] \in cashing
            /\ cashout[a].status = "mined" /\ a \notin bounced => paidOut[a] = cashout[a].cumulative
            /\ cashout[a].cumulative <= received[a]
        BY DEF Cashouts
      <4> QED
        BY <1>1, <1>2, <1>4, <3>2, <4>1
    <3> QED
      BY <3>1, <3>2
  <2>3. ASSUME NEW t \in cashing'
        PROVE  /\ cashout'[t.beneficiary].status # "none"
               /\ t.cumulative <= cashout'[t.beneficiary].cumulative
    <3>1. CASE t = tx
      BY <1>3, <2>1, <3>1
    <3>2. CASE t # tx
      <4>1. /\ t \in cashing /\ t.beneficiary \in Beneficiaries /\ t.cumulative \in Nat
            /\ cashout[t.beneficiary].cumulative \in Nat
        BY <1>2, <3>2 DEF Types
      <4>2. /\ cashout[t.beneficiary].status # "none"
            /\ t.cumulative <= cashout[t.beneficiary].cumulative
            /\ cashout[t.beneficiary].cumulative <= received[t.beneficiary]
        BY <4>1 DEF Cashouts
      <4> QED
        BY <1>3, <1>4, <4>1, <4>2, SMTT(20)
    <3> QED
      BY <3>1, <3>2
  <2> QED
    BY <2>2, <2>3 DEF Cashouts
<1> QED
  BY <1>5, <1>6, <1>7, <1>8

LEMMA FundsStepsKeepInv ==
  ASSUME IInv,
         \/ \E amount \in Deposits : Deposit(amount)
         \/ MineDeposit
         \/ \E amount \in Withdrawals : StartWithdraw(amount)
         \/ MineWithdraw
  PROVE  IInv'
<1> USE DEF IInv
<1>1. UNCHANGED <<lastCheque, totalIssued, reserved, lock, book, wire, received, cashout, cashing,
                  paidOut, payment, issued, paid, strayed, shared, excess, lost, bounced>>
  BY DEF Deposit, MineDeposit, StartWithdraw, MineWithdraw, chequebook, receiver, history
<1>2. /\ balance \in Nat /\ wallet \in Nat /\ depositing \in Nat /\ excess \in Nat
      /\ withdrawal.amount \in Nat /\ totalIssued \in Nat
      /\ withdrawal.stage \in {"idle", "reading", "sent"}
  BY DEF Types
<1>3. TotalPaidOut \in Nat /\ TotalPaidOut' = TotalPaidOut
  BY <1>1, TotalTypes DEF TotalPaidOut
<1>4. /\ NoWithdrawal.stage = "idle"
      /\ NoWithdrawal \in [stage : {"idle", "reading", "sent"}, amount : Nat, seen : Nat, issued : Nat]
  BY DEF NoWithdrawal
<1>5. /\ balance' \in Nat /\ wallet' \in Nat /\ depositing' \in Nat
      /\ withdrawal' \in [stage : {"idle", "reading", "sent"}, amount : Nat, seen : Nat, issued : Nat]
      /\ balance - Withdrawing <= balance' - Withdrawing'
  <2>1. CASE \E amount \in Deposits : Deposit(amount)
    <3>1. PICK amount \in Deposits : Deposit(amount)
      BY <2>1
    <3>2. amount \in Nat
      BY ChequesAssumption
    <3> QED
      BY <1>2, <3>1, <3>2, SMTT(20) DEF Deposit, Withdrawing, Types
  <2>2. CASE MineDeposit
    BY <1>2, <2>2, SMTT(20) DEF MineDeposit, Withdrawing, Types
  <2>3. CASE \E amount \in Withdrawals : StartWithdraw(amount)
    <3>1. PICK amount \in Withdrawals : StartWithdraw(amount)
      BY <2>3
    <3>2. amount \in Nat
      BY ChequesAssumption
    <3> QED
      BY <1>2, <3>1, <3>2, SMTT(20) DEF StartWithdraw, Withdrawing
  <2>4. CASE MineWithdraw
    BY <1>2, <1>4, <2>4, SMTT(20) DEF MineWithdraw, Withdrawing
  <2> QED
    BY <2>1, <2>2, <2>3, <2>4
<1>6. Types'
  BY <1>1, <1>5 DEF Types
<1>7. /\ Started' /\ Reservation' /\ WrittenCounted' /\ NumberBounds' /\ NumbersExact'
      /\ SumPromised' = SumPromised
  BY <1>1, PaymentsKept
<1>8. Cover'
  <2>1. Withdrawing \in Nat
    BY TotalTypes
  <2>2. PICK w \in Nat : w = Withdrawing'
    <3>1. withdrawal'.amount \in Nat
      BY <1>5
    <3> QED
      BY <3>1 DEF Withdrawing
  <2>3. PICK n \in Nat : n = balance'
    BY <1>5
  <2>4. balance - Withdrawing <= n - w
    BY <1>5, <2>2, <2>3, SMTT(20)
  <2>5. balance + TotalPaidOut - Withdrawing + excess <= n + TotalPaidOut - w + excess
    BY <1>2, <1>3, <2>1, <2>4, SMTT(20)
  <2>6. Backing + excess <= Backing' + excess'
    BY <1>1, <1>3, <2>2, <2>3, <2>5 DEF Backing
  <2> QED
    BY <1>1, <1>6, <1>7, <2>6, CoverKept
<1>9. Cashouts'
  BY <1>1, CashoutsKept
<1> QED
  BY <1>6, <1>7, <1>8, <1>9

LEMMA WithdrawKeepsInv ==
  ASSUME IInv, Withdraw
  PROVE  IInv'
<1> DEFINE estimate == withdrawal.seen + TotalPaidOut - withdrawal.issued
<1> USE DEF IInv
<1>1. UNCHANGED <<lastCheque, totalIssued, reserved, lock, book, wire, received, cashout, cashing,
                  balance, paidOut, wallet, depositing, payment, issued, paid, strayed, shared,
                  lost, bounced>>
  BY DEF Withdraw, chequebook, receiver
<1>2. /\ balance \in Nat /\ excess \in Nat /\ totalIssued \in Nat /\ withdrawal.amount \in Nat
      /\ withdrawal.seen \in Nat /\ withdrawal.issued \in Nat /\ SumPromised \in Nat
      /\ TotalPaidOut \in Nat
  BY SumTypes, TotalTypes DEF Types
<1>3. withdrawal.stage = "reading" /\ Withdrawing = 0
  BY DEF Withdraw, Withdrawing
<1>4. /\ Started' /\ Reservation' /\ WrittenCounted' /\ NumberBounds' /\ NumbersExact'
      /\ SumPromised' = SumPromised
  BY <1>1, PaymentsKept
<1>5. Cashouts'
  BY <1>1, CashoutsKept
<1>6. TotalPaidOut' = TotalPaidOut
  BY <1>1 DEF TotalPaidOut
<1>7. CASE estimate >= withdrawal.amount
  <2>1. withdrawal' = [withdrawal EXCEPT !.stage = "sent"] /\ excess' = excess + Mistake(estimate)
    BY <1>7 DEF Withdraw
  <2>2. /\ withdrawal' \in [stage : {"idle", "reading", "sent"}, amount : Nat, seen : Nat, issued : Nat]
        /\ withdrawal'.stage = "sent" /\ withdrawal'.amount = withdrawal.amount
    BY <2>1 DEF Types
  <2>3. estimate \in Int
    BY <1>2, SMTT(20)
  <2> HIDE DEF estimate
  <2>4. TrulyAvailable = balance + TotalPaidOut - Withdrawing - totalIssued - SumPromised
    BY UncountedIsPromised DEF TrulyAvailable, Types
  <2>5. Mistake(estimate) \in Nat /\ estimate - TrulyAvailable <= Mistake(estimate)
    BY <1>2, <1>3, <2>3, <2>4, SMTT(20) DEF Mistake
  <2>6. PICK e \in Nat : e = excess'
    BY <1>2, <2>1, <2>5, SMTT(20)
  <2>7. Types'
    BY <1>1, <2>2, <2>6 DEF Types
  <2>8. Withdrawing' = withdrawal.amount
    BY <2>2 DEF Withdrawing
  <2>9. totalIssued + SumPromised <= balance + TotalPaidOut - withdrawal.amount + e
    BY <1>2, <1>3, <1>7, <2>1, <2>3, <2>4, <2>5, <2>6, SMTT(20)
  <2>10. Cover'
    BY <1>1, <1>4, <1>6, <2>6, <2>8, <2>9 DEF Cover
  <2> QED
    BY <1>4, <1>5, <2>7, <2>10
<1>8. CASE ~(estimate >= withdrawal.amount)
  <2>1. withdrawal' = NoWithdrawal /\ excess' = excess
    BY <1>8 DEF Withdraw
  <2> HIDE DEF estimate
  <2>2. /\ withdrawal'.stage = "idle"
        /\ withdrawal' \in [stage : {"idle", "reading", "sent"}, amount : Nat, seen : Nat, issued : Nat]
    BY <2>1 DEF NoWithdrawal
  <2>3. Types'
    BY <1>1, <2>1, <2>2 DEF Types
  <2>4. Withdrawing' = Withdrawing
    BY <1>3, <2>2 DEF Withdrawing
  <2>5. Cover'
    BY <1>1, <1>4, <1>6, <2>1, <2>4, SMTT(20) DEF Cover
  <2> QED
    BY <1>4, <1>5, <2>3, <2>5
<1> QED
  BY <1>7, <1>8

\* What the contract pays out leaves the balance, and a cashout that was mined
\* was paid up to its cheque, or bounced.
LEMMA MineCashoutKeepsInv ==
  ASSUME IInv, NEW tx \in cashing, MineCashout(tx)
  PROVE  IInv'
<1> USE DEF IInv
<1>1. /\ tx.beneficiary \in Beneficiaries /\ tx.cumulative \in Nat
      /\ tx = [beneficiary |-> tx.beneficiary, cumulative |-> tx.cumulative]
  BY DEF Types
<1>2. PICK b \in Beneficiaries, c \in Nat : b = tx.beneficiary /\ c = tx.cumulative
  BY <1>1
<1>3. /\ paidOut[b] \in Nat /\ balance \in Nat /\ cashout[b].cumulative \in Nat
      /\ \A a \in Beneficiaries : cashout[a].status \in {"none", "pending", "mined", "failed"}
                                  /\ cashout[a].cumulative \in Nat
  BY DEF Types
<1> DEFINE mine == cashout[b] = [status |-> "pending", cumulative |-> c]
           done(status) == IF mine THEN [cashout EXCEPT ![b].status = status] ELSE cashout
           request == c - paidOut[b]
           payout == IF request <= balance THEN request ELSE balance
<1>4. UNCHANGED <<lastCheque, totalIssued, reserved, lock, book, wire, received, wallet,
                  depositing, withdrawal, payment, issued, paid, strayed, shared, excess, lost>>
  BY DEF MineCashout, chequebook
<1>5. cashing' = cashing \ {tx}
  BY DEF MineCashout
<1>6. \/ /\ request >= 0 /\ paidOut' = [paidOut EXCEPT ![b] = @ + payout]
         /\ balance' = balance - payout /\ cashout' = done("mined")
         /\ bounced' = IF payout < request THEN bounced \cup {b} ELSE bounced
      \/ /\ cashout' = done("failed") /\ paidOut' = paidOut /\ balance' = balance
         /\ bounced' = bounced
  BY <1>2 DEF MineCashout
<1>7. /\ Started' /\ Reservation' /\ WrittenCounted' /\ NumberBounds' /\ NumbersExact'
      /\ SumPromised' = SumPromised
  BY <1>4, PaymentsKept
<1>8. ASSUME NEW status \in {"mined", "failed"}, cashout' = done(status)
      PROVE  /\ cashout' \in [Beneficiaries -> [status : {"none", "pending", "mined", "failed"},
                                                cumulative : Nat]]
             /\ \A a \in Beneficiaries : cashout'[a].cumulative = cashout[a].cumulative
             /\ \A a \in Beneficiaries \ {b} : cashout'[a] = cashout[a]
             /\ mine => cashout'[b].status = status
             /\ ~mine => cashout'[b] = cashout[b]
  BY <1>8 DEF Types
<1> HIDE DEF mine, done
<1>9. mine => cashout[b].status = "pending" /\ cashout[b].cumulative = c
  BY SMTT(20) DEF mine
<1>10. c <= cashout[b].cumulative /\ cashout[b].status # "none"
  BY <1>2 DEF Cashouts
<1>11. cashout[b].status = "pending" /\ cashout[b].cumulative = c => mine
  <2>1. cashout[b] \in [status : {"none", "pending", "mined", "failed"}, cumulative : Nat]
    BY DEF Types
  <2> QED
    BY <2>1 DEF mine
<1>12. \A a \in Beneficiaries :
         /\ cashout[a].status = "none" => paidOut[a] = 0
         /\ cashout[a].status = "pending" =>
              [beneficiary |-> a, cumulative |-> cashout[a].cumulative] \in cashing
         /\ cashout[a].status = "mined" /\ a \notin bounced => paidOut[a] = cashout[a].cumulative
         /\ cashout[a].cumulative <= received[a]
  BY DEF Cashouts
<1>13. \A t \in cashing : /\ t.beneficiary \in Beneficiaries
                          /\ cashout[t.beneficiary].status # "none"
                          /\ t.cumulative <= cashout[t.beneficiary].cumulative
  BY DEF Cashouts, Types
\* The parts of Cashouts that are the same whether the transaction fails or not.
<1>14. ASSUME NEW status \in {"mined", "failed"}, cashout' = done(status),
              bounced \subseteq bounced', \A a \in Beneficiaries \ {b} : paidOut'[a] = paidOut[a],
              cashout'[b].status = "mined" /\ b \notin bounced' => paidOut'[b] = cashout[b].cumulative
       PROVE  Cashouts'
  <2>1. /\ \A a \in Beneficiaries : cashout'[a].cumulative = cashout[a].cumulative
        /\ \A a \in Beneficiaries \ {b} : cashout'[a] = cashout[a]
        /\ mine => cashout'[b].status = status
        /\ ~mine => cashout'[b] = cashout[b]
    BY <1>8, <1>14, ZenonT(20)
  <2>2. ASSUME NEW a \in Beneficiaries
        PROVE  /\ cashout'[a].status = "none" => paidOut'[a] = 0
               /\ cashout'[a].status = "pending" =>
                    [beneficiary |-> a, cumulative |-> cashout'[a].cumulative] \in cashing'
               /\ cashout'[a].status = "mined" /\ a \notin bounced' =>
                    paidOut'[a] = cashout'[a].cumulative
               /\ cashout'[a].cumulative <= received'[a]
    <3>1. CASE a # b
      <4>1. [beneficiary |-> a, cumulative |-> cashout[a].cumulative] # tx
        BY <1>2, <3>1, SMTT(20)
      <4> QED
        BY <1>4, <1>5, <1>12, <1>14, <2>1, <3>1, <4>1, ZenonT(40)
    <3>2. CASE a = b
      <4>1. cashout'[b].status # "none"
        BY <1>10, <2>1, SMTT(20)
      <4>2. cashout'[b].status = "pending" =>
              [beneficiary |-> b, cumulative |-> cashout[b].cumulative] \in cashing'
        <5>1. SUFFICES ASSUME cashout'[b].status = "pending"
                       PROVE  [beneficiary |-> b, cumulative |-> cashout[b].cumulative] \in cashing'
          OBVIOUS
        <5>2. ~mine /\ cashout[b].status = "pending"
          BY <2>1, <5>1
        <5>3. cashout[b].cumulative # c
          BY <1>11, <5>2
        <5>4. [beneficiary |-> b, cumulative |-> cashout[b].cumulative] # tx
          BY <1>2, <5>3, SMTT(20)
        <5> QED
          BY <1>5, <1>12, <5>2, <5>4
      <4> QED
        BY <1>4, <1>12, <1>14, <2>1, <3>2, <4>1, <4>2, ZenonT(40)
    <3> QED
      BY <3>1, <3>2
  <2>3. ASSUME NEW t \in cashing'
        PROVE  /\ cashout'[t.beneficiary].status # "none"
               /\ t.cumulative <= cashout'[t.beneficiary].cumulative
    BY <1>5, <1>13, <2>1
  <2> QED
    BY <2>2, <2>3 DEF Cashouts
<1>15. CASE /\ request >= 0 /\ paidOut' = [paidOut EXCEPT ![b] = @ + payout]
            /\ balance' = balance - payout /\ cashout' = done("mined")
            /\ bounced' = IF payout < request THEN bounced \cup {b} ELSE bounced
  <2>1. payout \in Nat /\ payout <= balance /\ payout <= request /\ request \in Nat
    BY <1>3, <1>15, SMTT(30)
  <2> HIDE DEF payout, request
  <2>2. /\ paidOut' \in [Beneficiaries -> Nat] /\ paidOut'[b] = paidOut[b] + payout
        /\ \A a \in Beneficiaries \ {b} : paidOut'[a] = paidOut[a]
    BY <1>15, <2>1, SMTT(20) DEF Types
  <2>3. PICK n \in Nat : n = balance' /\ n = balance - payout
    <3>1. balance' = balance - payout
      BY <1>15
    <3>2. balance - payout \in Nat
      BY <1>3, <2>1, SMTT(20)
    <3> QED
      BY <3>1, <3>2
  <2>4. TotalPaidOut' = TotalPaidOut + payout
    <3>1. TotalPaidOut' = TotalPaidOut - paidOut[b] + paidOut'[b]
      <4>1. \A a \in Beneficiaries : paidOut[a] \in Nat /\ paidOut'[a] \in Nat
        BY <2>2 DEF Types
      <4>2. IsFiniteSet(Beneficiaries)
        BY ChequesAssumption
      <4>3. \A a \in Beneficiaries \ {b} : paidOut[a] = paidOut'[a]
        BY <2>2
      <4>4. SumOver(paidOut', Beneficiaries)
              = SumOver(paidOut, Beneficiaries) - paidOut[b] + paidOut'[b]
        BY <4>1, <4>2, <4>3, SumUpdate, SMTT(20)
      <4> QED
        BY <4>4 DEF TotalPaidOut
    <3>2. TotalPaidOut \in Nat
      BY TotalTypes
    <3> QED
      BY <1>3, <2>1, <2>2, <3>1, <3>2, SMTT(20)
  <2>5. Types'
    BY <1>4, <1>5, <1>8, <1>15, <2>2, <2>3 DEF Types
  <2>6. Cover'
    <3>1. Withdrawing' = Withdrawing /\ Withdrawing \in Nat /\ TotalPaidOut \in Nat
      BY <1>4, TotalTypes DEF Withdrawing
    <3>2. n + (TotalPaidOut + payout) - Withdrawing = balance + TotalPaidOut - Withdrawing
      BY <1>3, <2>1, <2>3, <3>1, SMTT(20)
    <3> QED
      BY <1>4, <1>7, <2>3, <2>4, <3>1, <3>2 DEF Cover
  <2>7. cashout'[b].status = "mined" /\ b \notin bounced' => paidOut'[b] = cashout[b].cumulative
    <3> SUFFICES ASSUME cashout'[b].status = "mined", b \notin bounced'
                 PROVE  paidOut'[b] = cashout[b].cumulative
      OBVIOUS
    <3>1. payout = request /\ b \notin bounced
      <4>1. ~(payout < request) /\ b \notin bounced
        BY <1>15
      <4> QED
        BY <2>1, <4>1, SMTT(20)
    <3>2. paidOut'[b] = c /\ paidOut[b] <= c
      BY <1>3, <2>1, <2>2, <3>1, SMTT(20) DEF request
    <3>3. CASE mine
      BY <1>9, <3>2, <3>3, SMTT(20)
    <3>4. CASE ~mine
      <4>1. cashout[b].status = "mined"
        BY <1>8, <1>15, <3>4
      <4>2. paidOut[b] = cashout[b].cumulative
        BY <1>12, <3>1, <4>1
      <4> QED
        BY <1>3, <1>10, <3>2, <4>2, SMTT(20)
    <3> QED
      BY <3>3, <3>4
  <2>8. bounced \subseteq bounced'
    BY <1>15
  <2>9. Cashouts'
    BY <1>14, <1>15, <2>2, <2>7, <2>8, ZenonT(40)
  <2> QED
    BY <1>7, <2>5, <2>6, <2>9
<1>16. CASE /\ cashout' = done("failed") /\ paidOut' = paidOut /\ balance' = balance
            /\ bounced' = bounced
  <2>1. Types'
    BY <1>4, <1>5, <1>8, <1>16, SMTT(20) DEF Types
  <2>2. Cover'
    BY <1>4, <1>7, <1>16 DEF Cover, TotalPaidOut, Withdrawing
  <2>3. cashout'[b].status = "mined" /\ b \notin bounced' => paidOut'[b] = cashout[b].cumulative
    BY <1>8, <1>12, <1>16, ZenonT(40)
  <2>4. Cashouts'
    BY <1>14, <1>16, <2>3
  <2> QED
    BY <1>7, <2>1, <2>2, <2>4
<1> QED
  BY <1>6, <1>15, <1>16

-----------------------------------------------------------------------------
(* The invariant is inductive. *)

LEMMA ChequesInitially ==
  ASSUME Init
  PROVE  IInv
<1> USE DEF Init
<1>1. /\ NoPayment \in PaymentRecord /\ NoPayment.stage = "idle"
      /\ NoPayment.beneficiary = "none"
  BY DEF NoPayment, PaymentRecord, Stages
<1>2. Types
  <2>1. book \in [beneficiary : [Peers -> Beneficiaries \cup {"none"}],
                  peer : [Beneficiaries -> Peers \cup {"none"}]]
    <3> DEFINE B == [p \in Peers |-> IF p \in Known THEN EthereumAddress[p] ELSE "none"]
               P == [b \in Beneficiaries |->
                       IF \E p \in Known : EthereumAddress[p] = b
                       THEN CHOOSE p \in Known : EthereumAddress[p] = b ELSE "none"]
    <3>1. B \in [Peers -> Beneficiaries \cup {"none"}]
      BY ChequesAssumption
    <3>2. ASSUME NEW b \in Beneficiaries, \E p \in Known : EthereumAddress[p] = b
          PROVE  (CHOOSE p \in Known : EthereumAddress[p] = b) \in Peers
      BY <3>2, ChequesAssumption
    <3>3. P \in [Beneficiaries -> Peers \cup {"none"}]
      BY <3>2
    <3>4. book = [beneficiary |-> B, peer |-> P]
      OBVIOUS
    <3> HIDE DEF B, P, Init
    <3> QED
      BY <3>1, <3>3, <3>4
  <2>2. payment \in [Peers -> PaymentRecord]
    BY <1>1
  <2>3. Funds \in Nat
    BY ChequesAssumption
  <2>4. /\ cashout \in [Beneficiaries -> [status : {"none", "pending", "mined", "failed"},
                                          cumulative : Nat]]
        /\ withdrawal \in [stage : {"idle", "reading", "sent"}, amount : Nat, seen : Nat,
                           issued : Nat]
    BY DEF NoCashout, NoWithdrawal
  <2>5. /\ lastCheque \in [Beneficiaries -> Nat] /\ issued \in [Beneficiaries -> Nat]
        /\ paid \in [Beneficiaries -> Nat] /\ strayed \in [Beneficiaries -> Nat]
        /\ received \in [Beneficiaries -> Nat] /\ paidOut \in [Beneficiaries -> Nat]
    <3>1. [b \in Beneficiaries |-> 0] \in [Beneficiaries -> Nat]
      <4> HIDE DEF Init
      <4> QED
        BY SMTT(20)
    <3> QED
      BY <3>1
  <2>6. /\ totalIssued \in Nat /\ reserved \in Nat /\ balance \in Nat /\ wallet \in Nat
        /\ excess \in Nat /\ lost \in Nat /\ depositing \in Nat
    <3>1. 0 \in Nat
      <4> HIDE DEF Init
      <4> QED
        BY SMTT(20)
    <3> QED
      BY <2>3, <3>1
  <2>7. /\ lock \in Peers \cup {"none"} /\ wire \in SUBSET Cheque
        /\ cashing \in SUBSET [beneficiary : Beneficiaries, cumulative : Nat]
    OBVIOUS
  <2> HIDE DEF Init
  <2> QED
    BY <2>1, <2>2, <2>4, <2>5, <2>6, <2>7 DEF Types
<1>3. \A p \in Peers : payment[p].stage = "idle" /\ payment[p].beneficiary = "none"
  BY <1>1
<1>4. /\ SumHeld = 0 /\ SumPromised = 0 /\ SumWritten = 0
      /\ \A b \in Beneficiaries : SumSaved(b) = 0
  <2> DEFINE H == [p \in Peers |-> Held(p)]
             P == [p \in Peers |-> Promised(p)]
             W == [p \in Peers |-> LostCount(p)]
             S(b) == [p \in Peers |-> SavedFor(p, b)]
  <2>1. \A p \in Peers : H[p] = 0 /\ P[p] = 0 /\ W[p] = 0
    BY <1>3 DEF Held, Promised, LostCount
  <2>2. \A b \in Beneficiaries : \A p \in Peers : S(b)[p] = 0
    BY <1>3 DEF SavedFor, LostSave
  <2> HIDE DEF H, P, W, S
  <2>3. SumOver(H, Peers) = 0 /\ SumOver(P, Peers) = 0 /\ SumOver(W, Peers) = 0
    BY <2>1, SumZero
  <2>4. \A b \in Beneficiaries : SumOver(S(b), Peers) = 0
    BY <2>2, SumZero
  <2> QED
    BY <2>3, <2>4 DEF H, P, W, S, SumHeld, SumPromised, SumWritten, SumSaved
<1>5. TotalPaidOut = 0 /\ TotalWritten = 0
  <2>1. \A b \in Beneficiaries : paidOut[b] = 0 /\ issued[b] = 0
    OBVIOUS
  <2> QED
    BY <2>1, SumZero DEF TotalPaidOut, TotalWritten
<1>6. Started
  BY <1>3 DEF Started
<1>7. Reservation /\ WrittenCounted
  BY <1>4, <1>5, SMTT(20) DEF Reservation, WrittenCounted
<1>8. Cover
  BY <1>4, <1>5, SMTT(20) DEF Cover, Withdrawing, NoWithdrawal
<1>9. \A b \in Beneficiaries : Accounted(b) = 0
  BY <1>4, SMTT(20) DEF Accounted
<1>10. NumberBounds
  <2>1. PICK amount \in Amounts : amount \in Nat
    BY ChequesAssumption
  <2>2. amount * ExchangeRate \in Nat /\ Deduction \in Nat
    <3> HIDE DEF Init
    <3>1. ExchangeRate \in Nat /\ Deduction \in Nat
      BY ChequesAssumption
    <3> QED
      BY <2>1, <3>1, SMTT(20)
  <2>3. \A b \in Beneficiaries :
          /\ lastCheque[b] <= issued[b] /\ lastCheque[b] <= Accounted(b)
          /\ issued[b] <= Accounted(b) + amount * ExchangeRate + Deduction
    BY <1>9, <2>2, SMTT(20)
  <2> QED
    BY <1>3, <2>1, <2>3 DEF NumberBounds
<1>11. NumbersExact
  BY <1>3, <1>9, ChequesAssumption DEF NumbersExact
<1>12. Cashouts
  BY SMTT(20) DEF Cashouts, NoCashout
<1> QED
  BY <1>2, <1>6, <1>7, <1>8, <1>10, <1>11, <1>12, SMTT(20) DEF IInv

LEMMA ChequesStutter ==
  ASSUME IInv, UNCHANGED vars
  PROVE  IInv'
<1> USE DEF IInv
<1>1. UNCHANGED <<lastCheque, totalIssued, reserved, lock, book, wire, received, cashout, cashing,
                  balance, paidOut, wallet, depositing, withdrawal, payment, issued, paid, strayed,
                  shared, excess, lost, bounced>>
  BY DEF vars, chequebook, receiver, chain, history
<1>2. Types'
  BY <1>1 DEF Types
<1>3. /\ Started' /\ Reservation' /\ WrittenCounted' /\ NumberBounds' /\ NumbersExact'
      /\ SumPromised' = SumPromised
  BY <1>1, PaymentsKept
<1>4. Cover'
  BY <1>1, <1>3 DEF Cover, TotalPaidOut, Withdrawing
<1>5. Cashouts'
  BY <1>1, CashoutsKept
<1> QED
  BY <1>2, <1>3, <1>4, <1>5

LEMMA ChequesStep ==
  ASSUME IInv, [Next]_vars
  PROVE  IInv'
<1>1. CASE \E p \in Peers : Handshake(p)
  BY <1>1, HandshakeKeepsInv
<1>2. CASE \E p \in Peers, amount \in Amounts : Pay(p, amount)
  BY <1>2, PayKeepsInv
<1>3. CASE \E p \in Peers : ReadBalance(p) \/ ReserveTotalIssued(p) \/ SignCheque(p)
  BY <1>3, ReadBalanceKeepsInv, ReserveKeepsInv, SignChequeKeepsInv
<1>4. CASE \E p \in Peers : SendCheque(p) \/ SendFails(p)
  BY <1>4, SendChequeKeepsInv, SendFailsKeepsInv
<1>5. CASE \E p \in Peers : SaveCheque(p) \/ AddTotalIssued(p) \/ FinishPayment(p) \/ PutFails(p)
  BY <1>5, SaveChequeKeepsInv, AddTotalIssuedKeepsInv, FinishPaymentKeepsInv, PutFailsKeepsInv, SMTT(20)
<1>6. CASE Restart
  BY <1>6, RestartKeepsInv
<1>7. CASE \E c \in wire : ReceiveCheque(c) \/ LoseCheque(c)
  BY <1>7, ReceiveKeepsInv, SMTT(20)
<1>8. CASE \E b \in Beneficiaries : CashCheque(b)
  BY <1>8, CashChequeKeepsInv
<1>9. CASE \/ \E amount \in Deposits : Deposit(amount)
           \/ MineDeposit
           \/ \E amount \in Withdrawals : StartWithdraw(amount)
           \/ MineWithdraw
  BY <1>9, FundsStepsKeepInv
<1>10. CASE Withdraw
  BY <1>10, WithdrawKeepsInv
<1>11. CASE \E tx \in cashing : MineCashout(tx)
  BY <1>11, MineCashoutKeepsInv, SMTT(20)
<1>12. CASE UNCHANGED vars
  BY <1>12, ChequesStutter
<1> QED
  BY <1>1, <1>2, <1>3, <1>4, <1>5, <1>6, <1>7, <1>8, <1>9, <1>10, <1>11, <1>12, SMTT(20) DEF Next

-----------------------------------------------------------------------------
(* What the invariant implies. *)

LEMMA InvariantIsTyped ==
  ASSUME IInv
  PROVE  TypeOK
<1>1. \A p \in Peers : payment[p] \in PaymentRecord
  BY DEF IInv, Types
<1>2. \A p \in Peers : /\ payment[p].stage \in Stages
                       /\ payment[p].beneficiary \in Beneficiaries \cup {"none"}
  BY <1>1 DEF PaymentRecord
<1>3. \A b \in Beneficiaries : {lastCheque[b], received[b], paidOut[b], issued[b]} \subseteq Nat
  BY SMTT(20) DEF IInv, Types
<1>4. {totalIssued, reserved, balance, wallet, excess, lost} \subseteq Nat
  BY DEF IInv, Types
<1>5. lock \in Peers \cup {"none"}
  BY DEF IInv, Types
<1> QED
  BY <1>2, <1>3, <1>4, <1>5 DEF TypeOK, Stages

LEMMA InvariantIsSolvent ==
  ASSUME IInv
  PROVE  Solvent
<1>1. /\ TotalPaidOut \in Nat /\ TotalWritten \in Nat /\ Withdrawing \in Nat
      /\ SumWritten \in Nat /\ SumPromised \in Nat /\ SumWritten <= SumPromised
  BY TotalTypes, SumTypes DEF IInv, Types
<1>2. balance \in Nat /\ totalIssued \in Nat /\ excess \in Nat /\ lost \in Nat
  BY DEF IInv, Types
<1>3. totalIssued + SumPromised <= balance + TotalPaidOut - Withdrawing + excess
  BY DEF IInv, Cover
<1>4. TotalWritten <= totalIssued + SumWritten + lost
  BY DEF IInv, WrittenCounted
<1> QED
  BY <1>1, <1>2, <1>3, <1>4, SMTT(20) DEF Solvent

\* The saved payments to b, as a sum over all peers.
LEMMA SavingIsSumSaved ==
  ASSUME NEW b
  PROVE  Saving(b) = SumSaved(b)
<1> DEFINE R == {p \in Peers : /\ payment[p].beneficiary = b
                               /\ payment[p].stage \in {"saved", "counted"}}
           f == [p \in Peers |-> payment[p].tokens]
           g == [p \in Peers |-> SavedFor(p, b)]
<1>1. R \in SUBSET Peers
  OBVIOUS
<1>2. \A p \in Peers : g[p] = IF p \in R THEN f[p] ELSE 0
  BY DEF SavedFor, LostSave
<1> HIDE DEF R, f, g
<1>3. SumOver(f, R) = SumOver(g, Peers)
  BY <1>1, <1>2, SumOfPart, SMTT(20)
<1> QED
  BY <1>3 DEF R, f, g, Saving, SumSaved

LEMMA InvariantCountsPayments ==
  ASSUME IInv
  PROVE  NoDoublePayment /\ PaidIsInCheque
<1>1. \A b \in Beneficiaries : Accounted(b) = paid[b] + strayed[b] + Saving(b)
  BY SavingIsSumSaved DEF Accounted
<1>2. \A b \in Beneficiaries :
        \E amount \in Amounts : issued[b] <= Accounted(b) + amount * ExchangeRate + Deduction
  BY DEF IInv, NumberBounds
<1>3. \A b \in Beneficiaries \ shared : lastCheque[b] = Accounted(b)
  BY DEF IInv, NumbersExact
<1>4. NoDoublePayment
  BY <1>1, <1>2 DEF NoDoublePayment
<1>5. PaidIsInCheque
  BY <1>1, <1>3 DEF PaidIsInCheque
<1> QED
  BY <1>4, <1>5

LEMMA InvariantIsExact ==
  ASSUME IInv
  PROVE  UncashedExact
<1> SUFFICES ASSUME NEW b \in Beneficiaries \ bounced, \A tx \in cashing : tx.beneficiary # b
             PROVE  UncashedAmount(b) = received[b] - paidOut[b]
  BY DEF UncashedExact
<1>1. /\ cashout[b] \in [status : {"none", "pending", "mined", "failed"}, cumulative : Nat]
      /\ received[b] \in Nat /\ paidOut[b] \in Nat
  BY DEF IInv, Types
<1>2. /\ cashout[b].status \in {"none", "pending", "mined", "failed"}
      /\ cashout[b].cumulative \in Nat
  BY <1>1
<1>3. /\ cashout[b].status = "none" => paidOut[b] = 0
      /\ cashout[b].status = "pending" =>
           [beneficiary |-> b, cumulative |-> cashout[b].cumulative] \in cashing
      /\ cashout[b].status = "mined" => paidOut[b] = cashout[b].cumulative
  BY DEF IInv, Cashouts
<1>4. cashout[b].status # "pending"
  BY <1>3
<1> QED
  BY <1>1, <1>2, <1>3, <1>4, SMTT(20) DEF UncashedAmount

\* What the chequebook can prove by induction holds throughout.
LEMMA ChequesInvariant == Spec => []IInv
<1>1. Init => IInv
  BY ChequesInitially
<1>2. IInv /\ [Next]_vars => IInv'
  BY ChequesStep
<1> QED
  BY <1>1, <1>2, PTL DEF Spec

-----------------------------------------------------------------------------
\* The chequebook's totals, its reservation and the chain's balances stay
\* natural numbers: unreserveTotalIssued never takes out more than
\* reserveTotalIssued put in, and no cashout or withdrawal overdraws.
THEOREM ChequesTyped == Spec => []TypeOK
<1>1. IInv => TypeOK
  BY InvariantIsTyped
<1> QED
  BY <1>1, ChequesInvariant, PTL

\* The cheques that Issue let out are covered by the chequebook's balance and
\* what it paid out, up to the mistakes of AvailableBalance and the cheques
\* that were sent and never counted, however payments, cashouts, deposits,
\* withdrawals and restarts interleave.
THEOREM ChequesSolvent == Spec => []Solvent
<1>1. IInv => Solvent
  BY InvariantIsSolvent
<1> QED
  BY <1>1, ChequesInvariant, PTL

\* Failed sends and saves never make the cheques of a beneficiary run ahead of
\* the payments by more than one: Issue sends the cheque before it saves it.
THEOREM ChequesNoDoublePayment == Spec => []NoDoublePayment
<1>1. IInv => NoDoublePayment
  BY InvariantCountsPayments
<1> QED
  BY <1>1, ChequesInvariant, PTL

\* The last cheque saved for a beneficiary is the sum of the payments to it, as
\* long as Issue runs for one payment to the beneficiary at a time.
THEOREM ChequesPaidIsInCheque == Spec => []PaidIsInCheque
<1>1. IInv => PaidIsInCheque
  BY InvariantCountsPayments
<1> QED
  BY <1>1, ChequesInvariant, PTL

\* CashoutStatus reports what a cheque is still worth, unless a cashout is
\* pending or one bounced, in whatever order cashouts are mined or fail.
THEOREM ChequesUncashedExact == Spec => []UncashedExact
<1>1. IInv => UncashedExact
  BY InvariantIsExact
<1> QED
  BY <1>1, ChequesInvariant, PTL
=============================================================================
